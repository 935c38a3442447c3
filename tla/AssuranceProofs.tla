---------------------------- MODULE AssuranceProofs ----------------------------
(***************************************************************************)
(* The safety of candidate assurance, for any commits, boundaries and      *)
(* observations, and with everything that an instance of the model can     *)
(* leave out.                                                              *)
(***************************************************************************)
EXTENDS Assurance, FiniteSetTheorems, TLAPS

-------------------------------------------------------------------------------
(* The inductive invariant *)

CandidateFields ==
    {"commit", "class", "decision", "effects", "exposure", "specialists", "iteration", "reviews",
     "specialistReviews", "accepted", "rejected", "batches", "acceptance", "derivation", "proofs",
     "exhaustive"}

RunFields == {"cands", "trail", "pending", "ready", "failed", "exposure", "profiled"}

\* What was observed or declared is exposed.
Covered(c) ==
    /\ c.effects \cap Boundaries \subseteq c.exposure
    /\ c.effects # {} => c.exposure # {}
    /\ DeclaredHigh => c.exposure \cap Boundaries # {}

\* Findings are decided one way, by a decision; an acceptance goes with the Spec review of the
\* current iteration; Standards is never retained.
CandidateSafe(c) ==
    /\ DOMAIN c = CandidateFields
    /\ Covered(c)
    /\ c.accepted \cap c.rejected = {}
    /\ c.accepted # {} => c.decision # "none"
    /\ c.acceptance # 0 => "spec" \in CurrentAxes(c)
    /\ DOMAIN c.derivation = {"status", "fresh", "specialists", "of"}
    /\ "standards" \in c.derivation.fresh

\* What is retained from the parent the parent had.
Held(r, i) ==
    r.cands[i].derivation.status = "confirmed" =>
        /\ i > 1
        /\ r.cands[i].derivation.specialists \subseteq {v.boundary : v \in r.cands[i - 1].specialistReviews}

\* A ready run waits for nothing, and its candidate asks for all of its specialists.
Ready(r) ==
    /\ r.cands # <<>> /\ r.pending = {} /\ ~r.failed
    /\ Latest(r).accepted = {} /\ Unresolved(Latest(r)) = {}
    /\ Latest(r).specialists = Latest(r).exposure \cap Boundaries

\* Every candidate is safe, and every one with a successor has no open finding.
HistorySafe(r) ==
    /\ DOMAIN r = RunFields
    /\ r.cands \in Seq({r.cands[i] : i \in DOMAIN r.cands})
    /\ \A i \in DOMAIN r.cands : CandidateSafe(r.cands[i]) /\ Held(r, i)
    /\ \A i \in DOMAIN r.cands : i < Len(r.cands) => Unresolved(r.cands[i]) = {}

RunSafe(r) ==
    /\ HistorySafe(r)
    /\ r.pending # {} => r.cands # <<>>
    /\ r.ready => Ready(r)

IInv == RunSafe(run) /\ loads = Decodable(run)

-------------------------------------------------------------------------------
(* Candidates *)

\* An exposure covers what is added to it, and what is declared.
LEMMA Exposing ==
    ASSUME NEW X, NEW e
    PROVE  LET E == Exposed(X \cup e) IN
           /\ e \cap Boundaries \subseteq E
           /\ e # {} => E # {}
           /\ DeclaredHigh => E \cap Boundaries # {}
<1> DEFINE set == X \cup e
<1>1. Governance \in Boundaries
  BY AssuranceAssumption
<1>2. CASE set \cap Boundaries # {}
  <2>1. Exposed(set) = set \cap Boundaries
    BY <1>2 DEF Exposed
  <2> QED
    BY <1>2, <2>1
<1>3. CASE set \cap Boundaries = {} /\ DeclaredHigh
  <2>1. Exposed(set) = {Governance}
    BY <1>3 DEF Exposed
  <2> QED
    BY <1>1, <1>3, <2>1
<1>4. CASE set \cap Boundaries = {} /\ ~DeclaredHigh
  <2>1. Exposed(set) = set
    BY <1>4 DEF Exposed
  <2> QED
    BY <1>4, <2>1
<1> QED
  BY <1>2, <1>3, <1>4

\* What is said of a candidate depends on these fields alone.
Alike(c, d) ==
    /\ DOMAIN c = CandidateFields /\ Covered(c)
    /\ c.decision = d.decision /\ c.iteration = d.iteration /\ c.reviews = d.reviews
    /\ c.specialistReviews = d.specialistReviews /\ c.accepted = d.accepted
    /\ c.rejected = d.rejected /\ c.acceptance = d.acceptance /\ c.derivation = d.derivation

\* An observation changes the class, the effects, the exposure and the specialists alone.
LEMMA ProfiledFacts ==
    ASSUME NEW r, NEW c, DOMAIN c = CandidateFields, NEW previous
    PROVE  LET p == Profiled(r, c, previous) IN
           Alike(p, c) /\ (previous = <<>> => p.specialists = p.exposure \cap Boundaries)
<1> DEFINE e == effects[c.commit]
           E == Exposed(r.exposure \cup e)
           p == Profiled(r, c, previous)
<1>1. PICK class, specialists :
         /\ p = [c EXCEPT !.class = class, !.effects = e, !.exposure = E, !.specialists = specialists]
         /\ previous = <<>> => specialists = E \cap Boundaries
  BY DEF Profiled
<1>2. /\ e \cap Boundaries \subseteq E /\ (e # {} => E # {})
      /\ DeclaredHigh => E \cap Boundaries # {}
  BY Exposing
<1> HIDE DEF e, E, p
<1>3. p.effects = e /\ p.exposure = E /\ p.specialists = specialists
  BY <1>1 DEF CandidateFields
<1>4. Covered(p)
  BY <1>2, <1>3 DEF Covered
<1>5. /\ DOMAIN p = CandidateFields
      /\ p.decision = c.decision /\ p.iteration = c.iteration /\ p.reviews = c.reviews
      /\ p.specialistReviews = c.specialistReviews /\ p.accepted = c.accepted
      /\ p.rejected = c.rejected /\ p.acceptance = c.acceptance /\ p.derivation = c.derivation
  BY <1>1 DEF CandidateFields
<1> QED
  BY <1>1, <1>3, <1>4, <1>5 DEF Alike, p

\* Such a candidate is as safe, and has the same findings.
LEMMA AlikeSafe ==
    ASSUME NEW c, NEW d, CandidateSafe(d), Alike(c, d)
    PROVE  CandidateSafe(c) /\ Findings(c) = Findings(d) /\ Unresolved(c) = Unresolved(d)
<1>1. CurrentAxes(c) = CurrentAxes(d)
  BY DEF Alike, CurrentAxes
<1>2. Findings(c) = Findings(d)
  BY DEF Alike, Findings
<1> QED
  BY <1>1, <1>2 DEF Alike, CandidateSafe, Unresolved

-------------------------------------------------------------------------------
(* Records *)

\* A function on an initial segment is a sequence.
LEMMA SequenceOf ==
    ASSUME NEW S, NEW n \in Nat, NEW s \in [1..n -> S]
    PROVE  s \in Seq(S) /\ Len(s) = n
  OBVIOUS

\* A history is a sequence of candidates.
LEMMA SequenceFacts ==
    ASSUME NEW r, HistorySafe(r)
    PROVE  /\ Len(r.cands) \in Nat /\ DOMAIN r.cands = 1..Len(r.cands)
           /\ r.cands = <<>> <=> Len(r.cands) = 0
           /\ r.cands # <<>> => Len(r.cands) \in DOMAIN r.cands /\ CandidateSafe(Latest(r))
<1> DEFINE S == {r.cands[i] : i \in DOMAIN r.cands}
<1>1. r.cands \in Seq(S)
  BY DEF HistorySafe
<1> HIDE DEF S
<1>2. /\ Len(r.cands) \in Nat /\ DOMAIN r.cands = 1..Len(r.cands)
      /\ r.cands = <<>> <=> Len(r.cands) = 0
  BY <1>1
<1>3. ASSUME r.cands # <<>>
      PROVE  Len(r.cands) \in DOMAIN r.cands /\ CandidateSafe(Latest(r))
  BY <1>2, <1>3 DEF HistorySafe, Latest
<1> QED
  BY <1>2, <1>3

\* What is said of a history depends on the candidates alone.
LEMMA SameHistory ==
    ASSUME NEW r, HistorySafe(r), NEW t, DOMAIN t = RunFields, t.cands = r.cands
    PROVE  HistorySafe(t) /\ Latest(t) = Latest(r)
<1>1. \A i \in DOMAIN r.cands : Held(r, i) => Held(t, i)
  BY DEF Held
<1> QED
  BY <1>1 DEF HistorySafe, Latest

\* The parent of the latest candidate of r has what d retains.
HeldFor(r, d) ==
    d.status = "confirmed" =>
        /\ Len(r.cands) > 1
        /\ d.specialists \subseteq {v.boundary : v \in r.cands[Len(r.cands) - 1].specialistReviews}

\* Another safe candidate in the place of the latest keeps the history.
LEMMA Replaced ==
    ASSUME NEW r, HistorySafe(r), r.cands # <<>>, NEW c, CandidateSafe(c), HeldFor(r, c.derivation)
    PROVE  LET t == Replace(r, c) IN
           /\ HistorySafe(t) /\ t.cands # <<>> /\ Latest(t) = c
           /\ t.pending = r.pending /\ t.ready = r.ready /\ t.failed = r.failed
<1> DEFINE n == Len(r.cands)
           t == Replace(r, c)
<1>1. DOMAIN r = RunFields
  BY DEF HistorySafe
<1>2. n \in Nat /\ n # 0 /\ DOMAIN r.cands = 1..n
  BY SequenceFacts
<1>3. /\ DOMAIN t = RunFields /\ t.cands = [r.cands EXCEPT ![n] = c]
      /\ t.pending = r.pending /\ t.ready = r.ready /\ t.failed = r.failed
  BY <1>1 DEF Replace, RunFields
<1> HIDE DEF t
<1>4. /\ DOMAIN t.cands = 1..n /\ t.cands[n] = c
      /\ \A i \in 1..n : i # n => t.cands[i] = r.cands[i]
  BY <1>2, <1>3
<1>5. t.cands \in Seq({t.cands[i] : i \in DOMAIN t.cands}) /\ Len(t.cands) = n
  <2> DEFINE S == {t.cands[i] : i \in DOMAIN t.cands}
  <2>1. t.cands = [i \in 1..n |-> t.cands[i]]
    BY <1>3, <1>4
  <2>2. \A i \in 1..n : t.cands[i] \in S
    BY <1>4
  <2> HIDE DEF S
  <2>3. t.cands \in [1..n -> S]
    BY <2>1, <2>2
  <2>4. t.cands \in Seq(S) /\ Len(t.cands) = n
    BY <1>2, <2>3
  <2> QED
    BY <2>4 DEF S
<1>6. t.cands # <<>> /\ Latest(t) = c
  BY <1>2, <1>4, <1>5 DEF Latest
<1>7. ASSUME NEW i \in DOMAIN t.cands
      PROVE  /\ CandidateSafe(t.cands[i]) /\ Held(t, i)
             /\ i < Len(t.cands) => Unresolved(t.cands[i]) = {}
  <2>1. CASE i = n
    BY <1>2, <1>4, <1>5, <2>1 DEF Held, HeldFor
  <2>2. CASE i # n
    <3>1. t.cands[i] = r.cands[i] /\ i \in DOMAIN r.cands /\ i \in Nat /\ i < n
      BY <1>2, <1>4, <2>2
    <3>2. /\ CandidateSafe(r.cands[i]) /\ Held(r, i)
          /\ i < Len(r.cands) => Unresolved(r.cands[i]) = {}
      BY <3>1 DEF HistorySafe
    <3>3. i > 1 => t.cands[i - 1] = r.cands[i - 1]
      BY <1>2, <1>4, <3>1
    <3>4. Held(t, i)
      BY <3>1, <3>2, <3>3 DEF Held
    <3> QED
      BY <3>1, <3>2, <3>4
  <2> QED
    BY <2>1, <2>2
<1>8. HistorySafe(t)
  BY <1>3, <1>5, <1>7 DEF HistorySafe
<1> QED
  BY <1>3, <1>6, <1>8 DEF t

-------------------------------------------------------------------------------
(* Persisting *)

\* A stamp is an entry of the trail.
LEMMA StampedSafe ==
    ASSUME NEW r, RunSafe(r), NEW phase
    PROVE  LET t == Stamp(r, phase) IN
           /\ RunSafe(t) /\ t.cands = r.cands /\ t.pending = r.pending
           /\ t.ready = r.ready /\ t.failed = r.failed
<1> DEFINE t == Stamp(r, phase)
<1>1. DOMAIN r = RunFields
  BY DEF RunSafe, HistorySafe
<1>2. t = r \/ \E trail : t = [r EXCEPT !.trail = trail]
  BY DEF Stamp
<1> HIDE DEF t
<1>3. /\ DOMAIN t = RunFields /\ t.cands = r.cands /\ t.pending = r.pending
      /\ t.ready = r.ready /\ t.failed = r.failed
  BY <1>1, <1>2 DEF RunFields
<1>4. HistorySafe(t) /\ Latest(t) = Latest(r)
  BY <1>3, SameHistory DEF RunSafe
<1> QED
  BY <1>3, <1>4 DEF RunSafe, Ready, t

\* The projection adds batches.
LEMMA ProjectedSafe ==
    ASSUME NEW r, RunSafe(r)
    PROVE  RunSafe(Projected(r))
<1> DEFINE n == Len(r.cands)
           t == Projected(r)
           cands == [i \in DOMAIN r.cands |-> Batched(r, i)]
<1>1. DOMAIN r = RunFields /\ HistorySafe(r)
  BY DEF RunSafe, HistorySafe
<1>2. n \in Nat /\ DOMAIN r.cands = 1..n /\ (r.cands = <<>> <=> n = 0)
  BY <1>1, SequenceFacts
<1>3. /\ DOMAIN t = RunFields /\ t.cands = cands
      /\ t.pending = r.pending /\ t.ready = r.ready /\ t.failed = r.failed
  BY <1>1 DEF Projected, RunFields
<1>4. ASSUME NEW i \in 1..n
      PROVE  /\ Alike(Batched(r, i), r.cands[i])
             /\ Batched(r, i).exposure = r.cands[i].exposure
             /\ Batched(r, i).specialists = r.cands[i].specialists
  <2> DEFINE c == r.cands[i]
             b == Batched(r, i)
  <2>1. CandidateSafe(c)
    BY <1>1, <1>2 DEF HistorySafe
  <2>2. PICK batches : b = [c EXCEPT !.batches = batches]
    BY DEF Batched
  <2> HIDE DEF b, c
  <2>3. /\ DOMAIN b = CandidateFields /\ b.effects = c.effects /\ b.exposure = c.exposure
        /\ b.decision = c.decision /\ b.iteration = c.iteration /\ b.reviews = c.reviews
        /\ b.specialistReviews = c.specialistReviews /\ b.accepted = c.accepted
        /\ b.rejected = c.rejected /\ b.acceptance = c.acceptance /\ b.derivation = c.derivation
        /\ b.specialists = c.specialists
    BY <2>1, <2>2 DEF CandidateSafe, CandidateFields
  <2>4. Covered(b)
    BY <2>1, <2>3 DEF CandidateSafe, Covered
  <2> QED
    BY <2>3, <2>4 DEF Alike, b, c
<1> HIDE DEF t
<1>5. DOMAIN t.cands = 1..n /\ \A i \in 1..n : t.cands[i] = Batched(r, i)
  BY <1>2, <1>3
<1>6. t.cands \in Seq({t.cands[i] : i \in DOMAIN t.cands}) /\ Len(t.cands) = n
  <2> DEFINE S == {t.cands[i] : i \in DOMAIN t.cands}
  <2>1. \A i \in 1..n : t.cands[i] \in S
    BY <1>5
  <2>2. t.cands = [i \in 1..n |-> t.cands[i]]
    BY <1>2, <1>3, <1>5
  <2> HIDE DEF S
  <2>3. t.cands \in [1..n -> S]
    BY <2>1, <2>2
  <2>4. t.cands \in Seq(S) /\ Len(t.cands) = n
    BY <1>2, <2>3
  <2> QED
    BY <2>4 DEF S
<1>7. ASSUME NEW i \in 1..n
      PROVE  /\ CandidateSafe(t.cands[i]) /\ Unresolved(t.cands[i]) = Unresolved(r.cands[i])
             /\ Held(t, i)
  <2>1. CandidateSafe(r.cands[i]) /\ Held(r, i)
    BY <1>1, <1>2 DEF HistorySafe
  <2>2. Alike(t.cands[i], r.cands[i])
    BY <1>4, <1>5
  <2>3. CandidateSafe(t.cands[i]) /\ Unresolved(t.cands[i]) = Unresolved(r.cands[i])
    BY <2>1, <2>2, AlikeSafe
  <2>4. ASSUME i > 1
        PROVE  t.cands[i - 1].specialistReviews = r.cands[i - 1].specialistReviews
    <3>1. i - 1 \in 1..n
      BY <1>2, <2>4
    <3> QED
      BY <1>4, <1>5, <3>1 DEF Alike
  <2>5. t.cands[i].derivation = r.cands[i].derivation
    BY <2>2 DEF Alike
  <2>6. Held(t, i)
    BY <2>1, <2>4, <2>5 DEF Held
  <2> QED
    BY <2>3, <2>6
<1>8. HistorySafe(t)
  BY <1>1, <1>2, <1>3, <1>5, <1>6, <1>7 DEF HistorySafe
<1>9. r.pending # {} => t.cands # <<>>
  BY <1>2, <1>6 DEF RunSafe
<1>10. ASSUME r.ready
       PROVE  Ready(t)
  <2>1. Ready(r) /\ n \in 1..n
    BY <1>2, <1>10 DEF RunSafe, Ready
  <2>2. Alike(t.cands[n], r.cands[n]) /\ Unresolved(t.cands[n]) = Unresolved(r.cands[n])
    BY <1>4, <1>5, <1>7, <2>1
  <2>3. t.cands[n].exposure = r.cands[n].exposure /\ t.cands[n].specialists = r.cands[n].specialists
    BY <1>4, <1>5, <2>1
  <2>4. t.cands # <<>>
    BY <1>2, <1>6, <2>1
  <2> QED
    BY <1>3, <1>6, <2>1, <2>2, <2>3, <2>4 DEF Ready, Latest, Alike
<1> QED
  BY <1>3, <1>8, <1>9, <1>10 DEF RunSafe, t

\* Persisting a safe draft, or refusing to, keeps the invariant.
LEMMA Persisted ==
    ASSUME IInv, NEW draft, RunSafe(draft), NEW phase, Persist(draft, phase)
    PROVE  IInv'
<1> DEFINE r == Stamp(draft, phase)
<1>1. RunSafe(r)
  BY StampedSafe
<1>2. run' = Projected(r) \/ run' = run
  BY DEF Persist
<1>3. loads' = Decodable(run')
  BY DEF Persist
<1> HIDE DEF r
<1>4. RunSafe(run')
  BY <1>1, <1>2, ProjectedSafe DEF IInv
<1> QED
  BY <1>3, <1>4 DEF IInv

-------------------------------------------------------------------------------
(* Drafts *)

\* A draft with another safe candidate in the place of the latest.
LEMMA DraftSafe ==
    ASSUME NEW r, RunSafe(r), r.cands # <<>>, NEW c, CandidateSafe(c), HeldFor(r, c.derivation),
           NEW t, DOMAIN t = RunFields, t.cands = Replace(r, c).cands,
           t.ready => /\ t.pending = {} /\ ~t.failed /\ c.accepted = {} /\ Unresolved(c) = {}
                      /\ c.specialists = c.exposure \cap Boundaries
    PROVE  RunSafe(t)
<1> DEFINE u == Replace(r, c)
<1>1. HistorySafe(u) /\ u.cands # <<>> /\ Latest(u) = c
  BY Replaced DEF RunSafe
<1> HIDE DEF u
<1>2. t.cands = u.cands
  BY DEF u
<1>3. HistorySafe(t) /\ Latest(t) = c
  BY <1>1, <1>2, SameHistory
<1> QED
  BY <1>1, <1>2, <1>3 DEF RunSafe, Ready

\* What an action reads of a run with a candidate, and of the candidate observed again.
LEMMA Observed ==
    ASSUME IInv, run.cands # <<>>
    PROVE  /\ RunSafe(run) /\ DOMAIN run = RunFields
           /\ Alike(Reobserved, Latest(run)) /\ CandidateSafe(Reobserved)
           /\ HeldFor(run, Reobserved.derivation)
           /\ Unresolved(Reobserved) = Unresolved(Latest(run))
           /\ Reobserved.specialists = Reobserved.exposure \cap Boundaries
<1> DEFINE c == Latest(run)
           p == Reobserved
<1>1. RunSafe(run) /\ HistorySafe(run) /\ DOMAIN run = RunFields
  BY DEF IInv, RunSafe, HistorySafe
<1>2. CandidateSafe(c)
  BY <1>1, SequenceFacts
<1>3. Alike(p, c) /\ p.specialists = p.exposure \cap Boundaries
  <2>1. DOMAIN c = CandidateFields
    BY <1>2 DEF CandidateSafe
  <2> HIDE DEF c
  <2>2. p = Profiled(run, c, <<>>)
    BY DEF Reobserved, c
  <2> HIDE DEF p
  <2> QED
    BY <2>1, <2>2, ProfiledFacts
<1>4. CandidateSafe(p) /\ Unresolved(p) = Unresolved(c)
  BY <1>2, <1>3, AlikeSafe
<1>5. HeldFor(run, c.derivation)
  <2>1. Len(run.cands) \in DOMAIN run.cands
    BY <1>1, SequenceFacts
  <2>2. Held(run, Len(run.cands))
    BY <1>1, <2>1 DEF HistorySafe
  <2> QED
    BY <2>2 DEF Held, HeldFor, Latest
<1>6. HeldFor(run, p.derivation)
  BY <1>3, <1>5 DEF Alike
<1> QED
  BY <1>1, <1>3, <1>4, <1>6

\* A loaded record that is ready is exhaustively validated.
LEMMA ReadyValidated ==
    ASSUME IInv, loads, run.ready
    PROVE  Latest(run).exhaustive
<1>1. run.cands # <<>>
  BY DEF IInv, RunSafe, Ready
<1> QED
  BY <1>1 DEF IInv, Decodable, CurrentAgrees

\* A loaded record asks for all that is unresolved.
LEMMA AskedUnresolved ==
    ASSUME IInv, loads, run.pending # {}
    PROVE  run.cands # <<>> /\ run.pending = Unresolved(Latest(run)) /\ ~run.ready
<1>1. run.cands # <<>> /\ ~run.ready
  BY DEF IInv, RunSafe, Ready
<1> QED
  BY <1>1 DEF IInv, Decodable, CurrentAgrees

-------------------------------------------------------------------------------
(* Reviews *)

\* Reviews come with the current iteration, and with an acceptance if Spec is among them.
LEMMA WithReviewsSafe ==
    ASSUME NEW c, CandidateSafe(c), NEW axes, NEW findings
    PROVE  LET d == WithReviews(c, axes, findings) IN
           CandidateSafe(d) /\ d.derivation = c.derivation
<1> DEFINE new == {[axis |-> a, iteration |-> c.iteration, finding |-> a \in findings] : a \in axes}
           d == WithReviews(c, axes, findings)
<1>1. DOMAIN c = CandidateFields
  BY DEF CandidateSafe
<1>2. d = [c EXCEPT !.reviews = c.reviews \cup new,
                    !.acceptance = IF "spec" \in axes THEN c.iteration ELSE c.acceptance]
  BY <1>1 DEF WithReviews, CandidateFields
<1>3. ASSUME "spec" \in axes
      PROVE  \E v \in new : v.axis = "spec" /\ v.iteration = c.iteration
  <2>1. [axis |-> "spec", iteration |-> c.iteration, finding |-> "spec" \in findings] \in new
    BY <1>3
  <2> HIDE DEF new
  <2> QED
    BY <2>1
<1> HIDE DEF d, new
<1>4. /\ DOMAIN d = CandidateFields /\ d.reviews = c.reviews \cup new
      /\ d.acceptance = (IF "spec" \in axes THEN c.iteration ELSE c.acceptance)
      /\ d.effects = c.effects /\ d.exposure = c.exposure /\ d.decision = c.decision
      /\ d.iteration = c.iteration /\ d.accepted = c.accepted /\ d.rejected = c.rejected
      /\ d.derivation = c.derivation
  BY <1>1, <1>2 DEF CandidateFields
<1>5. CurrentAxes(c) \subseteq CurrentAxes(d)
  BY <1>4 DEF CurrentAxes
<1>6. d.acceptance # 0 => "spec" \in CurrentAxes(d)
  <2>1. CASE "spec" \in axes
    BY <1>3, <1>4, <2>1 DEF CurrentAxes
  <2>2. CASE "spec" \notin axes
    BY <1>4, <1>5, <2>2 DEF CandidateSafe
  <2> QED
    BY <2>1, <2>2
<1>7. Covered(d)
  BY <1>4 DEF CandidateSafe, Covered
<1> QED
  BY <1>4, <1>6, <1>7 DEF CandidateSafe, d

\* Specialists' reviews change nothing else.
LEMMA WithSpecialistsSafe ==
    ASSUME NEW c, CandidateSafe(c), NEW bs, NEW findings
    PROVE  LET d == WithSpecialists(c, bs, findings) IN
           CandidateSafe(d) /\ d.derivation = c.derivation
<1> DEFINE new == {[boundary |-> b, finding |-> b \in findings] : b \in bs}
           d == WithSpecialists(c, bs, findings)
<1>1. DOMAIN c = CandidateFields
  BY DEF CandidateSafe
<1>2. d = [c EXCEPT !.specialistReviews = c.specialistReviews \cup new]
  BY <1>1 DEF WithSpecialists, CandidateFields
<1> HIDE DEF d, new
<1>3. /\ DOMAIN d = CandidateFields /\ d.reviews = c.reviews /\ d.acceptance = c.acceptance
      /\ d.effects = c.effects /\ d.exposure = c.exposure /\ d.decision = c.decision
      /\ d.iteration = c.iteration /\ d.accepted = c.accepted /\ d.rejected = c.rejected
      /\ d.derivation = c.derivation
  BY <1>1, <1>2 DEF CandidateFields
<1>4. CurrentAxes(c) = CurrentAxes(d)
  BY <1>3 DEF CurrentAxes
<1>5. Covered(d)
  BY <1>3 DEF CandidateSafe, Covered
<1> QED
  BY <1>3, <1>4, <1>5 DEF CandidateSafe, d

\* The draft of a run that is not ready, with or without a request for decisions.
LEMMA AskingSafe ==
    ASSUME NEW r, RunSafe(r), r.cands # <<>>, ~r.ready, NEW c, CandidateSafe(c), HeldFor(r, c.derivation)
    PROVE  RunSafe(Replace(r, c)) /\ RunSafe([Replace(r, c) EXCEPT !.pending = Unresolved(c)])
<1> DEFINE t == Replace(r, c)
           u == [t EXCEPT !.pending = Unresolved(c)]
<1>1. DOMAIN t = RunFields /\ ~t.ready
  BY Replaced DEF RunSafe, HistorySafe
<1>2. DOMAIN u = RunFields /\ u.cands = t.cands /\ ~u.ready
  BY <1>1 DEF RunFields
<1>3. RunSafe(t)
  BY <1>1, DraftSafe
<1>4. RunSafe(u)
  BY <1>2, DraftSafe
<1> QED
  BY <1>3, <1>4

\* A draft of the candidate as it was observed again keeps what readiness there is.
LEMMA ReobservedSafe ==
    ASSUME IInv, run.cands # <<>>
    PROVE  RunSafe(Replace(run, Reobserved))
<1> DEFINE t == Replace(run, Reobserved)
<1>1. /\ RunSafe(run) /\ Alike(Reobserved, Latest(run)) /\ CandidateSafe(Reobserved)
      /\ HeldFor(run, Reobserved.derivation) /\ Unresolved(Reobserved) = Unresolved(Latest(run))
      /\ Reobserved.specialists = Reobserved.exposure \cap Boundaries
  BY Observed
<1>2. DOMAIN t = RunFields /\ t.pending = run.pending /\ t.ready = run.ready /\ t.failed = run.failed
  BY <1>1, Replaced DEF RunSafe, HistorySafe
<1>3. t.ready => /\ t.pending = {} /\ ~t.failed /\ Reobserved.accepted = {}
                 /\ Unresolved(Reobserved) = {}
  BY <1>1, <1>2 DEF RunSafe, Ready, Alike
<1> QED
  BY <1>1, <1>2, <1>3, DraftSafe

-------------------------------------------------------------------------------
(* The steps *)

\* Every finding of the request is decided, and what was decided before stays so.
LEMMA AdjudicationSafe ==
    ASSUME IInv, NEW accepted, NEW class \in {"adjudication-only", "bounded", "candidate-changing"},
           ApplyRepair(accepted, class)
    PROVE  IInv'
<1> DEFINE c == Latest(run)
           decision == strongestRepairClass(c.decision, class)
           merged == [c EXCEPT !.accepted = @ \cup accepted,
                               !.rejected = @ \cup (run.pending \ accepted),
                               !.decision = strongestRepairClass(c.decision, class)]
           t == Replace(run, merged)
           u == [t EXCEPT !.pending = {}]
<1>1. loads /\ run.pending # {} /\ accepted \subseteq run.pending /\ Persist(u, "other")
  BY DEF ApplyRepair
<1>2. run.cands # <<>> /\ run.pending = Unresolved(c) /\ ~run.ready
  BY <1>1, AskedUnresolved
<1>3. RunSafe(run) /\ CandidateSafe(c) /\ HeldFor(run, c.derivation)
  BY <1>2, Observed, SequenceFacts DEF RunSafe, Alike
<1>4. decision # "none"
  BY DEF strongestRepairClass
<1> HIDE DEF c, decision
<1>5. /\ DOMAIN merged = CandidateFields /\ merged.accepted = c.accepted \cup accepted
      /\ merged.rejected = c.rejected \cup (run.pending \ accepted) /\ merged.decision = decision
      /\ merged.effects = c.effects /\ merged.exposure = c.exposure
      /\ merged.iteration = c.iteration /\ merged.reviews = c.reviews
      /\ merged.acceptance = c.acceptance /\ merged.derivation = c.derivation
  BY <1>3 DEF CandidateSafe, CandidateFields, decision
<1> HIDE DEF merged
<1>6. merged.accepted \cap merged.rejected = {}
  BY <1>1, <1>2, <1>3, <1>5 DEF CandidateSafe, Unresolved
<1>7. CurrentAxes(merged) = CurrentAxes(c)
  BY <1>5 DEF CurrentAxes
<1>8. Covered(merged)
  BY <1>3, <1>5 DEF CandidateSafe, Covered
<1>9. CandidateSafe(merged)
  BY <1>3, <1>4, <1>5, <1>6, <1>7, <1>8 DEF CandidateSafe
<1>10. DOMAIN t = RunFields /\ ~t.ready
  <2>1. HistorySafe(run) /\ HeldFor(run, merged.derivation)
    BY <1>3, <1>5 DEF RunSafe
  <2>2. HistorySafe(t) /\ t.ready = run.ready
    BY <1>2, <1>9, <2>1, Replaced
  <2> QED
    BY <1>2, <2>2 DEF HistorySafe
<1>11. DOMAIN u = RunFields /\ u.cands = t.cands /\ ~u.ready
  BY <1>10 DEF RunFields
<1>12. RunSafe(u)
  BY <1>2, <1>3, <1>5, <1>9, <1>11, DraftSafe
<1> QED
  BY <1>1, <1>12, Persisted

\* The candidate of a new commit follows one that has no open finding.
LEMMA Followed ==
    ASSUME NEW r, HistorySafe(r), r.cands # <<>> => Unresolved(Latest(r)) = {},
           NEW c, CandidateSafe(c), c.derivation.status # "confirmed",
           NEW t, DOMAIN t = RunFields, t.cands = Append(r.cands, c)
    PROVE  HistorySafe(t) /\ t.cands # <<>>
<1> DEFINE n == Len(r.cands)
           S == {r.cands[i] : i \in DOMAIN r.cands} \cup {c}
           T == {t.cands[i] : i \in DOMAIN t.cands}
<1>1. n \in Nat /\ DOMAIN r.cands = 1..n /\ (r.cands = <<>> <=> n = 0)
  BY SequenceFacts
<1>2. r.cands \in Seq(S)
  <2>1. \A i \in 1..n : r.cands[i] \in S
    BY <1>1
  <2>2. r.cands = [i \in 1..n |-> r.cands[i]]
    BY <1>1 DEF HistorySafe
  <2> HIDE DEF S
  <2>3. r.cands \in [1..n -> S]
    BY <2>1, <2>2
  <2> QED
    BY <1>1, <2>3
<1>3. c \in S
  OBVIOUS
<1> HIDE DEF S
<1>4. /\ Len(t.cands) = n + 1 /\ DOMAIN t.cands = 1..(n + 1) /\ t.cands[n + 1] = c
      /\ \A i \in 1..n : t.cands[i] = r.cands[i]
      /\ t.cands \in Seq(S)
  BY <1>1, <1>2, <1>3
<1>5. t.cands \in Seq(T)
  <2>1. \A i \in 1..(n + 1) : t.cands[i] \in T
    BY <1>4
  <2>2. t.cands = [i \in 1..(n + 1) |-> t.cands[i]]
    BY <1>4
  <2> HIDE DEF T
  <2>3. t.cands \in [1..(n + 1) -> T]
    BY <2>1, <2>2
  <2> DEFINE m == n + 1
  <2>4. m \in Nat /\ t.cands \in [1..m -> T]
    BY <1>1, <2>3
  <2> HIDE DEF m
  <2> QED
    BY <2>4, SequenceOf
<1>6. ASSUME NEW i \in DOMAIN t.cands
      PROVE  /\ CandidateSafe(t.cands[i]) /\ Held(t, i)
             /\ i < Len(t.cands) => Unresolved(t.cands[i]) = {}
  <2>1. CASE i = n + 1
    BY <1>1, <1>4, <2>1 DEF Held
  <2>2. CASE i # n + 1
    <3>1. i \in 1..n /\ t.cands[i] = r.cands[i]
      BY <1>1, <1>4, <2>2
    <3>2. CandidateSafe(r.cands[i]) /\ Held(r, i) /\ Unresolved(r.cands[i]) = {}
      <4>1. CandidateSafe(r.cands[i]) /\ Held(r, i) /\ (i < n => Unresolved(r.cands[i]) = {})
        BY <1>1, <3>1 DEF HistorySafe
      <4>2. i = n => Unresolved(r.cands[i]) = {}
        BY <1>1, <3>1 DEF Latest
      <4> QED
        BY <1>1, <3>1, <4>1, <4>2
    <3>3. i > 1 => t.cands[i - 1] = r.cands[i - 1]
      BY <1>1, <1>4, <3>1
    <3>4. Held(t, i)
      BY <3>1, <3>2, <3>3 DEF Held
    <3> QED
      BY <3>1, <3>2, <3>4
  <2> QED
    BY <2>1, <2>2
<1>7. t.cands # <<>>
  BY <1>1, <1>4
<1> QED
  BY <1>5, <1>6, <1>7 DEF HistorySafe

\* A candidate that starts is safe, whatever came before it.
LEMMA Started ==
    ASSUME NEW r, NEW previous
    PROVE  LET c == Profiled(r, newCandidate(previous), previous) IN
           CandidateSafe(c) /\ c.derivation.status = "none"
<1> DEFINE b == newCandidate(previous)
           c == Profiled(r, b, previous)
<1>1. PICK class : b = Blank(class)
  BY DEF newCandidate
<1>2. /\ DOMAIN b = CandidateFields /\ b.accepted = {} /\ b.rejected = {} /\ b.acceptance = 0
      /\ b.derivation = NoDerivation
  BY <1>1 DEF Blank, CandidateFields
<1> HIDE DEF b
<1>3. /\ DOMAIN c = CandidateFields /\ Covered(c) /\ c.accepted = {} /\ c.rejected = {}
      /\ c.acceptance = 0 /\ c.derivation = NoDerivation
  <2>1. Alike(c, b)
    BY <1>2, ProfiledFacts
  <2> HIDE DEF c
  <2> QED
    BY <1>2, <2>1 DEF Alike
<1> HIDE DEF c
<1>4. /\ NoDerivation.status = "none" /\ "standards" \in NoDerivation.fresh
      /\ DOMAIN NoDerivation = {"status", "fresh", "specialists", "of"}
  BY DEF NoDerivation, ReviewAxes
<1> QED
  BY <1>3, <1>4 DEF CandidateSafe, b, c

\* Whatever comes of a start, the candidate before it has no open finding.
LEMMA NewCandidateSafe ==
    ASSUME IInv, NEW outcome \in {"unobserved", "unsandboxed", "focused"}, NewCandidate(outcome)
    PROVE  IInv'
<1> DEFINE previous == IF run.cands = <<>> THEN <<>> ELSE <<Latest(run)>>
           c == Profiled(run, newCandidate(previous), previous)
           started == Stamp(run, "start")
           observed == [started EXCEPT !.exposure = c.exposure, !.profiled = started.profiled \cup {head}]
           t == [observed EXCEPT !.cands = Append(observed.cands, c), !.ready = FALSE, !.failed = FALSE]
<1>1. CandidateSafe(c) /\ c.derivation.status = "none"
  BY Started
<1>2. /\ RunSafe(started) /\ started.cands = run.cands /\ started.pending = run.pending
      /\ started.ready = run.ready /\ started.failed = run.failed /\ RunSafe(run)
  BY StampedSafe DEF IInv
<1>3. run.cands # <<>> => Unresolved(Latest(run)) = {}
  <2> SUFFICES ASSUME run.cands # <<>>
               PROVE  Unresolved(Latest(run)) = {}
    OBVIOUS
  <2>1. loads /\ run.pending = {} /\ (Latest(run).accepted # {} \/ Unresolved(Latest(run)) = {})
    BY DEF NewCandidate, Free
  <2>2. Len(run.cands) \in DOMAIN run.cands /\ CandidateSafe(Latest(run))
    BY <1>2, SequenceFacts DEF RunSafe
  <2>3. DecisionsComplete(run, Len(run.cands))
    BY <2>1, <2>2 DEF IInv, Decodable
  <2>4. Latest(run).accepted # {} => Unresolved(Latest(run)) = {}
    BY <2>1, <2>2, <2>3 DEF CandidateSafe, DecisionsComplete, Latest
  <2> QED
    BY <2>1, <2>4
<1> HIDE DEF c, started
<1>4. DOMAIN started = RunFields
  BY <1>2 DEF RunSafe, HistorySafe
<1>5. /\ DOMAIN observed = RunFields /\ observed.cands = run.cands
      /\ observed.pending = run.pending /\ observed.ready = run.ready /\ observed.failed = run.failed
  BY <1>2, <1>4 DEF RunFields
<1> HIDE DEF observed
<1>6. RunSafe(observed)
  <2>1. HistorySafe(observed) /\ Latest(observed) = Latest(run)
    BY <1>2, <1>5, SameHistory DEF RunSafe
  <2> QED
    BY <1>2, <1>5, <2>1 DEF RunSafe, Ready
<1>7. DOMAIN t = RunFields /\ t.cands = Append(run.cands, c) /\ ~t.ready
  BY <1>5 DEF RunFields
<1> HIDE DEF t
<1>8. RunSafe(t)
  <2>1. HistorySafe(t) /\ t.cands # <<>>
    BY <1>1, <1>2, <1>3, <1>7, Followed DEF RunSafe
  <2> QED
    BY <1>7, <2>1 DEF RunSafe
<1>9. Persist(started, "other") \/ Persist(observed, "other") \/ Persist(t, "other")
  BY DEF NewCandidate, c, started, observed, t
<1> QED
  BY <1>2, <1>6, <1>8, <1>9, Persisted

\* An escalation begins an iteration, with neither an acceptance nor readiness.
LEMMA EscalateSafe == ASSUME IInv, Escalate PROVE IInv'
<1> DEFINE p == Reobserved
           c == [p EXCEPT !.iteration = Cardinality(p.reviews) + 1, !.acceptance = 0, !.exhaustive = FALSE]
           t == Replace(run, c)
           u == [t EXCEPT !.exposure = c.exposure, !.ready = FALSE, !.profiled = t.profiled \cup {head}]
<1>1. run.cands # <<>>
  BY DEF Escalate
<1>2. RunSafe(run) /\ CandidateSafe(p) /\ HeldFor(run, p.derivation)
  BY <1>1, Observed
<1> HIDE DEF p
<1>3. /\ DOMAIN c = CandidateFields /\ c.acceptance = 0 /\ c.effects = p.effects
      /\ c.exposure = p.exposure /\ c.decision = p.decision /\ c.accepted = p.accepted
      /\ c.rejected = p.rejected /\ c.derivation = p.derivation
  BY <1>2 DEF CandidateSafe, CandidateFields
<1> HIDE DEF c
<1>4. Covered(c)
  BY <1>2, <1>3 DEF CandidateSafe, Covered
<1>5. CandidateSafe(c) /\ HeldFor(run, c.derivation)
  BY <1>2, <1>3, <1>4 DEF CandidateSafe
<1>6. DOMAIN t = RunFields
  BY <1>1, <1>2, <1>5, Replaced DEF RunSafe, HistorySafe
<1>7. DOMAIN u = RunFields /\ u.cands = t.cands /\ ~u.ready
  BY <1>6 DEF RunFields
<1>8. RunSafe(u)
  BY <1>1, <1>2, <1>5, <1>7, DraftSafe
<1>9. Persist(u, "other")
  BY DEF Escalate, c, p
<1> QED
  BY <1>8, <1>9, Persisted

\* Reviews are taken while the run is not ready.
LEMMA ReviewsSafe ==
    ASSUME IInv, run.cands # <<>>, ~run.ready, NEW axes, NEW findings, NEW phase,
           LET c == WithReviews(Reobserved, axes, findings) IN
           Persist(Replace(run, c), phase) \/ Persist(Asking(c), phase)
    PROVE  IInv'
<1> DEFINE c == WithReviews(Reobserved, axes, findings)
<1>1. RunSafe(run) /\ CandidateSafe(Reobserved) /\ HeldFor(run, Reobserved.derivation)
  BY Observed
<1>2. CandidateSafe(c) /\ c.derivation = Reobserved.derivation
  BY <1>1, WithReviewsSafe
<1>3. \/ Persist(Replace(run, c), phase)
      \/ Persist([Replace(run, c) EXCEPT !.pending = Unresolved(c)], phase)
  BY DEF Asking
<1> HIDE DEF c
<1>4. RunSafe(Replace(run, c)) /\ RunSafe([Replace(run, c) EXCEPT !.pending = Unresolved(c)])
  BY <1>1, <1>2, AskingSafe
<1> QED
  BY <1>3, <1>4, Persisted

\* So are the reviews of specialists.
LEMMA SpecialistsSafe ==
    ASSUME IInv, run.cands # <<>>, ~run.ready, NEW bs, NEW findings, NEW phase,
           LET c == WithSpecialists(Reobserved, bs, findings) IN
           Persist(Replace(run, c), phase) \/ Persist(Asking(c), phase)
    PROVE  IInv'
<1> DEFINE c == WithSpecialists(Reobserved, bs, findings)
<1>1. RunSafe(run) /\ CandidateSafe(Reobserved) /\ HeldFor(run, Reobserved.derivation)
  BY Observed
<1>2. CandidateSafe(c) /\ c.derivation = Reobserved.derivation
  BY <1>1, WithSpecialistsSafe
<1>3. \/ Persist(Replace(run, c), phase)
      \/ Persist([Replace(run, c) EXCEPT !.pending = Unresolved(c)], phase)
  BY DEF Asking
<1> HIDE DEF c
<1>4. RunSafe(Replace(run, c)) /\ RunSafe([Replace(run, c) EXCEPT !.pending = Unresolved(c)])
  BY <1>1, <1>2, AskingSafe
<1> QED
  BY <1>3, <1>4, Persisted

\* An assessment replaces the derivation; one that is pending retains nothing yet.
LEMMA AssessmentSafe ==
    ASSUME IInv, NEW fresh, "standards" \in fresh, NEW specialists,
           AdmitImpactAssessment(fresh, specialists)
    PROVE  IInv'
<1> DEFINE p == Reobserved
           pending == fresh # ReviewAxes \/ specialists # {}
           d == [status |-> IF pending THEN "pending" ELSE "unconfirmed",
                 fresh |-> fresh, specialists |-> specialists, of |-> <<p.iteration, p.exposure>>]
           c == [p EXCEPT !.derivation = d]
           t == Replace(run, c)
<1>1. run.cands # <<>> /\ Persist(t, "other")
  BY DEF AdmitImpactAssessment, Steady
<1>2. /\ RunSafe(run) /\ Alike(p, Latest(run)) /\ CandidateSafe(p)
      /\ Unresolved(p) = Unresolved(Latest(run)) /\ p.specialists = p.exposure \cap Boundaries
  BY <1>1, Observed
<1>3. /\ d.status # "confirmed" /\ d.fresh = fresh
      /\ DOMAIN d = {"status", "fresh", "specialists", "of"}
  OBVIOUS
<1> HIDE DEF p, d
<1>4. /\ DOMAIN c = CandidateFields /\ c.derivation = d /\ c.effects = p.effects
      /\ c.exposure = p.exposure /\ c.specialists = p.specialists /\ c.decision = p.decision
      /\ c.iteration = p.iteration /\ c.reviews = p.reviews /\ c.specialistReviews = p.specialistReviews
      /\ c.accepted = p.accepted /\ c.rejected = p.rejected /\ c.acceptance = p.acceptance
  BY <1>2 DEF CandidateSafe, CandidateFields
<1> HIDE DEF c
<1>5. /\ CurrentAxes(c) = CurrentAxes(p) /\ Covered(c) /\ Unresolved(c) = Unresolved(p)
  BY <1>2, <1>4 DEF CurrentAxes, CandidateSafe, Covered, Unresolved, Findings
<1>6. CandidateSafe(c) /\ HeldFor(run, c.derivation)
  BY <1>2, <1>3, <1>4, <1>5 DEF CandidateSafe, HeldFor
<1>7. DOMAIN t = RunFields /\ t.pending = run.pending /\ t.ready = run.ready /\ t.failed = run.failed
  BY <1>1, <1>2, <1>6, Replaced DEF RunSafe, HistorySafe
<1>8. t.ready => /\ t.pending = {} /\ ~t.failed /\ c.accepted = {} /\ Unresolved(c) = {}
                 /\ c.specialists = c.exposure \cap Boundaries
  BY <1>2, <1>4, <1>5, <1>7 DEF RunSafe, Ready, Alike
<1>9. RunSafe(t)
  BY <1>1, <1>2, <1>6, <1>7, <1>8, DraftSafe
<1> QED
  BY <1>1, <1>9, Persisted

\* A confirmation only settles what is retained, and only what the parent holds.
LEMMA ConfirmationSafe ==
    ASSUME IInv, NEW accepted \in BOOLEAN, AdmitImpactConfirmation(accepted)
    PROVE  IInv'
<1> DEFINE p == Reobserved
           status == IF accepted THEN "confirmed" ELSE "fallback"
           c == [p EXCEPT !.derivation.status = status]
           t == Replace(run, c)
<1>1. /\ loads /\ run.cands # <<>> /\ Latest(run).derivation.status = "pending"
      /\ accepted => ParentHolds(Latest(run).derivation)
      /\ Persist(t, "other")
  BY DEF AdmitImpactConfirmation, Steady, Free
<1>2. /\ RunSafe(run) /\ Alike(p, Latest(run)) /\ CandidateSafe(p)
      /\ Unresolved(p) = Unresolved(Latest(run)) /\ p.specialists = p.exposure \cap Boundaries
  BY <1>1, Observed
<1>3. Len(run.cands) > 1
  <2>1. Len(run.cands) \in DOMAIN run.cands
    BY <1>1, <1>2, SequenceFacts DEF RunSafe
  <2>2. DerivationCurrent(run, Len(run.cands))
    BY <1>1, <2>1 DEF IInv, Decodable
  <2> QED
    BY <1>1, <2>2 DEF DerivationCurrent, Latest
<1> HIDE DEF p, status
<1>4. /\ DOMAIN c = CandidateFields /\ c.derivation = [p.derivation EXCEPT !.status = status]
      /\ c.effects = p.effects
      /\ c.exposure = p.exposure /\ c.specialists = p.specialists /\ c.decision = p.decision
      /\ c.iteration = p.iteration /\ c.reviews = p.reviews /\ c.specialistReviews = p.specialistReviews
      /\ c.accepted = p.accepted /\ c.rejected = p.rejected /\ c.acceptance = p.acceptance
  BY <1>2 DEF CandidateSafe, CandidateFields
<1> HIDE DEF c
<1>5. /\ CurrentAxes(c) = CurrentAxes(p) /\ Covered(c) /\ Unresolved(c) = Unresolved(p)
  BY <1>2, <1>4 DEF CurrentAxes, CandidateSafe, Covered, Unresolved, Findings
<1>6. /\ DOMAIN c.derivation = {"status", "fresh", "specialists", "of"}
      /\ c.derivation.status = status /\ c.derivation.fresh = p.derivation.fresh
      /\ c.derivation.specialists = p.derivation.specialists
  BY <1>2, <1>4 DEF CandidateSafe
<1>7. CandidateSafe(c)
  BY <1>2, <1>4, <1>5, <1>6 DEF CandidateSafe
<1>8. HeldFor(run, c.derivation)
  <2>1. p.derivation = Latest(run).derivation
    BY <1>2 DEF Alike
  <2>2. ASSUME accepted
        PROVE  p.derivation.specialists \subseteq
                  {v.boundary : v \in run.cands[Len(run.cands) - 1].specialistReviews}
    BY <1>1, <2>1, <2>2 DEF ParentHolds, Parent
  <2>3. status = "confirmed" => accepted
    BY DEF status
  <2> QED
    BY <1>3, <1>6, <2>2, <2>3 DEF HeldFor
<1>9. DOMAIN t = RunFields /\ t.pending = run.pending /\ t.ready = run.ready /\ t.failed = run.failed
  BY <1>1, <1>2, <1>7, <1>8, Replaced DEF RunSafe, HistorySafe
<1>10. t.ready => /\ t.pending = {} /\ ~t.failed /\ c.accepted = {} /\ Unresolved(c) = {}
                  /\ c.specialists = c.exposure \cap Boundaries
  BY <1>2, <1>4, <1>5, <1>9 DEF RunSafe, Ready, Alike
<1>11. RunSafe(t)
  BY <1>1, <1>2, <1>7, <1>8, <1>9, <1>10, DraftSafe
<1> QED
  BY <1>1, <1>11, Persisted

\* Boundary proofs and the exhaustive validation are of the candidate as it was observed again.
LEMMA ValidatedSafe ==
    ASSUME NEW p, CandidateSafe(p), NEW c, DOMAIN c = CandidateFields,
           \/ \E proofs : c = [p EXCEPT !.proofs = proofs]
           \/ \E exhaustive : c = [p EXCEPT !.exhaustive = exhaustive]
    PROVE  /\ CandidateSafe(c) /\ c.derivation = p.derivation /\ c.accepted = p.accepted
           /\ c.specialists = p.specialists /\ c.exposure = p.exposure /\ Unresolved(c) = Unresolved(p)
<1>1. DOMAIN p = CandidateFields
  BY DEF CandidateSafe
<1>2. /\ c.effects = p.effects /\ c.exposure = p.exposure /\ c.specialists = p.specialists
      /\ c.decision = p.decision /\ c.iteration = p.iteration /\ c.reviews = p.reviews
      /\ c.specialistReviews = p.specialistReviews /\ c.accepted = p.accepted
      /\ c.rejected = p.rejected /\ c.acceptance = p.acceptance /\ c.derivation = p.derivation
  BY <1>1 DEF CandidateFields
<1>3. Covered(c)
  BY <1>2 DEF CandidateSafe, Covered
<1>4. Alike(c, p)
  BY <1>2, <1>3 DEF Alike
<1> QED
  BY <1>2, <1>4, AlikeSafe

\* Boundary proofs come before readiness.
LEMMA ProofsSafe == ASSUME IInv, NEW valid, ProveBoundaries(valid) PROVE IInv'
<1> DEFINE p == Reobserved
           c == [p EXCEPT !.proofs = p.proofs \cup missingBoundaryProofs(p)]
<1>1. /\ run.cands # <<>> /\ ~run.ready
      /\ Persist(Replace(run, c), "other") \/ Persist(Replace(run, p), "other")
  BY DEF ProveBoundaries, Reviewed, Plain, Settled, Steady
<1>2. RunSafe(run) /\ CandidateSafe(p) /\ HeldFor(run, p.derivation)
  BY <1>1, Observed
<1> HIDE DEF p
<1>3. DOMAIN c = CandidateFields
  BY <1>2 DEF CandidateSafe
<1>4. CandidateSafe(c) /\ c.derivation = p.derivation
  <2>1. \E proofs : c = [p EXCEPT !.proofs = proofs]
    OBVIOUS
  <2> HIDE DEF c
  <2> QED
    BY <1>2, <1>3, <2>1, ValidatedSafe
<1> HIDE DEF c
<1>5. RunSafe(Replace(run, c)) /\ RunSafe(Replace(run, p))
  BY <1>1, <1>2, <1>4, AskingSafe
<1> QED
  BY <1>1, <1>5, Persisted

\* A conclusion may declare readiness, of a candidate that lacks nothing.
LEMMA ConcludeSafe == ASSUME IInv, NEW valid, NEW unchanged, Conclude(valid, unchanged) PROVE IInv'
<1> DEFINE p == Reobserved
           c == [p EXCEPT !.exhaustive = TRUE]
           t == Replace(run, c)
           u == [t EXCEPT !.ready = unchanged /\ clean]
<1>1. /\ run.cands # <<>> /\ ~run.ready /\ run.pending = {} /\ ~run.failed
      /\ Unresolved(p) = {} /\ Latest(run).accepted = {}
      /\ Persist(u, "other") \/ Persist(Replace(run, p), "other")
  BY DEF Conclude, Reviewed, Plain, Settled, Steady, Free
<1>2. /\ RunSafe(run) /\ CandidateSafe(p) /\ HeldFor(run, p.derivation) /\ Alike(p, Latest(run))
      /\ p.specialists = p.exposure \cap Boundaries
  BY <1>1, Observed
<1> HIDE DEF p
<1>3. DOMAIN c = CandidateFields
  BY <1>2 DEF CandidateSafe
<1>4. /\ CandidateSafe(c) /\ c.derivation = p.derivation /\ c.accepted = p.accepted
      /\ c.specialists = p.specialists /\ c.exposure = p.exposure /\ Unresolved(c) = Unresolved(p)
  <2>1. \E exhaustive : c = [p EXCEPT !.exhaustive = exhaustive]
    OBVIOUS
  <2> HIDE DEF c
  <2> QED
    BY <1>2, <1>3, <2>1, ValidatedSafe
<1> HIDE DEF c
<1>5. DOMAIN t = RunFields /\ t.pending = run.pending /\ t.failed = run.failed
  BY <1>1, <1>2, <1>4, Replaced DEF RunSafe, HistorySafe
<1>6. DOMAIN u = RunFields /\ u.cands = t.cands /\ u.pending = {} /\ ~u.failed
  BY <1>1, <1>5 DEF RunFields
<1>7. c.accepted = {} /\ Unresolved(c) = {} /\ c.specialists = c.exposure \cap Boundaries
  BY <1>1, <1>2, <1>4 DEF Alike
<1> HIDE DEF u
<1>8. RunSafe(u)
  BY <1>1, <1>2, <1>4, <1>6, <1>7, DraftSafe
<1>9. RunSafe(Replace(run, p))
  BY <1>1, <1>2, AskingSafe
<1> QED
  BY <1>1, <1>8, <1>9, Persisted

\* A red CI ends readiness.
LEMMA FailureSafe == ASSUME IInv, CandidateFailsCI PROVE IInv'
<1> DEFINE p == Reobserved
           c == [p EXCEPT !.exhaustive = FALSE]
           t == Replace(run, c)
           u == [t EXCEPT !.ready = FALSE, !.failed = TRUE]
<1>1. run.cands # <<>> /\ Persist(u, "other")
  BY DEF CandidateFailsCI, Settled, Steady
<1>2. RunSafe(run) /\ CandidateSafe(p) /\ HeldFor(run, p.derivation)
  BY <1>1, Observed
<1> HIDE DEF p
<1>3. DOMAIN c = CandidateFields
  BY <1>2 DEF CandidateSafe
<1>4. CandidateSafe(c) /\ c.derivation = p.derivation
  <2>1. \E exhaustive : c = [p EXCEPT !.exhaustive = exhaustive]
    OBVIOUS
  <2> HIDE DEF c
  <2> QED
    BY <1>2, <1>3, <2>1, ValidatedSafe
<1> HIDE DEF c
<1>5. DOMAIN t = RunFields
  BY <1>1, <1>2, <1>4, Replaced DEF RunSafe, HistorySafe
<1>6. DOMAIN u = RunFields /\ u.cands = t.cands /\ ~u.ready
  BY <1>5 DEF RunFields
<1> HIDE DEF u
<1>7. RunSafe(u)
  BY <1>1, <1>2, <1>4, <1>6, DraftSafe
<1> QED
  BY <1>1, <1>7, Persisted

\* At the start there is no candidate.
LEMMA InitSafe == Init => IInv
<1> SUFFICES ASSUME Init
             PROVE  IInv
  OBVIOUS
<1>1. /\ DOMAIN run = RunFields /\ run.cands = <<>> /\ run.pending = {} /\ run.ready = FALSE
      /\ loads = TRUE
  BY DEF Init, RunFields
<1>2. run.cands \in Seq({run.cands[i] : i \in DOMAIN run.cands}) /\ DOMAIN run.cands = {}
  BY <1>1
<1>3. RunSafe(run)
  BY <1>1, <1>2 DEF RunSafe, HistorySafe
<1>4. Decodable(run)
  BY <1>1, <1>2 DEF Decodable, CandidatesDistinct
<1> QED
  BY <1>1, <1>3, <1>4 DEF IInv

\* Every action, and a stutter.
LEMMA NextSafe == IInv /\ [Next]_vars => IInv'
<1> SUFFICES ASSUME IInv, [Next]_vars
             PROVE  IInv'
  OBVIOUS
<1>1. RunSafe(run)
  BY DEF IInv
<1>2. CASE RequireBranch \/ ObserveRiskFails
  <2>1. Persist(run, "other")
    BY <1>2 DEF RequireBranch, ObserveRiskFails
  <2> QED
    BY <1>1, <2>1, Persisted
<1>3. CASE RequireCleanWorkspace \/ ReadinessLost \/ RefuseImpactAssessment
  <2>1. run.cands # <<>> /\ Persist(Replace(run, Reobserved), "other")
    BY <1>3 DEF RequireCleanWorkspace, Reviewed, Plain, ReadinessLost, Settled,
                RefuseImpactAssessment, Steady
  <2> QED
    BY <2>1, ReobservedSafe, Persisted
<1>4. CASE RequestRepair
  <2> DEFINE p == Reobserved
  <2>1. run.cands # <<>> /\ ~run.ready
        /\ Persist([Replace(run, p) EXCEPT !.pending = Unresolved(p)], "review")
    BY <1>4 DEF RequestRepair, Asking, Plain, Settled, Steady
  <2>2. CandidateSafe(p) /\ HeldFor(run, p.derivation)
    BY <2>1, Observed
  <2> HIDE DEF p
  <2>3. RunSafe([Replace(run, p) EXCEPT !.pending = Unresolved(p)])
    BY <1>1, <2>1, <2>2, AskingSafe
  <2> QED
    BY <2>1, <2>3, Persisted
<1>5. ASSUME NEW outcome \in {"unobserved", "unsandboxed", "focused"}, NewCandidate(outcome)
      PROVE  IInv'
  BY <1>5, NewCandidateSafe
<1>6. CASE Escalate
  BY <1>6, EscalateSafe
<1>7. ASSUME NEW axes, NEW findings, ExecuteReviews(axes, findings) \/ SupplyReviews(axes, findings)
      PROVE  IInv'
  <2>1. run.cands # <<>> /\ loads /\ (~run.ready \/ ~Latest(run).exhaustive)
    BY <1>7 DEF ExecuteReviews, SupplyReviews, Plain, Settled, Steady, Free
  <2>2. ~run.ready
    BY <2>1, ReadyValidated
  <2> DEFINE c == WithReviews(Reobserved, axes, findings)
  <2>3. Persist(Replace(run, c), "review") \/ Persist(Asking(c), "review")
    BY <1>7 DEF ExecuteReviews, SupplyReviews
  <2> QED
    BY <2>1, <2>2, <2>3, ReviewsSafe
<1>8. ASSUME NEW bs, NEW findings, ExecuteSpecialists(bs, findings) \/ SupplySpecialists(bs, findings)
      PROVE  IInv'
  <2>1. run.cands # <<>> /\ loads /\ (~run.ready \/ ~Latest(run).exhaustive)
    BY <1>8 DEF ExecuteSpecialists, SupplySpecialists, Plain, Settled, Steady, Free
  <2>2. ~run.ready
    BY <2>1, ReadyValidated
  <2> DEFINE c == WithSpecialists(Reobserved, bs, findings)
  <2>3. Persist(Replace(run, c), "other") \/ Persist(Asking(c), "other")
    BY <1>8 DEF ExecuteSpecialists, SupplySpecialists
  <2> QED
    BY <2>1, <2>2, <2>3, SpecialistsSafe
<1>9. ASSUME NEW valid \in BOOLEAN, ProveBoundaries(valid)
      PROVE  IInv'
  BY <1>9, ProofsSafe
<1>10. ASSUME NEW valid \in BOOLEAN, NEW unchanged \in BOOLEAN, Conclude(valid, unchanged)
       PROVE  IInv'
  BY <1>10, ConcludeSafe
<1>11. ASSUME NEW accepted, NEW class \in {"adjudication-only", "bounded", "candidate-changing"},
              ApplyRepair(accepted, class)
       PROVE  IInv'
  BY <1>11, AdjudicationSafe
<1>12. ASSUME NEW fresh \in {{"standards"}, ReviewAxes}, NEW specialists,
              AdmitImpactAssessment(fresh, specialists)
       PROVE  IInv'
  <2>1. "standards" \in fresh
    BY DEF ReviewAxes
  <2> QED
    BY <1>12, <2>1, AssessmentSafe
<1>13. ASSUME NEW accepted \in BOOLEAN, AdmitImpactConfirmation(accepted)
       PROVE  IInv'
  BY <1>13, ConfirmationSafe
<1>14. CASE CandidateFailsCI
  BY <1>14, FailureSafe
<1>15. CASE run' = run /\ loads' = loads
  BY <1>15 DEF IInv
<1>16. CASE PlainAdvance
  BY <1>16, <1>2, <1>3, <1>4, <1>5, <1>6, <1>7, <1>8, <1>9, <1>10 DEF PlainAdvance
<1>17. CASE OtherAdvance
  BY <1>17, <1>2, <1>3, <1>5, <1>7, <1>8, <1>9, <1>10, <1>11, <1>12, <1>13 DEF OtherAdvance
<1>18. CASE Environment
  <2>1. CandidateFailsCI \/ (run' = run /\ loads' = loads)
    BY <1>18 DEF Environment, Develop, SwitchBranch, TouchWorkspace, Reclassify, UNCHANGEDRun
  <2> QED
    BY <2>1, <1>14, <1>15
<1>19. CASE UNCHANGED vars
  BY <1>19, <1>15 DEF vars
<1> QED
  BY <1>16, <1>17, <1>18, <1>19 DEF Next

\* Decisions, retained evidence and readiness agree with the candidates in every reachable state.
THEOREM Invariance == Spec => []IInv
  BY InitSafe, NextSafe, PTL DEF Spec

-------------------------------------------------------------------------------
(* The properties *)

\* However candidates are repaired, revisited, escalated or derived, a finding of one that has
\* a successor was decided, and one way only.
THEOREM FindingsDecided == Spec => []FindingsAnswered
<1>1. ASSUME IInv
      PROVE  FindingsAnswered
  BY <1>1 DEF IInv, RunSafe, HistorySafe, CandidateSafe, FindingsAnswered
<1> QED
  BY <1>1, Invariance, PTL

\* What stands for an axis of a validated candidate: its own review, or the parent's.
LEMMA AxesStand ==
    ASSUME IInv, run.cands # <<>>, ExhaustiveCurrent(run, Len(run.cands)), Latest(run).exhaustive,
           NEW a \in ReviewAxes
    PROVE  \/ Standing(Len(run.cands), a)
           \/ a \in RetainedAxes(Latest(run)) /\ Standing(Len(run.cands) - 1, a)
<1> DEFINE n == Len(run.cands)
           c == Latest(run)
<1>1. /\ HistorySafe(run) /\ n \in Nat /\ n \in DOMAIN run.cands /\ DOMAIN run.cands = 1..n
      /\ CandidateSafe(c) /\ Held(run, n) /\ c = run.cands[n]
  BY SequenceFacts DEF IInv, RunSafe, HistorySafe, Latest
<1>2. missingReviewAxes(c) = {} /\ CurrentAxes(c) \cap RetainedAxes(c) = {} /\ SemanticAcceptance(run, n)
  BY <1>1 DEF ExhaustiveCurrent
<1>3. ASSUME NEW i \in DOMAIN run.cands, a \in CurrentAxes(run.cands[i])
      PROVE  Standing(i, a)
  BY <1>3 DEF CurrentAxes, Standing
<1>4. CASE a \in CurrentAxes(c)
  BY <1>1, <1>3, <1>4
<1>5. CASE a \notin CurrentAxes(c)
  <2>1. a \in RetainedAxes(c)
    BY <1>2, <1>5 DEF missingReviewAxes
  <2>2. c.derivation.status = "confirmed" /\ a = "spec"
    BY <1>1, <2>1 DEF RetainedAxes, ReviewAxes, CandidateSafe
  <2>3. n - 1 \in DOMAIN run.cands
    BY <1>1, <2>2 DEF Held
  <2>4. c.acceptance = 0
    BY <1>1, <1>5, <2>2 DEF CandidateSafe
  <2>5. run.cands[n - 1].acceptance # 0
    BY <1>1, <1>2, <2>4 DEF SemanticAcceptance
  <2>6. a \in CurrentAxes(run.cands[n - 1])
    BY <1>1, <2>2, <2>3, <2>5 DEF HistorySafe, CandidateSafe
  <2> QED
    BY <1>3, <2>1, <2>3, <2>6
<1> QED
  BY <1>4, <1>5

\* Readiness rests on the candidate as it was last observed: its own assurances and those
\* that its parent had.
THEOREM ReadinessHolds == Spec => []ReadinessEarned
<1>1. ASSUME IInv
      PROVE  ReadinessEarned
  <2> SUFFICES ASSUME run.ready, loads
               PROVE  ReadinessEarned
    BY DEF ReadinessEarned
  <2> DEFINE n == Len(run.cands)
             c == Latest(run)
  <2>1. Ready(run) /\ HistorySafe(run) /\ Decodable(run)
    BY <1>1 DEF IInv, RunSafe
  <2>2. run.cands # <<>> /\ n \in DOMAIN run.cands /\ CandidateSafe(c) /\ Held(run, n) /\ c = run.cands[n]
    BY <2>1, SequenceFacts DEF Ready, HistorySafe, Latest
  <2>3. /\ ExhaustiveCurrent(run, n) /\ DecisionsComplete(run, n) /\ run.exposure = c.exposure
        /\ c.exhaustive /\ missingSpecialistBoundaries(c) = {} /\ missingBoundaryProofs(c) = {}
    BY <2>1, <2>2 DEF Decodable, CurrentAgrees, ProfilesAgree
  <2>4. \A a \in ReviewAxes : Standing(n, a) \/ (a \in RetainedAxes(c) /\ Standing(n - 1, a))
    BY <1>1, <2>2, <2>3, AxesStand
  <2>5. ASSUME NEW b \in run.exposure \cap Boundaries
        PROVE  /\ b \in c.proofs
               /\ \/ \E r \in c.specialistReviews : r.boundary = b
                  \/ b \in RetainedSpecialists(c) /\ \E r \in Parent(run).specialistReviews : r.boundary = b
    <3>1. b \in c.proofs
      BY <2>3, <2>5 DEF missingBoundaryProofs
    <3>2. b \in RetainedSpecialists(c) \cup {r.boundary : r \in c.specialistReviews}
      BY <2>1, <2>3, <2>5 DEF Ready, missingSpecialistBoundaries
    <3>3. b \in RetainedSpecialists(c) => \E r \in Parent(run).specialistReviews : r.boundary = b
      BY <2>2 DEF RetainedSpecialists, Held, Parent
    <3> QED
      BY <3>1, <3>2, <3>3
  <2>6. /\ c.effects \cap Boundaries \subseteq run.exposure
        /\ c.effects # {} => run.exposure # {}
        /\ DeclaredHigh => run.exposure \cap Boundaries # {}
    BY <2>2, <2>3 DEF CandidateSafe, Covered
  <2>7. ~run.failed /\ run.pending = {}
    BY <2>1 DEF Ready
  <2>8. Findings(c) = c.rejected
    BY <2>1, <2>2, <2>3 DEF Ready, Unresolved, DecisionsComplete
  <2> QED
    BY <2>3, <2>4, <2>5, <2>6, <2>7, <2>8 DEF ReadinessEarned
<1> QED
  BY <1>1, Invariance, PTL

-------------------------------------------------------------------------------
(* Types *)

Run ==
    [cands: Seq(Candidate), trail: Seq({"start", "review", "other"}), pending: SUBSET FindingIds,
     ready: BOOLEAN, failed: BOOLEAN, exposure: SUBSET Effects, profiled: SUBSET Commits]

\* The reviews of a candidate are counted, and an accepted finding is repaired by a change.
CandidateTyped(c) ==
    /\ c \in Candidate /\ IsFiniteSet(c.reviews)
    /\ c.accepted # {} => c.decision \in {"bounded", "candidate-changing"}

RunTyped(r) == r \in Run /\ \A i \in DOMAIN r.cands : CandidateTyped(r.cands[i])

Derivations ==
    {NoDerivation} \cup
        [status: {"pending", "confirmed", "unconfirmed", "fallback"}, fresh: SUBSET ReviewAxes,
         specialists: SUBSET Boundaries, of: Nat \X SUBSET Effects]

Batches == SUBSET [iteration: Nat, axes: SUBSET ReviewAxes, closing: Nat]

TInv == IInv /\ TypeOK /\ RunTyped(run)

\* The fields of a candidate.
LEMMA CandidateType ==
    ASSUME NEW c
    PROVE  c \in Candidate <=>
             /\ c = [f \in CandidateFields |-> c[f]]
             /\ c.commit \in Commits /\ c.class \in {"none", "bounded", "candidate-changing"}
             /\ c.decision \in {"none", "adjudication-only", "bounded", "candidate-changing"}
             /\ c.effects \in SUBSET Effects /\ c.exposure \in SUBSET Effects
             /\ c.specialists \in SUBSET Boundaries /\ c.iteration \in Nat
             /\ c.reviews \in SUBSET Review /\ c.specialistReviews \in SUBSET SpecialistReview
             /\ c.accepted \in SUBSET FindingIds /\ c.rejected \in SUBSET FindingIds
             /\ c.batches \in Batches /\ c.acceptance \in Nat /\ c.derivation \in Derivations
             /\ c.proofs \in SUBSET Boundaries /\ c.exhaustive \in BOOLEAN
  BY DEF Candidate, CandidateFields, Batches, Derivations

\* The fields of a record.
LEMMA RunType ==
    ASSUME NEW r
    PROVE  r \in Run <=>
             /\ r = [f \in RunFields |-> r[f]]
             /\ r.cands \in Seq(Candidate) /\ r.trail \in Seq({"start", "review", "other"})
             /\ r.pending \in SUBSET FindingIds /\ r.ready \in BOOLEAN /\ r.failed \in BOOLEAN
             /\ r.exposure \in SUBSET Effects /\ r.profiled \in SUBSET Commits
  BY DEF Run, RunFields

\* An observation is of effects, and what it exposes is exposed.
LEMMA ExposedType ==
    ASSUME NEW X \in SUBSET Effects, NEW e \in SUBSET Effects
    PROVE  Exposed(X \cup e) \in SUBSET Effects
  BY AssuranceAssumption DEF Exposed, Effects

\* Another observation of a candidate keeps the types.
LEMMA ProfiledType ==
    ASSUME TypeOK, NEW r, r.exposure \in SUBSET Effects, NEW c, CandidateTyped(c), NEW previous
    PROVE  CandidateTyped(Profiled(r, c, previous))
<1> DEFINE e == effects[c.commit]
           E == Exposed(r.exposure \cup e)
           p == Profiled(r, c, previous)
<1>1. /\ c = [f \in CandidateFields |-> c[f]] /\ c.commit \in Commits
      /\ c.class \in {"none", "bounded", "candidate-changing"}
  BY CandidateType DEF CandidateTyped
<1>2. e \in SUBSET Effects
  BY <1>1 DEF TypeOK
<1>3. E \in SUBSET Effects
  BY <1>2, ExposedType
<1>4. PICK class \in {"none", "bounded", "candidate-changing"}, specialists \in SUBSET Boundaries :
        p = [c EXCEPT !.class = class, !.effects = e, !.exposure = E, !.specialists = specialists]
  BY <1>1 DEF Profiled, acceptedSpecialistBoundaries
<1> HIDE DEF e, E, p
<1>5. /\ p = [f \in CandidateFields |-> p[f]]
      /\ p.class = class /\ p.effects = e /\ p.exposure = E /\ p.specialists = specialists
      /\ \A f \in CandidateFields \ {"class", "effects", "exposure", "specialists"} : p[f] = c[f]
  BY <1>1, <1>4 DEF CandidateFields
<1>6. p \in Candidate
  BY <1>2, <1>3, <1>5, CandidateType DEF CandidateTyped, CandidateFields
<1> QED
  BY <1>5, <1>6 DEF CandidateTyped, CandidateFields, p

\* The fields of a typed record.
LEMMA RunTypedFacts ==
    ASSUME NEW r, RunTyped(r)
    PROVE  /\ Len(r.cands) \in Nat /\ DOMAIN r.cands = 1..Len(r.cands)
           /\ r.exposure \in SUBSET Effects
           /\ r.cands # <<>> => Len(r.cands) \in DOMAIN r.cands /\ CandidateTyped(Latest(r))
<1>1. r.cands \in Seq(Candidate) /\ r.exposure \in SUBSET Effects
  BY RunType DEF RunTyped
<1> QED
  BY <1>1 DEF RunTyped, Latest

\* A stamp is one of the phases.
LEMMA StampTyped ==
    ASSUME NEW r, RunTyped(r), NEW phase \in {"start", "review", "other"}
    PROVE  RunTyped(Stamp(r, phase)) /\ Stamp(r, phase).profiled = r.profiled
<1> DEFINE t == Stamp(r, phase)
<1>1. /\ r = [f \in RunFields |-> r[f]] /\ r.trail \in Seq({"start", "review", "other"})
  BY RunType DEF RunTyped
<1>2. t = r \/ t = [r EXCEPT !.trail = Append(r.trail, phase)]
  BY DEF Stamp
<1> HIDE DEF t
<1>3. /\ t = [f \in RunFields |-> t[f]] /\ t.trail \in {r.trail, Append(r.trail, phase)}
      /\ \A f \in RunFields \ {"trail"} : t[f] = r[f]
  BY <1>1, <1>2 DEF RunFields
<1>4. t.trail \in Seq({"start", "review", "other"})
  BY <1>1, <1>3
<1>5. t \in Run
  BY <1>3, <1>4, RunType DEF RunTyped, RunFields
<1> QED
  BY <1>3, <1>5 DEF RunTyped, RunFields, t

\* A projection closes batches with timings of the trail.
LEMMA ProjectedTyped ==
    ASSUME NEW r, RunTyped(r), Timed(r)
    PROVE  RunTyped(Projected(r)) /\ Projected(r).profiled = r.profiled
<1> DEFINE n == Len(r.cands)
           t == Projected(r)
           cands == [i \in DOMAIN r.cands |-> Batched(r, i)]
<1>1. /\ r = [f \in RunFields |-> r[f]] /\ r.cands \in Seq(Candidate)
      /\ r.trail \in Seq({"start", "review", "other"})
  BY RunType DEF RunTyped
<1>2. n \in Nat /\ DOMAIN r.cands = 1..n
  BY <1>1
<1>3. /\ t = [f \in RunFields |-> t[f]] /\ t.cands = cands
      /\ \A f \in RunFields \ {"cands"} : t[f] = r[f]
  BY <1>1 DEF Projected, RunFields
<1>4. ASSUME NEW i \in 1..n
      PROVE  CandidateTyped(Batched(r, i))
  <2> DEFINE c == r.cands[i]
             full == {m \in Iterations(c) : BatchOf(c, m) = {} /\ FullBatch(c, m)}
             new == {[iteration |-> m, axes |-> FreshAxes(c),
                      closing |-> CHOOSE p \in ClosingOf(r, i, m) : TRUE] : m \in full}
             b == Batched(r, i)
  <2>1. /\ CandidateTyped(c) /\ c = [f \in CandidateFields |-> c[f]]
        /\ c.batches \in Batches /\ c.derivation \in Derivations /\ c.reviews \in SUBSET Review
    BY <1>2, CandidateType DEF RunTyped, CandidateTyped
  <2>2. FreshAxes(c) \in SUBSET ReviewAxes
    BY <2>1 DEF FreshAxes, Derivations, NoDerivation
  <2>3. ASSUME NEW m \in full
        PROVE  m \in Nat /\ (CHOOSE p \in ClosingOf(r, i, m) : TRUE) \in Nat
    <3>1. m \in Nat /\ m \in Iterations(c) /\ FullBatch(c, m)
      BY <2>1 DEF Iterations, Review
    <3>2. ClosingOf(r, i, m) # {}
      BY <1>2, <3>1 DEF Timed, CandidateProjectable
    <3>3. ClosingOf(r, i, m) \subseteq Nat
      BY <1>1 DEF ClosingOf, Closings
    <3> QED
      BY <3>1, <3>2, <3>3
  <2> HIDE DEF full
  <2>4. new \in Batches
    BY <2>2, <2>3 DEF Batches
  <2>5. b = [c EXCEPT !.batches = c.batches \cup new]
    BY <2>1 DEF Batched, CandidateFields, full
  <2> HIDE DEF b, c, new
  <2>6. /\ b = [f \in CandidateFields |-> b[f]] /\ b.batches = c.batches \cup new
        /\ \A f \in CandidateFields \ {"batches"} : b[f] = c[f]
    BY <2>1, <2>5 DEF CandidateFields
  <2>7. b.batches \in Batches
    BY <2>1, <2>4, <2>6 DEF Batches
  <2>8. b \in Candidate
    BY <2>1, <2>6, <2>7, CandidateType DEF CandidateTyped, CandidateFields
  <2> QED
    BY <2>1, <2>6, <2>8 DEF CandidateTyped, CandidateFields, b
<1> HIDE DEF t
<1>5. t.cands \in Seq(Candidate) /\ DOMAIN t.cands = 1..n
  <2>1. t.cands \in [1..n -> Candidate]
    BY <1>2, <1>3, <1>4 DEF CandidateTyped
  <2> QED
    BY <1>2, <2>1, SequenceOf
<1>6. t \in Run
  BY <1>3, <1>5, RunType DEF RunTyped, RunFields
<1>7. \A i \in DOMAIN t.cands : CandidateTyped(t.cands[i])
  BY <1>2, <1>3, <1>4, <1>5
<1> QED
  BY <1>3, <1>6, <1>7 DEF RunTyped, RunFields, t

\* Persisting a typed draft, or refusing to, keeps the types.
LEMMA PersistedTyped ==
    ASSUME TInv, NEW draft, RunTyped(draft), NEW phase \in {"start", "review", "other"},
           Persist(draft, phase), UNCHANGED Surroundings
    PROVE  TypeOK' /\ RunTyped(run')
<1> DEFINE r == Stamp(draft, phase)
<1>1. RunTyped(r)
  BY StampTyped
<1>2. refused' \in {"none", "timing", "reference"}
  BY DEF Persist
<1>3. RunTyped(run')
  <2>1. CASE refused' = "none"
    <3>1. Timed(r) /\ run' = Projected(r)
      BY <2>1 DEF Persist
    <3> HIDE DEF r
    <3> QED
      BY <1>1, <3>1, ProjectedTyped
  <2>2. CASE refused' # "none"
    BY <2>2 DEF Persist, TInv
  <2> QED
    BY <2>1, <2>2
<1>4. loads' \in BOOLEAN
  BY DEF Persist, Decodable
<1> QED
  BY <1>2, <1>3, <1>4 DEF TypeOK, TInv, Surroundings, RunTyped, Run

\* A draft with another typed candidate in the place of the latest.
LEMMA ReplacedTyped ==
    ASSUME NEW r, RunTyped(r), r.cands # <<>>, NEW c, CandidateTyped(c)
    PROVE  /\ RunTyped(Replace(r, c))
           /\ \A f \in RunFields \ {"cands"} : Replace(r, c)[f] = r[f]
<1> DEFINE n == Len(r.cands)
           t == Replace(r, c)
<1>1. r = [f \in RunFields |-> r[f]] /\ r.cands \in Seq(Candidate)
  BY RunType DEF RunTyped
<1>2. n \in Nat /\ n # 0 /\ DOMAIN r.cands = 1..n
  BY <1>1
<1>3. /\ t = [f \in RunFields |-> t[f]] /\ t.cands = [r.cands EXCEPT ![n] = c]
      /\ \A f \in RunFields \ {"cands"} : t[f] = r[f]
  BY <1>1 DEF Replace, RunFields
<1> HIDE DEF t
<1>4. t.cands \in Seq(Candidate) /\ DOMAIN t.cands = 1..n
  <2>1. r.cands \in [1..n -> Candidate] /\ c \in Candidate
    BY <1>1 DEF CandidateTyped
  <2>2. t.cands \in [1..n -> Candidate]
    BY <1>3, <2>1
  <2> QED
    BY <1>2, <2>2, SequenceOf
<1>5. \A i \in 1..n : CandidateTyped(t.cands[i])
  BY <1>2, <1>3 DEF RunTyped
<1>6. t \in Run
  BY <1>3, <1>4, RunType DEF RunTyped, RunFields
<1> QED
  BY <1>3, <1>4, <1>5, <1>6 DEF RunTyped, t

\* A draft with the candidates and the trail of a typed record.
LEMMA DraftTyped ==
    ASSUME NEW r, RunTyped(r), NEW t, t = [f \in RunFields |-> t[f]],
           t.cands = r.cands, t.trail = r.trail, t.pending \in SUBSET FindingIds,
           t.ready \in BOOLEAN, t.failed \in BOOLEAN, t.exposure \in SUBSET Effects,
           t.profiled \in SUBSET Commits
    PROVE  RunTyped(t)
  BY RunType DEF RunTyped

\* The latest candidate as it is observed again.
LEMMA ReobservedTyped ==
    ASSUME TInv, run.cands # <<>>
    PROVE  CandidateTyped(Latest(run)) /\ CandidateTyped(Reobserved)
<1>1. CandidateTyped(Latest(run)) /\ run.exposure \in SUBSET Effects
  BY RunTypedFacts DEF TInv
<1> QED
  BY <1>1, ProfiledType DEF TInv, Reobserved

\* Findings have ids.
LEMMA FindingsType ==
    ASSUME NEW c, CandidateTyped(c)
    PROVE  Unresolved(c) \in SUBSET FindingIds /\ Findings(c) \in SUBSET FindingIds
<1>1. c.reviews \in SUBSET Review /\ c.specialistReviews \in SUBSET SpecialistReview
  BY CandidateType DEF CandidateTyped
<1>2. Findings(c) \in SUBSET FindingIds
  BY <1>1 DEF Findings, FindingIds, Review, SpecialistReview
<1> QED
  BY <1>2 DEF Unresolved

\* Reviews of the current iteration are counted and typed.
LEMMA WithReviewsTyped ==
    ASSUME NEW c, CandidateTyped(c), NEW axes \in SUBSET ReviewAxes, NEW findings
    PROVE  CandidateTyped(WithReviews(c, axes, findings))
<1> DEFINE rev(a) == [axis |-> a, iteration |-> c.iteration, finding |-> a \in findings]
           new == {rev(a) : a \in axes}
           d == WithReviews(c, axes, findings)
<1>1. /\ c = [f \in CandidateFields |-> c[f]] /\ c.iteration \in Nat /\ c.acceptance \in Nat
      /\ c.reviews \in SUBSET Review /\ IsFiniteSet(c.reviews)
  BY CandidateType DEF CandidateTyped
<1>2. new \in SUBSET Review
  <2>1. ASSUME NEW a \in axes, NEW x \in BOOLEAN
        PROVE  [axis |-> a, iteration |-> c.iteration, finding |-> x] \in Review
    BY <1>1 DEF Review
  <2>2. \A a \in axes : (a \in findings) \in BOOLEAN
    OBVIOUS
  <2>3. \A a \in axes : rev(a) \in Review
    BY <2>1, <2>2
  <2> HIDE DEF rev
  <2> QED
    BY <2>3
<1>3. IsFiniteSet(c.reviews \cup new)
  <2>1. new \subseteq {rev("standards")} \cup {rev("spec")}
    BY DEF ReviewAxes
  <2>2. IsFiniteSet({rev("standards")} \cup {rev("spec")})
    <3> HIDE DEF rev
    <3>1. IsFiniteSet({rev("standards")})
      BY FS_Singleton
    <3> QED
      BY <3>1, FS_AddElement
  <2> HIDE DEF rev, new
  <2>3. IsFiniteSet(new)
    BY <2>1, <2>2, FS_Subset
  <2> QED
    BY <1>1, <2>3, FS_Union
<1>4. d = [c EXCEPT !.reviews = c.reviews \cup new,
                    !.acceptance = IF "spec" \in axes THEN c.iteration ELSE c.acceptance]
  BY <1>1 DEF WithReviews, CandidateFields
<1> HIDE DEF d, new
<1>5. /\ d = [f \in CandidateFields |-> d[f]] /\ d.reviews = c.reviews \cup new
      /\ d.acceptance \in {c.iteration, c.acceptance}
      /\ \A f \in CandidateFields \ {"reviews", "acceptance"} : d[f] = c[f]
  BY <1>1, <1>4 DEF CandidateFields
<1>6. d.reviews \in SUBSET Review /\ d.acceptance \in Nat
  BY <1>1, <1>2, <1>5
<1>7. d \in Candidate
  BY <1>5, <1>6, CandidateType DEF CandidateTyped, CandidateFields
<1> QED
  BY <1>3, <1>5, <1>7 DEF CandidateTyped, CandidateFields, d

\* Specialists' reviews are typed.
LEMMA WithSpecialistsTyped ==
    ASSUME NEW c, CandidateTyped(c), NEW bs \in SUBSET Boundaries, NEW findings
    PROVE  CandidateTyped(WithSpecialists(c, bs, findings))
<1> DEFINE new == {[boundary |-> b, finding |-> b \in findings] : b \in bs}
           d == WithSpecialists(c, bs, findings)
<1>1. c = [f \in CandidateFields |-> c[f]] /\ c.specialistReviews \in SUBSET SpecialistReview
  BY CandidateType DEF CandidateTyped
<1>2. new \in SUBSET SpecialistReview
  <2>1. ASSUME NEW b \in bs, NEW x \in BOOLEAN
        PROVE  [boundary |-> b, finding |-> x] \in SpecialistReview
    BY DEF SpecialistReview
  <2>2. \A b \in bs : (b \in findings) \in BOOLEAN
    OBVIOUS
  <2>3. \A b \in bs : [boundary |-> b, finding |-> b \in findings] \in SpecialistReview
    BY <2>1, <2>2
  <2> QED
    BY <2>3
<1>3. d = [c EXCEPT !.specialistReviews = c.specialistReviews \cup new]
  BY <1>1 DEF WithSpecialists, CandidateFields
<1> HIDE DEF d, new
<1>4. /\ d = [f \in CandidateFields |-> d[f]] /\ d.specialistReviews = c.specialistReviews \cup new
      /\ \A f \in CandidateFields \ {"specialistReviews"} : d[f] = c[f]
  BY <1>1, <1>3 DEF CandidateFields
<1>5. d.specialistReviews \in SUBSET SpecialistReview
  BY <1>1, <1>2, <1>4
<1>6. d \in Candidate
  BY <1>4, <1>5, CandidateType DEF CandidateTyped, CandidateFields
<1> QED
  BY <1>4, <1>6 DEF CandidateTyped, CandidateFields, d

\* A draft of typed reviews, with or without a request for decisions.
LEMMA AskingTyped ==
    ASSUME TInv, run.cands # <<>>, NEW c, CandidateTyped(c), NEW phase \in {"start", "review", "other"},
           Persist(Replace(run, c), phase) \/ Persist(Asking(c), phase), UNCHANGED Surroundings
    PROVE  TypeOK' /\ RunTyped(run')
<1> DEFINE t == Replace(run, c)
           u == [t EXCEPT !.pending = Unresolved(c)]
<1>1. RunTyped(t)
  BY ReplacedTyped DEF TInv
<1>2. RunTyped(u)
  <2>1. /\ t = [f \in RunFields |-> t[f]] /\ t.ready \in BOOLEAN /\ t.failed \in BOOLEAN
        /\ t.exposure \in SUBSET Effects /\ t.profiled \in SUBSET Commits
    BY <1>1, RunType DEF RunTyped
  <2> HIDE DEF t
  <2>2. /\ u = [f \in RunFields |-> u[f]] /\ u.cands = t.cands /\ u.trail = t.trail
        /\ u.pending = Unresolved(c) /\ u.ready = t.ready /\ u.failed = t.failed
        /\ u.exposure = t.exposure /\ u.profiled = t.profiled
    BY <2>1 DEF RunFields
  <2>3. Unresolved(c) \in SUBSET FindingIds
    BY FindingsType
  <2> HIDE DEF u
  <2> QED
    BY <1>1, <2>1, <2>2, <2>3, DraftTyped
<1> QED
  BY <1>1, <1>2, PersistedTyped DEF Asking

\* Decisions are of findings, and a repair is bounded or changes the candidate.
LEMMA AdjudicationTyped ==
    ASSUME TInv, NEW accepted, NEW class \in {"adjudication-only", "bounded", "candidate-changing"},
           ApplyRepair(accepted, class)
    PROVE  TypeOK' /\ RunTyped(run')
<1> DEFINE c == Latest(run)
           decision == strongestRepairClass(c.decision, class)
           merged == [c EXCEPT !.accepted = @ \cup accepted,
                               !.rejected = @ \cup (run.pending \ accepted),
                               !.decision = strongestRepairClass(c.decision, class)]
           t == Replace(run, merged)
           u == [t EXCEPT !.pending = {}]
<1>1. /\ loads /\ run.pending # {} /\ accepted \subseteq run.pending
      /\ class = "adjudication-only" <=> accepted = {}
      /\ Persist(u, "other") /\ UNCHANGED Surroundings
  BY DEF ApplyRepair
<1>2. run.cands # <<>>
  BY <1>1, AskedUnresolved DEF TInv
<1>3. CandidateTyped(c) /\ run.pending \in SUBSET FindingIds
  BY <1>2, ReobservedTyped, RunType DEF TInv, RunTyped
<1>4. /\ c = [f \in CandidateFields |-> c[f]] /\ c.accepted \in SUBSET FindingIds
      /\ c.rejected \in SUBSET FindingIds
      /\ c.decision \in {"none", "adjudication-only", "bounded", "candidate-changing"}
      /\ c.accepted # {} => c.decision \in {"bounded", "candidate-changing"}
  BY <1>3, CandidateType DEF CandidateTyped
<1>5. /\ decision \in {"adjudication-only", "bounded", "candidate-changing"}
      /\ c.accepted \cup accepted # {} => decision \in {"bounded", "candidate-changing"}
  BY <1>1, <1>4 DEF strongestRepairClass
<1> HIDE DEF c, decision
<1>6. /\ merged = [f \in CandidateFields |-> merged[f]] /\ merged.accepted = c.accepted \cup accepted
      /\ merged.rejected = c.rejected \cup (run.pending \ accepted) /\ merged.decision = decision
      /\ \A f \in CandidateFields \ {"accepted", "rejected", "decision"} : merged[f] = c[f]
  BY <1>4 DEF CandidateFields, decision
<1> HIDE DEF merged
<1>7. merged.accepted \in SUBSET FindingIds /\ merged.rejected \in SUBSET FindingIds
  BY <1>1, <1>3, <1>4, <1>6
<1>8. CandidateTyped(merged)
  <2>1. merged \in Candidate
    BY <1>3, <1>5, <1>6, <1>7, CandidateType DEF CandidateTyped, CandidateFields
  <2> QED
    BY <1>3, <1>5, <1>6, <2>1 DEF CandidateTyped, CandidateFields
<1>9. RunTyped(t)
  BY <1>2, <1>8, ReplacedTyped DEF TInv
<1>10. RunTyped(u)
  <2>1. /\ t = [f \in RunFields |-> t[f]] /\ t.ready \in BOOLEAN /\ t.failed \in BOOLEAN
        /\ t.exposure \in SUBSET Effects /\ t.profiled \in SUBSET Commits
    BY <1>9, RunType DEF RunTyped
  <2> HIDE DEF t
  <2>2. /\ u = [f \in RunFields |-> u[f]] /\ u.pending = {}
        /\ \A f \in RunFields \ {"pending"} : u[f] = t[f]
    BY <2>1 DEF RunFields
  <2> HIDE DEF u
  <2> QED
    BY <1>9, <2>1, <2>2, DraftTyped DEF RunFields
<1> QED
  BY <1>1, <1>10, PersistedTyped

\* A candidate starts with the types of one.
LEMMA StartedTyped ==
    ASSUME TInv, head \in Commits, NEW previous,
           previous = <<>> \/ (previous = <<Latest(run)>> /\ run.cands # <<>>)
    PROVE  CandidateTyped(Profiled(run, newCandidate(previous), previous))
<1>1. ASSUME previous = <<Latest(run)>>, run.cands # <<>>, previous[1].accepted # {}
      PROVE  previous[1].decision \in {"bounded", "candidate-changing"}
  BY <1>1, ReobservedTyped DEF CandidateTyped
<1>2. PICK class \in {"none", "bounded", "candidate-changing"} : newCandidate(previous) = Blank(class)
  BY <1>1 DEF newCandidate
<1> DEFINE b == Blank(class)
<1>3. b \in Candidate
  <2>1. NoDerivation \in Derivations
    BY DEF Derivations
  <2>2. /\ head \in Commits /\ 1 \in Nat /\ 0 \in Nat /\ FALSE \in BOOLEAN
        /\ \A S : {} \in SUBSET S
    BY Zenon
  <2> QED
    BY <2>1, <2>2 DEF Blank, Candidate, Derivations
<1>4. CandidateTyped(b)
  <2>1. b.reviews = {} /\ b.accepted = {}
    BY DEF Blank
  <2> QED
    BY <1>3, <2>1, FS_EmptySet DEF CandidateTyped
<1>5. run.exposure \in SUBSET Effects
  BY RunTypedFacts DEF TInv
<1> HIDE DEF b
<1>6. CandidateTyped(Profiled(run, b, previous))
  BY <1>4, <1>5, ProfiledType DEF TInv
<1> QED
  BY <1>2, <1>6 DEF b

\* An element more.
LEMMA Appended ==
    ASSUME NEW S, NEW s \in Seq(S), NEW e \in S
    PROVE  /\ Append(s, e) \in Seq(S)
           /\ \A i \in DOMAIN Append(s, e) :
                (i \in DOMAIN s /\ Append(s, e)[i] = s[i]) \/ Append(s, e)[i] = e
  OBVIOUS

\* Whatever comes of a start is typed.
LEMMA NewCandidateTyped ==
    ASSUME TInv, NEW outcome \in {"unobserved", "unsandboxed", "focused"}, NewCandidate(outcome)
    PROVE  TypeOK' /\ RunTyped(run')
<1> DEFINE previous == IF run.cands = <<>> THEN <<>> ELSE <<Latest(run)>>
           c == Profiled(run, newCandidate(previous), previous)
           started == Stamp(run, "start")
           observed == [started EXCEPT !.exposure = c.exposure, !.profiled = started.profiled \cup {head}]
           t == [observed EXCEPT !.cands = Append(observed.cands, c), !.ready = FALSE, !.failed = FALSE]
<1>1. head \in Commits /\ UNCHANGED Surroundings
  BY DEF NewCandidate, TInv, TypeOK
<1>2. CandidateTyped(c)
  BY <1>1, StartedTyped
<1>3. RunTyped(started)
  BY StampTyped DEF TInv
<1> HIDE DEF started, c
<1>4. /\ started = [f \in RunFields |-> started[f]] /\ started.cands \in Seq(Candidate)
      /\ started.pending \in SUBSET FindingIds /\ started.ready \in BOOLEAN
      /\ started.failed \in BOOLEAN /\ started.profiled \in SUBSET Commits
  BY <1>3, RunType DEF RunTyped
<1>5. c.exposure \in SUBSET Effects /\ c \in Candidate
  BY <1>2, CandidateType DEF CandidateTyped
<1>6. /\ observed = [f \in RunFields |-> observed[f]] /\ observed.exposure = c.exposure
      /\ observed.profiled = started.profiled \cup {head}
      /\ \A f \in RunFields \ {"exposure", "profiled"} : observed[f] = started[f]
  BY <1>4 DEF RunFields
<1> HIDE DEF observed
<1>7. RunTyped(observed)
  <2>1. observed.profiled \in SUBSET Commits
    BY <1>1, <1>4, <1>6
  <2> QED
    BY <1>3, <1>4, <1>5, <1>6, <2>1, DraftTyped DEF RunFields
<1>8. /\ t = [f \in RunFields |-> t[f]] /\ t.cands = Append(started.cands, c)
      /\ t.ready = FALSE /\ t.failed = FALSE
      /\ \A f \in RunFields \ {"cands", "ready", "failed"} : t[f] = observed[f]
  BY <1>4, <1>6 DEF RunFields
<1> HIDE DEF t
<1>9. RunTyped(t)
  <2> DEFINE before == started.cands
             after == Append(before, c)
  <2>1. before \in Seq(Candidate) /\ c \in Candidate /\ t.cands = after
    BY <1>4, <1>5, <1>8
  <2> HIDE DEF before
  <2>2. /\ after \in Seq(Candidate)
        /\ \A i \in DOMAIN after : (i \in DOMAIN before /\ after[i] = before[i]) \/ after[i] = c
    BY <2>1, Appended
  <2> HIDE DEF after
  <2>3. t.cands \in Seq(Candidate)
    BY <2>1, <2>2
  <2>4. t \in Run
    BY <1>7, <1>8, <2>3, RunType DEF RunTyped, RunFields
  <2>5. ASSUME NEW i \in DOMAIN t.cands
        PROVE  CandidateTyped(t.cands[i])
    <3>1. \/ i \in DOMAIN started.cands /\ t.cands[i] = started.cands[i]
          \/ t.cands[i] = c
      BY <2>1, <2>2, <2>5 DEF before
    <3> QED
      BY <1>2, <1>3, <3>1 DEF RunTyped
  <2> QED
    BY <2>4, <2>5 DEF RunTyped
<1>10. Persist(started, "other") \/ Persist(observed, "other") \/ Persist(t, "other")
  BY DEF NewCandidate, c, started, observed, t
<1> QED
  BY <1>1, <1>3, <1>7, <1>9, <1>10, PersistedTyped

\* A draft with another candidate, and with other facts of the run.
LEMMA OtherDraftTyped ==
    ASSUME TInv, run.cands # <<>>, NEW c, CandidateTyped(c), NEW ready \in BOOLEAN,
           NEW failed \in BOOLEAN, NEW exposure \in SUBSET Effects, NEW profiled \in SUBSET Commits,
           NEW u, LET t == Replace(run, c) IN
             \/ u = [t EXCEPT !.ready = ready]
             \/ u = [t EXCEPT !.ready = ready, !.failed = failed]
             \/ u = [t EXCEPT !.exposure = exposure, !.ready = ready, !.profiled = profiled],
           Persist(u, "other"), UNCHANGED Surroundings
    PROVE  TypeOK' /\ RunTyped(run')
<1> DEFINE t == Replace(run, c)
<1>1. RunTyped(t)
  BY ReplacedTyped DEF TInv
<1>2. /\ t = [f \in RunFields |-> t[f]] /\ t.ready \in BOOLEAN /\ t.failed \in BOOLEAN
      /\ t.exposure \in SUBSET Effects /\ t.profiled \in SUBSET Commits
      /\ t.pending \in SUBSET FindingIds
  BY <1>1, RunType DEF RunTyped
<1> HIDE DEF t
<1>3. /\ u = [f \in RunFields |-> u[f]] /\ u.cands = t.cands /\ u.trail = t.trail
      /\ u.pending = t.pending /\ u.ready = ready /\ u.failed \in {failed, t.failed}
      /\ u.exposure \in {exposure, t.exposure} /\ u.profiled \in {profiled, t.profiled}
  BY <1>2 DEF RunFields, t
<1>4. RunTyped(u)
  BY <1>1, <1>2, <1>3, DraftTyped
<1> QED
  BY <1>4, PersistedTyped

\* An escalation counts the reviews.
LEMMA EscalateTyped == ASSUME TInv, Escalate PROVE TypeOK' /\ RunTyped(run')
<1> DEFINE p == Reobserved
           c == [p EXCEPT !.iteration = Cardinality(p.reviews) + 1, !.acceptance = 0, !.exhaustive = FALSE]
           t == Replace(run, c)
           profiled == t.profiled \cup {head}
           u == [t EXCEPT !.exposure = c.exposure, !.ready = FALSE, !.profiled = profiled]
<1>1. run.cands # <<>> /\ Latest(run).commit = head /\ Persist(u, "other") /\ UNCHANGED Surroundings
  BY DEF Escalate
<1>2. CandidateTyped(p) /\ head \in Commits
  BY <1>1, ReobservedTyped, CandidateType DEF CandidateTyped
<1>3. p = [f \in CandidateFields |-> p[f]] /\ Cardinality(p.reviews) \in Nat
  BY <1>2, CandidateType, FS_CardinalityType DEF CandidateTyped
<1> HIDE DEF p
<1>4. /\ c = [f \in CandidateFields |-> c[f]] /\ c.iteration = Cardinality(p.reviews) + 1
      /\ c.acceptance = 0 /\ c.exhaustive = FALSE
      /\ \A f \in CandidateFields \ {"iteration", "acceptance", "exhaustive"} : c[f] = p[f]
  BY <1>3 DEF CandidateFields
<1> HIDE DEF c
<1>5. CandidateTyped(c) /\ c.exposure \in SUBSET Effects
  <2>1. c.iteration \in Nat /\ c.acceptance \in Nat
    BY <1>3, <1>4
  <2>2. c.exhaustive \in BOOLEAN
    BY <1>4
  <2>3. c \in Candidate
    BY <1>2, <1>4, <2>1, <2>2, CandidateType DEF CandidateTyped, CandidateFields
  <2> QED
    BY <1>2, <1>4, <2>3, CandidateType DEF CandidateTyped, CandidateFields
<1>6. profiled \in SUBSET Commits
  <2>1. RunTyped(t)
    BY <1>1, <1>5, ReplacedTyped DEF TInv
  <2>2. t.profiled \in SUBSET Commits
    BY <2>1, RunType DEF RunTyped
  <2> QED
    BY <1>2, <2>2
<1> HIDE DEF profiled
<1> QED
  BY <1>1, <1>5, <1>6, OtherDraftTyped

\* An assessment names boundaries of the run, and what it was made of.
LEMMA AssessmentTyped ==
    ASSUME TInv, NEW fresh \in SUBSET ReviewAxes, NEW specialists \in SUBSET Boundaries,
           AdmitImpactAssessment(fresh, specialists)
    PROVE  TypeOK' /\ RunTyped(run')
<1> DEFINE p == Reobserved
           status == IF fresh # ReviewAxes \/ specialists # {} THEN "pending" ELSE "unconfirmed"
           d == [status |-> status, fresh |-> fresh, specialists |-> specialists,
                 of |-> <<p.iteration, p.exposure>>]
           c == [p EXCEPT !.derivation = d]
<1>1. run.cands # <<>> /\ Persist(Replace(run, c), "other") /\ UNCHANGED Surroundings
  BY DEF AdmitImpactAssessment, Steady
<1>2. CandidateTyped(p)
  BY <1>1, ReobservedTyped
<1>3. p = [f \in CandidateFields |-> p[f]] /\ p.iteration \in Nat /\ p.exposure \in SUBSET Effects
  BY <1>2, CandidateType DEF CandidateTyped
<1> HIDE DEF p
<1>4. d \in Derivations
  BY <1>3 DEF Derivations
<1> HIDE DEF d
<1>5. /\ c = [f \in CandidateFields |-> c[f]] /\ c.derivation = d
      /\ \A f \in CandidateFields \ {"derivation"} : c[f] = p[f]
  BY <1>3 DEF CandidateFields
<1> HIDE DEF c
<1>6. c \in Candidate
  BY <1>2, <1>4, <1>5, CandidateType DEF CandidateTyped, CandidateFields
<1>7. CandidateTyped(c)
  BY <1>2, <1>5, <1>6 DEF CandidateTyped, CandidateFields
<1> QED
  BY <1>1, <1>7, AskingTyped

\* A confirmation changes the status.
LEMMA ConfirmationTyped ==
    ASSUME TInv, NEW accepted, AdmitImpactConfirmation(accepted)
    PROVE  TypeOK' /\ RunTyped(run')
<1> DEFINE p == Reobserved
           status == IF accepted THEN "confirmed" ELSE "fallback"
           c == [p EXCEPT !.derivation.status = status]
           d == [p.derivation EXCEPT !.status = status]
<1>1. /\ run.cands # <<>> /\ Latest(run).derivation.status = "pending"
      /\ Persist(Replace(run, c), "other") /\ UNCHANGED Surroundings
  BY DEF AdmitImpactConfirmation, Steady
<1>2. CandidateTyped(p) /\ p.derivation = Latest(run).derivation
  BY <1>1, ReobservedTyped, Observed DEF TInv, Alike
<1>3. p = [f \in CandidateFields |-> p[f]] /\ p.derivation \in Derivations
  BY <1>2, CandidateType DEF CandidateTyped
<1> HIDE DEF p
<1>4. p.derivation.status = "pending" /\ NoDerivation.status = "none"
  BY <1>1, <1>2 DEF NoDerivation
<1>5. d \in Derivations
  BY <1>3, <1>4 DEF Derivations
<1> HIDE DEF status
<1>6. c = [p EXCEPT !.derivation = d]
  BY <1>3 DEF CandidateFields
<1> HIDE DEF c, d
<1>7. /\ c = [f \in CandidateFields |-> c[f]] /\ c.derivation = d
      /\ \A f \in CandidateFields \ {"derivation"} : c[f] = p[f]
  BY <1>3, <1>6 DEF CandidateFields
<1>8. c \in Candidate
  BY <1>2, <1>5, <1>7, CandidateType DEF CandidateTyped, CandidateFields
<1>9. CandidateTyped(c)
  BY <1>2, <1>7, <1>8 DEF CandidateTyped, CandidateFields
<1> QED
  BY <1>1, <1>9, AskingTyped

\* Boundary proofs are of boundaries, and the exhaustive validation is recorded or not.
LEMMA ValidatedTyped ==
    ASSUME NEW p, CandidateTyped(p), NEW c,
           \/ \E proofs \in SUBSET Boundaries : c = [p EXCEPT !.proofs = proofs]
           \/ \E exhaustive \in BOOLEAN : c = [p EXCEPT !.exhaustive = exhaustive]
    PROVE  CandidateTyped(c)
<1>1. p = [f \in CandidateFields |-> p[f]] /\ p.proofs \in SUBSET Boundaries /\ p.exhaustive \in BOOLEAN
  BY CandidateType DEF CandidateTyped
<1>2. /\ c = [f \in CandidateFields |-> c[f]]
      /\ c.proofs \in SUBSET Boundaries /\ c.exhaustive \in BOOLEAN
      /\ \A f \in CandidateFields \ {"proofs", "exhaustive"} : c[f] = p[f]
  BY <1>1 DEF CandidateFields
<1>3. c \in Candidate
  BY <1>2, CandidateType DEF CandidateTyped, CandidateFields
<1> QED
  BY <1>2, <1>3 DEF CandidateTyped, CandidateFields

\* At the start there is nothing.
LEMMA InitTyped == Init => TInv
<1> SUFFICES ASSUME Init
             PROVE  TInv
  OBVIOUS
<1>1. IInv
  BY InitSafe
<1>2. effects \in [Commits -> SUBSET Effects]
  BY AssuranceAssumption DEF Init, Effects
<1>3. run.cands = <<>> /\ run \in Run
  <2>1. /\ run = [f \in RunFields |-> run[f]] /\ run.cands = <<>> /\ run.trail = <<>> /\ run.pending = {}
        /\ run.ready = FALSE /\ run.failed = FALSE /\ run.exposure = {} /\ run.profiled = {}
    BY DEF Init, RunFields
  <2>2. run.ready \in BOOLEAN /\ run.failed \in BOOLEAN
    BY <2>1
  <2>3. run.cands \in Seq(Candidate) /\ run.trail \in Seq({"start", "review", "other"})
    <3>1. \A S : <<>> \in Seq(S)
      OBVIOUS
    <3> QED
      BY <2>1, <3>1
  <2>4. /\ run.pending \in SUBSET FindingIds /\ run.exposure \in SUBSET Effects
        /\ run.profiled \in SUBSET Commits
    BY <2>1
  <2> QED
    BY <2>1, <2>2, <2>3, <2>4, RunType
<1>4. /\ head \in Commits \cup {Base} /\ refused \in {"none", "timing", "reference"}
      /\ moved \in 0..MaxMoves
  BY AssuranceAssumption DEF Init
<1>5. onBranch \in BOOLEAN /\ clean \in BOOLEAN /\ loads \in BOOLEAN
  BY DEF Init
<1> QED
  BY <1>1, <1>2, <1>3, <1>4, <1>5 DEF TInv, TypeOK, RunTyped, Run

\* Every action, and a stutter.
LEMMA NextTyped == TInv /\ [Next]_vars => TInv'
<1> SUFFICES ASSUME TInv, [Next]_vars
             PROVE  TypeOK' /\ RunTyped(run')
  BY NextSafe DEF TInv
<1> DEFINE Typed == TypeOK' /\ RunTyped(run')
<1>1. RunTyped(run) /\ IInv /\ TypeOK
  BY DEF TInv
<1>2. CASE RequireBranch \/ ObserveRiskFails
  <2>1. Persist(run, "other") /\ UNCHANGED Surroundings
    BY <1>2 DEF RequireBranch, ObserveRiskFails
  <2> QED
    BY <1>1, <2>1, PersistedTyped
<1>3. CASE RequireCleanWorkspace \/ ReadinessLost \/ RefuseImpactAssessment
  <2>1. run.cands # <<>> /\ Persist(Replace(run, Reobserved), "other") /\ UNCHANGED Surroundings
    BY <1>3 DEF RequireCleanWorkspace, Reviewed, Plain, ReadinessLost, Settled,
                RefuseImpactAssessment, Steady
  <2> QED
    BY <2>1, ReobservedTyped, AskingTyped
<1>4. CASE RequestRepair
  <2>1. run.cands # <<>> /\ Persist(Asking(Reobserved), "review") /\ UNCHANGED Surroundings
    BY <1>4 DEF RequestRepair, Plain, Settled, Steady
  <2> QED
    BY <2>1, ReobservedTyped, AskingTyped
<1>5. ASSUME NEW outcome \in {"unobserved", "unsandboxed", "focused"}, NewCandidate(outcome)
      PROVE  Typed
  BY <1>5, NewCandidateTyped
<1>6. CASE Escalate
  BY <1>6, EscalateTyped
<1>7. ASSUME NEW axes \in SUBSET ReviewAxes, NEW findings,
             ExecuteReviews(axes, findings) \/ SupplyReviews(axes, findings)
      PROVE  Typed
  <2> DEFINE c == WithReviews(Reobserved, axes, findings)
  <2>1. /\ run.cands # <<>> /\ UNCHANGED Surroundings
        /\ Persist(Replace(run, c), "review") \/ Persist(Asking(c), "review")
    BY <1>7 DEF ExecuteReviews, SupplyReviews, Plain, Settled, Steady
  <2>2. CandidateTyped(c)
    BY <2>1, ReobservedTyped, WithReviewsTyped
  <2> HIDE DEF c
  <2> QED
    BY <2>1, <2>2, AskingTyped
<1>8. ASSUME NEW bs \in SUBSET Boundaries, NEW findings,
             ExecuteSpecialists(bs, findings) \/ SupplySpecialists(bs, findings)
      PROVE  Typed
  <2> DEFINE c == WithSpecialists(Reobserved, bs, findings)
  <2>1. /\ run.cands # <<>> /\ UNCHANGED Surroundings
        /\ Persist(Replace(run, c), "other") \/ Persist(Asking(c), "other")
    BY <1>8 DEF ExecuteSpecialists, SupplySpecialists, Plain, Settled, Steady
  <2>2. CandidateTyped(c)
    BY <2>1, ReobservedTyped, WithSpecialistsTyped
  <2> HIDE DEF c
  <2> QED
    BY <2>1, <2>2, AskingTyped
<1>9. ASSUME NEW valid \in BOOLEAN, ProveBoundaries(valid)
      PROVE  Typed
  <2> DEFINE p == Reobserved
             proofs == p.proofs \cup missingBoundaryProofs(p)
             c == [p EXCEPT !.proofs = proofs]
  <2>1. /\ run.cands # <<>> /\ UNCHANGED Surroundings
        /\ Persist(Replace(run, c), "other") \/ Persist(Replace(run, p), "other")
    BY <1>9 DEF ProveBoundaries, Reviewed, Plain, Settled, Steady
  <2>2. CandidateTyped(p)
    BY <2>1, ReobservedTyped
  <2> HIDE DEF p
  <2>3. proofs \in SUBSET Boundaries
    BY <2>2, CandidateType DEF CandidateTyped, missingBoundaryProofs
  <2> HIDE DEF proofs
  <2>4. CandidateTyped(c)
    BY <2>2, <2>3, ValidatedTyped
  <2> QED
    BY <2>1, <2>2, <2>4, AskingTyped
<1>10. ASSUME NEW valid \in BOOLEAN, NEW unchanged \in BOOLEAN, Conclude(valid, unchanged)
       PROVE  Typed
  <2> DEFINE p == Reobserved
             c == [p EXCEPT !.exhaustive = TRUE]
             ready == unchanged /\ clean
             u == [Replace(run, c) EXCEPT !.ready = ready]
  <2>1. /\ run.cands # <<>> /\ UNCHANGED Surroundings
        /\ Persist(u, "other") \/ Persist(Replace(run, p), "other")
    BY <1>10 DEF Conclude, Reviewed, Plain, Settled, Steady
  <2>2. CandidateTyped(p)
    BY <2>1, ReobservedTyped
  <2> HIDE DEF p
  <2>3. CandidateTyped(c)
    BY <2>2, ValidatedTyped
  <2>4. ready \in BOOLEAN
    OBVIOUS
  <2> HIDE DEF c, ready
  <2>5. CASE Persist(u, "other")
    <3>1. run.failed \in BOOLEAN /\ run.exposure \in SUBSET Effects /\ run.profiled \in SUBSET Commits
      BY <1>1, RunType DEF RunTyped
    <3> QED
      BY <2>1, <2>3, <2>4, <2>5, <3>1, OtherDraftTyped
  <2>6. CASE Persist(Replace(run, p), "other")
    BY <2>1, <2>2, <2>6, AskingTyped
  <2> QED
    BY <2>1, <2>5, <2>6
<1>11. ASSUME NEW accepted, NEW class \in {"adjudication-only", "bounded", "candidate-changing"},
              ApplyRepair(accepted, class)
       PROVE  Typed
  BY <1>11, AdjudicationTyped
<1>12. ASSUME NEW fresh \in {{"standards"}, ReviewAxes},
              NEW specialists \in SUBSET (run.exposure \cap Boundaries),
              AdmitImpactAssessment(fresh, specialists)
       PROVE  Typed
  <2>1. fresh \in SUBSET ReviewAxes /\ specialists \in SUBSET Boundaries
    BY DEF ReviewAxes
  <2> QED
    BY <1>12, <2>1, AssessmentTyped
<1>13. ASSUME NEW accepted \in BOOLEAN, AdmitImpactConfirmation(accepted)
       PROVE  Typed
  BY <1>13, ConfirmationTyped
<1>14. CASE CandidateFailsCI
  <2> DEFINE p == Reobserved
             c == [p EXCEPT !.exhaustive = FALSE]
             u == [Replace(run, c) EXCEPT !.ready = FALSE, !.failed = TRUE]
  <2>1. run.cands # <<>> /\ Persist(u, "other") /\ UNCHANGED Surroundings
    BY <1>14 DEF CandidateFailsCI, Settled, Steady
  <2>2. CandidateTyped(p)
    BY <2>1, ReobservedTyped
  <2> HIDE DEF p
  <2>3. CandidateTyped(c)
    BY <2>2, ValidatedTyped
  <2> HIDE DEF c
  <2>4. run.exposure \in SUBSET Effects /\ run.profiled \in SUBSET Commits
    BY <1>1, RunType DEF RunTyped
  <2> QED
    BY <2>1, <2>3, <2>4, OtherDraftTyped
<1>15. CASE (\E c \in Commits : Develop(c)) \/ SwitchBranch \/ TouchWorkspace
  <2>1. /\ UNCHANGEDRun /\ UNCHANGED effects
        /\ head' \in Commits \cup {Base} /\ onBranch' \in BOOLEAN /\ clean' \in BOOLEAN
    BY <1>1, <1>15 DEF Develop, SwitchBranch, TouchWorkspace, TypeOK
  <2>2. moved' \in 0..MaxMoves
    BY <1>1, <1>15, AssuranceAssumption DEF Develop, SwitchBranch, TouchWorkspace, Moved, TypeOK
  <2> QED
    BY <1>1, <2>1, <2>2 DEF TypeOK, UNCHANGEDRun
<1>16. ASSUME NEW set \in Observable, Reclassify(set)
       PROVE  Typed
  <2>1. UNCHANGEDRun /\ UNCHANGED <<head, onBranch, clean>> /\ effects' = [effects EXCEPT ![head] = set]
    BY <1>16 DEF Reclassify
  <2>2. effects' \in [Commits -> SUBSET Effects]
    BY <1>1, <2>1, AssuranceAssumption DEF TypeOK, Effects
  <2>3. moved' \in 0..MaxMoves
    BY <1>1, <1>16, AssuranceAssumption DEF Reclassify, Moved, TypeOK
  <2> QED
    BY <1>1, <2>1, <2>2, <2>3 DEF TypeOK, UNCHANGEDRun
<1>17. CASE PlainAdvance
  BY <1>17, <1>2, <1>3, <1>4, <1>5, <1>6, <1>7, <1>8, <1>9, <1>10 DEF PlainAdvance
<1>18. CASE OtherAdvance
  BY <1>18, <1>2, <1>3, <1>5, <1>7, <1>8, <1>9, <1>10, <1>11, <1>12, <1>13 DEF OtherAdvance
<1>19. CASE Environment
  BY <1>19, <1>14, <1>15, <1>16 DEF Environment
<1>20. CASE UNCHANGED vars
  BY <1>1, <1>20 DEF vars, TypeOK
<1> QED
  BY <1>17, <1>18, <1>19, <1>20 DEF Next

\* The types hold, and the reviews of a candidate are finitely many.
LEMMA TypeInvariance == Spec => []TInv
  BY InitTyped, NextTyped, PTL DEF Spec

\* Whatever is observed, reviewed, decided and derived, the record and its surroundings keep
\* their types: what an escalation counts, what a repair is derived from and what a batch closes.
THEOREM TypeCorrect == Spec => []TypeOK
  BY TypeInvariance, PTL DEF TInv

-------------------------------------------------------------------------------
(* What loads again *)

\* Reviews are counted by the iteration they belong to.
Numbered(c) ==
    /\ IsFiniteSet(c.reviews) /\ c.iteration \in Nat
    /\ \A v \in c.reviews : v.iteration \in Nat /\ v.iteration <= c.iteration
    /\ c.iteration = 1 + Cardinality({w \in c.reviews : w.iteration < c.iteration})
    /\ IterationsNumbered(c)

\* A candidate that loads, and goes on to load.
Lasting(c) ==
    /\ DOMAIN c = CandidateFields /\ "standards" \in c.derivation.fresh
    /\ Numbered(c) /\ BatchesCurrent(c)
    /\ \A b \in c.batches : "standards" \in b.axes
    /\ c.accepted \cup c.rejected \subseteq Findings(c)
    /\ c.derivation.status = "pending" => CurrentAxes(c) = {}
    /\ CurrentAxes(c) \cap RetainedAxes(c) = {}
    /\ c.exhaustive => missingReviewAxes(c) = {}

\* It has a parent to derive from.
Placed(r, i, c) ==
    /\ c.derivation.status # "none" => i > 1 /\ c.derivation.of = <<c.iteration, c.exposure>>
    /\ c.exhaustive =>
         \/ c.acceptance # 0
         \/ "spec" \in RetainedAxes(c) /\ r.cands[i - 1].acceptance # 0

\* What the record says of the run is what its latest candidate c says.
Agreed(r, c) ==
    /\ r.pending # {} => r.pending = Unresolved(c)
    /\ c.decision # "none" /\ r.pending = {} => Unresolved(c) = {}
    /\ r.ready => /\ c.exhaustive
                  /\ missingSpecialistBoundaries(c) = {} /\ missingBoundaryProofs(c) = {}
    /\ r.exposure = c.exposure

Lasts(r) ==
    /\ DOMAIN r = RunFields /\ Len(r.cands) \in Nat /\ DOMAIN r.cands = 1..Len(r.cands)
    /\ CandidatesDistinct(r)
    /\ \A i \in 1..Len(r.cands) : Lasting(r.cands[i]) /\ Placed(r, i, r.cands[i])
    /\ r.profiled \subseteq {r.cands[i].commit : i \in 1..Len(r.cands)}
    /\ Len(r.cands) # 0 => Agreed(r, Latest(r))

\* Such a record loads.
LEMMA Loading ==
    ASSUME NEW r, RunSafe(r), Lasts(r)
    PROVE  Decodable(r)
<1> DEFINE n == Len(r.cands)
<1>1. n \in Nat /\ DOMAIN r.cands = 1..n /\ (r.cands = <<>> <=> n = 0) /\ HistorySafe(r)
  BY SequenceFacts DEF RunSafe
<1>2. ASSUME NEW i \in 1..n
      PROVE  /\ DerivationCurrent(r, i) /\ BatchesCurrent(r.cands[i]) /\ DecisionsComplete(r, i)
             /\ ExhaustiveCurrent(r, i) /\ IterationsNumbered(r.cands[i])
  <2>1. Lasting(r.cands[i]) /\ Placed(r, i, r.cands[i])
    BY DEF Lasts
  <2>2. DerivationCurrent(r, i)
    BY <2>1 DEF Placed, DerivationCurrent
  <2>3. BatchesCurrent(r.cands[i]) /\ IterationsNumbered(r.cands[i])
    BY <2>1 DEF Lasting, Numbered
  <2>4. ExhaustiveCurrent(r, i)
    BY <2>1 DEF Lasting, Placed, ExhaustiveCurrent, SemanticAcceptance
  <2>5. DecisionsComplete(r, i)
    <3>1. i < n => Unresolved(r.cands[i]) = {}
      BY <1>1 DEF HistorySafe
    <3>2. i = n /\ r.pending = {} /\ r.cands[i].decision # "none" => Unresolved(r.cands[i]) = {}
      BY <1>1 DEF Lasts, Agreed, Latest
    <3> QED
      BY <1>1, <2>1, <3>1, <3>2 DEF DecisionsComplete, Lasting
  <2> QED
    BY <2>2, <2>3, <2>4, <2>5
<1>3. ASSUME r.cands # <<>>
      PROVE  CurrentAgrees(r) /\ ProfilesAgree(r)
  <2>1. Agreed(r, Latest(r)) /\ r.profiled \subseteq {r.cands[i].commit : i \in DOMAIN r.cands}
    BY <1>1, <1>3 DEF Lasts
  <2>2. n \in 1..n /\ ExhaustiveCurrent(r, n)
    BY <1>1, <1>2, <1>3
  <2>3. Latest(r).exhaustive => SemanticAcceptance(r, n)
    BY <2>2 DEF ExhaustiveCurrent, Latest
  <2> QED
    BY <2>1, <2>3 DEF Agreed, CurrentAgrees, ProfilesAgree
<1> QED
  BY <1>1, <1>2, <1>3 DEF Decodable, Lasts

\* What lasts of a candidate depends on these fields alone.
LEMMA LastingAlike ==
    ASSUME NEW c, NEW d, Lasting(d), DOMAIN c = CandidateFields,
           c.iteration = d.iteration, c.reviews = d.reviews, c.batches = d.batches,
           c.specialistReviews = d.specialistReviews, c.accepted = d.accepted,
           c.rejected = d.rejected, c.derivation = d.derivation, c.exhaustive = d.exhaustive
    PROVE  /\ Lasting(c) /\ Findings(c) = Findings(d) /\ CurrentAxes(c) = CurrentAxes(d)
           /\ RetainedAxes(c) = RetainedAxes(d) /\ missingReviewAxes(c) = missingReviewAxes(d)
<1>1. /\ Findings(c) = Findings(d) /\ CurrentAxes(c) = CurrentAxes(d)
      /\ RetainedAxes(c) = RetainedAxes(d)
  BY DEF Findings, CurrentAxes, RetainedAxes
<1>2. missingReviewAxes(c) = missingReviewAxes(d)
  BY <1>1 DEF missingReviewAxes
<1>3. Numbered(c)
  BY DEF Lasting, Numbered, IterationsNumbered
<1>4. BatchesCurrent(c)
  BY DEF Lasting, BatchesCurrent, FreshAxes
<1> QED
  BY <1>1, <1>2, <1>3, <1>4 DEF Lasting

\* A batch is closed with the reviews it names.
LEMMA BatchedLasts ==
    ASSUME NEW r, NEW i, Lasting(r.cands[i])
    PROVE  /\ Lasting(Batched(r, i))
           /\ \A f \in CandidateFields \ {"batches"} : Batched(r, i)[f] = r.cands[i][f]
<1> DEFINE c == r.cands[i]
           full == {m \in Iterations(c) : BatchOf(c, m) = {} /\ FullBatch(c, m)}
           new == {[iteration |-> m, axes |-> FreshAxes(c),
                    closing |-> CHOOSE p \in ClosingOf(r, i, m) : TRUE] : m \in full}
           b == Batched(r, i)
<1>1. ASSUME NEW x \in new
      PROVE  /\ x.axes = FreshAxes(c)
             /\ x.axes \subseteq {v.axis : v \in {w \in c.reviews : w.iteration = x.iteration}}
  BY <1>1 DEF FullBatch
<1>2. b = [c EXCEPT !.batches = c.batches \cup new] /\ DOMAIN c = CandidateFields
  BY DEF Batched, Lasting, CandidateFields
<1> HIDE DEF b, c, new
<1>3. /\ DOMAIN b = CandidateFields /\ b.batches = c.batches \cup new
      /\ \A f \in CandidateFields \ {"batches"} : b[f] = c[f]
  BY <1>2 DEF CandidateFields
<1>4. /\ b.iteration = c.iteration /\ b.reviews = c.reviews /\ b.specialistReviews = c.specialistReviews
      /\ b.accepted = c.accepted /\ b.rejected = c.rejected /\ b.derivation = c.derivation
      /\ b.exhaustive = c.exhaustive
  BY <1>3 DEF CandidateFields
<1>5. Lasting(c)
  BY DEF c
<1>6. "standards" \in FreshAxes(c) /\ FreshAxes(b) = FreshAxes(c)
  BY <1>4, <1>5 DEF Lasting, FreshAxes, ReviewAxes
<1>7. BatchesCurrent(b)
  BY <1>1, <1>3, <1>4, <1>5, <1>6 DEF Lasting, BatchesCurrent
<1>8. /\ Findings(b) = Findings(c) /\ CurrentAxes(b) = CurrentAxes(c)
      /\ RetainedAxes(b) = RetainedAxes(c)
  BY <1>4 DEF Findings, CurrentAxes, RetainedAxes
<1>9. missingReviewAxes(b) = missingReviewAxes(c)
  BY <1>8 DEF missingReviewAxes
<1>10. Numbered(b)
  BY <1>4, <1>5 DEF Lasting, Numbered, IterationsNumbered
<1> QED
  BY <1>1, <1>3, <1>4, <1>5, <1>6, <1>7, <1>8, <1>9, <1>10 DEF Lasting, b, c

\* What lasts of a record depends on these fields.
LEMMA SameLasts ==
    ASSUME NEW r, Lasts(r), NEW t, DOMAIN t = RunFields, t.cands = r.cands, t.pending = r.pending,
           t.ready = r.ready, t.exposure = r.exposure, t.profiled = r.profiled
    PROVE  Lasts(t)
<1>1. Latest(t) = Latest(r)
  BY DEF Latest
<1>2. Agreed(r, Latest(r)) => Agreed(t, Latest(t))
  BY <1>1 DEF Agreed
<1>3. CandidatesDistinct(t)
  BY DEF Lasts, CandidatesDistinct
<1>4. \A i \in 1..Len(t.cands) : Placed(r, i, t.cands[i]) => Placed(t, i, t.cands[i])
  BY DEF Placed
<1> QED
  BY <1>2, <1>3, <1>4 DEF Lasts

\* Two records whose candidates differ in their batches.
LEMMA ProjectedLasts ==
    ASSUME NEW r, Lasts(r)
    PROVE  LET t == Projected(r) IN
           /\ Lasts(t) /\ t.pending = r.pending /\ Len(t.cands) = Len(r.cands)
           /\ \A i \in 1..Len(r.cands), f \in CandidateFields \ {"batches"} :
                t.cands[i][f] = r.cands[i][f]
<1> DEFINE n == Len(r.cands)
           t == Projected(r)
           cands == [i \in DOMAIN r.cands |-> Batched(r, i)]
<1>1. n \in Nat /\ DOMAIN r.cands = 1..n /\ DOMAIN r = RunFields
  BY DEF Lasts
<1>2. /\ DOMAIN t = RunFields /\ t.cands = cands /\ t.pending = r.pending /\ t.ready = r.ready
      /\ t.exposure = r.exposure /\ t.profiled = r.profiled
  BY <1>1 DEF Projected, RunFields
<1>3. DOMAIN t.cands = 1..n /\ Len(t.cands) = n /\ \A i \in 1..n : t.cands[i] = Batched(r, i)
  <2> DEFINE S == {Batched(r, i) : i \in 1..n}
  <2>1. cands \in [1..n -> S]
    BY <1>1
  <2>2. Len(cands) = n
    BY <1>1, <2>1, SequenceOf
  <2> QED
    BY <1>1, <1>2, <2>2
<1> HIDE DEF t
<1>4. ASSUME NEW i \in 1..n
      PROVE  /\ Lasting(t.cands[i])
             /\ \A f \in CandidateFields \ {"batches"} : t.cands[i][f] = r.cands[i][f]
  <2>1. Lasting(r.cands[i])
    BY DEF Lasts
  <2> QED
    BY <1>3, <2>1, BatchedLasts
<1>5. ASSUME NEW i \in 1..n
      PROVE  /\ t.cands[i].commit = r.cands[i].commit /\ t.cands[i].acceptance = r.cands[i].acceptance
             /\ t.cands[i].derivation = r.cands[i].derivation
             /\ t.cands[i].iteration = r.cands[i].iteration
             /\ t.cands[i].exposure = r.cands[i].exposure
             /\ t.cands[i].exhaustive = r.cands[i].exhaustive
  BY <1>4 DEF CandidateFields
<1>6. CandidatesDistinct(t)
  BY <1>1, <1>3, <1>5 DEF Lasts, CandidatesDistinct
<1>7. ASSUME NEW i \in 1..n
      PROVE  Placed(t, i, t.cands[i])
  <2>1. Placed(r, i, r.cands[i])
    BY DEF Lasts
  <2>2. RetainedAxes(t.cands[i]) = RetainedAxes(r.cands[i])
    BY <1>5 DEF RetainedAxes
  <2>3. "spec" \in RetainedAxes(r.cands[i]) => i > 1
    BY <2>1 DEF RetainedAxes, Placed
  <2>4. i > 1 => i - 1 \in 1..n
    BY <1>1
  <2>5. "spec" \in RetainedAxes(r.cands[i]) => t.cands[i - 1].acceptance = r.cands[i - 1].acceptance
    BY <1>5, <2>3, <2>4
  <2> QED
    BY <1>5, <2>1, <2>2, <2>5 DEF Placed
<1>8. ASSUME n # 0
      PROVE  Agreed(t, Latest(t))
  <2> DEFINE c == r.cands[n]
             d == t.cands[n]
  <2>1. n \in 1..n /\ Agreed(r, c) /\ Latest(t) = d
    BY <1>1, <1>3, <1>8 DEF Lasts, Latest
  <2>2. /\ d.decision = c.decision /\ d.exhaustive = c.exhaustive /\ d.exposure = c.exposure
        /\ d.reviews = c.reviews /\ d.specialistReviews = c.specialistReviews
        /\ d.accepted = c.accepted /\ d.rejected = c.rejected /\ d.derivation = c.derivation
        /\ d.specialists = c.specialists /\ d.proofs = c.proofs
    BY <1>4, <2>1 DEF CandidateFields
  <2> HIDE DEF c, d
  <2>3. /\ Unresolved(d) = Unresolved(c)
        /\ missingSpecialistBoundaries(d) = missingSpecialistBoundaries(c)
        /\ missingBoundaryProofs(d) = missingBoundaryProofs(c)
    BY <2>2 DEF Unresolved, Findings, missingSpecialistBoundaries, RetainedSpecialists,
                missingBoundaryProofs
  <2>4. Agreed(t, d)
    BY <1>2, <2>1, <2>2, <2>3 DEF Agreed
  <2> QED
    BY <2>1, <2>4
<1>9. t.profiled \subseteq {t.cands[i].commit : i \in 1..n}
  <2>1. r.profiled \subseteq {r.cands[i].commit : i \in 1..n}
    BY DEF Lasts
  <2>2. {t.cands[i].commit : i \in 1..n} = {r.cands[i].commit : i \in 1..n}
    BY <1>5
  <2>3. t.profiled = r.profiled
    BY <1>2
  <2> QED
    BY <2>1, <2>2, <2>3
<1> QED
  BY <1>1, <1>2, <1>3, <1>4, <1>6, <1>7, <1>8, <1>9 DEF Lasts, t

\* A stamp is on the trail.
LEMMA StampLasts ==
    ASSUME NEW r, Lasts(r), NEW phase
    PROVE  LET t == Stamp(r, phase) IN Lasts(t) /\ t.cands = r.cands /\ t.pending = r.pending
<1> DEFINE t == Stamp(r, phase)
<1>1. DOMAIN r = RunFields
  BY DEF Lasts
<1>2. t = r \/ \E trail : t = [r EXCEPT !.trail = trail]
  BY DEF Stamp
<1> HIDE DEF t
<1>3. /\ DOMAIN t = RunFields /\ t.cands = r.cands /\ t.pending = r.pending /\ t.ready = r.ready
      /\ t.exposure = r.exposure /\ t.profiled = r.profiled
  BY <1>1, <1>2 DEF RunFields
<1>4. Lasts(t)
  BY <1>3, SameLasts
<1> QED
  BY <1>3, <1>4 DEF t

\* Persisting such a draft, or refusing to.
LEMMA PersistedLasts ==
    ASSUME Lasts(run), NEW draft, NEW phase, Persist(draft, phase), Lasts(draft)
    PROVE  Lasts(run')
<1> DEFINE r == Stamp(draft, phase)
<1>1. Lasts(r)
  BY StampLasts
<1>2. run' = Projected(r) \/ run' = run
  BY DEF Persist
<1> HIDE DEF r
<1> QED
  BY <1>1, <1>2, ProjectedLasts

\* Another candidate in the place of the latest.
LEMMA ReplacedLasts ==
    ASSUME NEW r, Lasts(r), r.cands # <<>>, Len(r.cands) # 0, NEW c, Lasting(c),
           Placed(r, Len(r.cands), c), c.commit = Latest(r).commit,
           NEW t, DOMAIN t = RunFields, t.cands = Replace(r, c).cands, Agreed(t, c),
           t.profiled \subseteq r.profiled \cup {c.commit}
    PROVE  Lasts(t)
<1> DEFINE n == Len(r.cands)
<1>1. n \in Nat /\ n # 0 /\ DOMAIN r.cands = 1..n /\ DOMAIN r = RunFields /\ n \in 1..n
  BY DEF Lasts
<1>2. t.cands = [r.cands EXCEPT ![n] = c]
  BY <1>1 DEF Replace, RunFields
<1>3. DOMAIN t.cands = 1..n /\ Len(t.cands) = n /\ t.cands[n] = c
      /\ \A i \in 1..n : i # n => t.cands[i] = r.cands[i]
  <2>1. /\ DOMAIN t.cands = 1..n /\ t.cands[n] = c
        /\ \A i \in 1..n : i # n => t.cands[i] = r.cands[i]
    BY <1>1, <1>2
  <2> DEFINE S == {t.cands[i] : i \in 1..n}
  <2>2. t.cands = [i \in 1..n |-> t.cands[i]]
    BY <1>2, <2>1
  <2>3. \A i \in 1..n : t.cands[i] \in S
    OBVIOUS
  <2> HIDE DEF S
  <2>4. t.cands \in [1..n -> S]
    BY <2>2, <2>3
  <2>5. Len(t.cands) = n
    BY <1>1, <2>4, SequenceOf
  <2> QED
    BY <2>1, <2>5
<1>4. \A i \in 1..n : t.cands[i].commit = r.cands[i].commit
  BY <1>3 DEF Latest
<1>5. CandidatesDistinct(t)
  BY <1>1, <1>3, <1>4 DEF Lasts, CandidatesDistinct
<1>6. ASSUME NEW i \in 1..n
      PROVE  Lasting(t.cands[i]) /\ Placed(t, i, t.cands[i])
  <2>1. Lasting(r.cands[i]) /\ Placed(r, i, r.cands[i])
    BY DEF Lasts
  <2>2. Lasting(t.cands[i]) /\ Placed(r, i, t.cands[i])
    BY <1>3, <2>1
  <2>3. "spec" \in RetainedAxes(t.cands[i]) => i > 1
    BY <2>2 DEF RetainedAxes, Placed
  <2>4. i > 1 => i - 1 \in 1..n /\ i - 1 # n
    BY <1>1
  <2>5. "spec" \in RetainedAxes(t.cands[i]) => t.cands[i - 1] = r.cands[i - 1]
    BY <1>3, <2>3, <2>4
  <2> QED
    BY <2>2, <2>5 DEF Placed
<1>7. t.profiled \subseteq {t.cands[i].commit : i \in 1..n}
  <2>1. r.profiled \subseteq {r.cands[i].commit : i \in 1..n}
    BY <1>1 DEF Lasts
  <2>2. c.commit = t.cands[n].commit
    BY <1>3
  <2> QED
    BY <1>1, <1>4, <2>1, <2>2
<1>8. Latest(t) = c
  BY <1>3 DEF Latest
<1> QED
  BY <1>1, <1>3, <1>5, <1>6, <1>7, <1>8 DEF Lasts

\* Reviews are added at the current iteration alone.
LEMMA ReviewsNumbered ==
    ASSUME NEW c, Numbered(c), NEW d, d.iteration = c.iteration, NEW new, IsFiniteSet(new),
           d.reviews = c.reviews \cup new, \A v \in new : v.iteration = c.iteration
    PROVE  Numbered(d)
<1> DEFINE below(e, n) == {w \in e.reviews : w.iteration < n}
<1>1. /\ IsFiniteSet(c.reviews) /\ c.iteration \in Nat
      /\ \A v \in c.reviews : v.iteration \in Nat /\ v.iteration <= c.iteration
      /\ c.iteration = 1 + Cardinality(below(c, c.iteration))
      /\ \A v \in c.reviews : v.iteration = 1 + Cardinality(below(c, v.iteration))
  BY DEF Numbered, IterationsNumbered
<1>2. IsFiniteSet(d.reviews)
  <2> HIDE DEF below
  <2>1. IsFiniteSet(c.reviews) /\ IsFiniteSet(new)
    BY <1>1
  <2>2. IsFiniteSet(c.reviews \cup new)
    BY <2>1, FS_Union
  <2> QED
    BY <2>2
<1>3. \A v \in d.reviews : v.iteration \in Nat /\ v.iteration <= d.iteration
  BY <1>1
<1>4. ASSUME NEW n \in Nat, n <= c.iteration
      PROVE  below(d, n) = below(c, n)
  BY <1>1, <1>4
<1> HIDE DEF below
<1>5. d.iteration = 1 + Cardinality(below(d, d.iteration))
  BY <1>1, <1>4
<1>6. \A v \in d.reviews : v.iteration = 1 + Cardinality(below(d, v.iteration))
  BY <1>1, <1>4, <1>5
<1> QED
  BY <1>1, <1>2, <1>3, <1>5, <1>6 DEF Numbered, IterationsNumbered, below

\* An iteration that counts all reviews comes after them.
LEMMA NextNumbered ==
    ASSUME NEW c, Numbered(c), NEW d, d.reviews = c.reviews,
           d.iteration = Cardinality(c.reviews) + 1
    PROVE  Numbered(d) /\ CurrentAxes(d) = {} /\ \A v \in d.reviews : v.iteration # d.iteration
<1>1. /\ IsFiniteSet(c.reviews) /\ Cardinality(c.reviews) \in Nat
      /\ \A v \in c.reviews : v.iteration \in Nat
  BY FS_CardinalityType DEF Numbered
<1>2. ASSUME NEW v \in c.reviews
      PROVE  v.iteration < d.iteration
  <2> DEFINE below == {w \in c.reviews : w.iteration < v.iteration}
  <2>1. v.iteration = 1 + Cardinality(below)
    BY DEF Numbered, IterationsNumbered
  <2>2. below \in SUBSET (c.reviews \ {v})
    BY <1>1
  <2> HIDE DEF below
  <2>3. /\ IsFiniteSet(c.reviews \ {v})
        /\ Cardinality(c.reviews \ {v}) = Cardinality(c.reviews) - 1
    BY <1>1, FS_RemoveElement
  <2>4. Cardinality(below) <= Cardinality(c.reviews) - 1 /\ Cardinality(below) \in Nat
    BY <2>2, <2>3, FS_Subset, FS_CardinalityType
  <2> QED
    BY <1>1, <2>1, <2>4
<1>3. {w \in d.reviews : w.iteration < d.iteration} = d.reviews
  BY <1>2
<1>4. Numbered(d)
  <2>1. d.iteration \in Nat /\ \A v \in d.reviews : v.iteration \in Nat /\ v.iteration <= d.iteration
    BY <1>1, <1>2
  <2>2. d.iteration = 1 + Cardinality(d.reviews)
    BY <1>1
  <2>3. d.iteration = 1 + Cardinality({w \in d.reviews : w.iteration < d.iteration})
    BY <1>3, <2>2
  <2>4. IterationsNumbered(d)
    BY DEF Numbered, IterationsNumbered
  <2> QED
    BY <1>1, <2>1, <2>3, <2>4 DEF Numbered
<1>5. \A v \in d.reviews : v.iteration # d.iteration
  BY <1>1, <1>2
<1> QED
  BY <1>4, <1>5 DEF CurrentAxes

\* Fresh reviews of what is not retained.
LEMMA WithReviewsLasts ==
    ASSUME NEW c, Lasting(c), NEW axes \in SUBSET ReviewAxes, NEW findings,
           c.derivation.status # "pending",
           CurrentAxes(WithReviews(c, axes, findings)) \cap RetainedAxes(c) = {}
    PROVE  LET d == WithReviews(c, axes, findings) IN
           /\ Lasting(d) /\ (d.acceptance # 0 \/ d.acceptance = c.acceptance)
           /\ \A f \in CandidateFields \ {"reviews", "acceptance"} : d[f] = c[f]
<1> DEFINE rev(a) == [axis |-> a, iteration |-> c.iteration, finding |-> a \in findings]
           new == {rev(a) : a \in axes}
           d == WithReviews(c, axes, findings)
<1>1. /\ DOMAIN c = CandidateFields /\ Numbered(c) /\ BatchesCurrent(c)
      /\ c.accepted \cup c.rejected \subseteq Findings(c)
  BY DEF Lasting
<1>2. \A v \in new : v.iteration = c.iteration
  OBVIOUS
<1>3. IsFiniteSet(new)
  <2>1. new \subseteq {rev("standards")} \cup {rev("spec")}
    BY DEF ReviewAxes
  <2>2. IsFiniteSet({rev("standards")} \cup {rev("spec")})
    <3> HIDE DEF rev
    <3>1. IsFiniteSet({rev("standards")})
      BY FS_Singleton
    <3> QED
      BY <3>1, FS_AddElement
  <2> HIDE DEF rev, new
  <2> QED
    BY <2>1, <2>2, FS_Subset
<1>4. d = [c EXCEPT !.reviews = c.reviews \cup new,
                    !.acceptance = IF "spec" \in axes THEN c.iteration ELSE c.acceptance]
  BY <1>1 DEF WithReviews, CandidateFields
<1> HIDE DEF d, new
<1>5. /\ DOMAIN d = CandidateFields /\ d.reviews = c.reviews \cup new
      /\ d.acceptance \in {c.iteration, c.acceptance}
      /\ \A f \in CandidateFields \ {"reviews", "acceptance"} : d[f] = c[f]
  BY <1>1, <1>4 DEF CandidateFields
<1>6. /\ d.iteration = c.iteration /\ d.batches = c.batches /\ d.accepted = c.accepted
      /\ d.rejected = c.rejected /\ d.derivation = c.derivation /\ d.exhaustive = c.exhaustive
      /\ d.specialistReviews = c.specialistReviews
  BY <1>5 DEF CandidateFields
<1>7. Numbered(d)
  BY <1>1, <1>2, <1>3, <1>5, <1>6, ReviewsNumbered
<1>8. BatchesCurrent(d)
  BY <1>1, <1>5, <1>6 DEF BatchesCurrent, FreshAxes
<1>9. Findings(c) \subseteq Findings(d) /\ CurrentAxes(c) \subseteq CurrentAxes(d)
  BY <1>5, <1>6 DEF Findings, CurrentAxes
<1>10. RetainedAxes(d) = RetainedAxes(c)
  BY <1>6 DEF RetainedAxes
<1>11. d.exhaustive => missingReviewAxes(d) = {}
  BY <1>6, <1>9, <1>10 DEF Lasting, missingReviewAxes
<1>12. CurrentAxes(d) \cap RetainedAxes(d) = {}
  BY <1>10 DEF d
<1>13. Lasting(d)
  BY <1>1, <1>5, <1>6, <1>7, <1>8, <1>9, <1>11, <1>12 DEF Lasting
<1>14. c.iteration # 0
  BY <1>1, FS_Subset, FS_CardinalityType DEF Numbered
<1> QED
  BY <1>5, <1>13, <1>14 DEF d

\* Specialists' reviews.
LEMMA WithSpecialistsLasts ==
    ASSUME NEW c, Lasting(c), NEW bs, NEW findings
    PROVE  LET d == WithSpecialists(c, bs, findings) IN
           Lasting(d) /\ \A f \in CandidateFields \ {"specialistReviews"} : d[f] = c[f]
<1> DEFINE new == {[boundary |-> b, finding |-> b \in findings] : b \in bs}
           d == WithSpecialists(c, bs, findings)
<1>1. DOMAIN c = CandidateFields /\ c.accepted \cup c.rejected \subseteq Findings(c)
  BY DEF Lasting
<1>2. d = [c EXCEPT !.specialistReviews = c.specialistReviews \cup new]
  BY <1>1 DEF WithSpecialists, CandidateFields
<1> HIDE DEF d, new
<1>3. /\ DOMAIN d = CandidateFields /\ d.specialistReviews = c.specialistReviews \cup new
      /\ \A f \in CandidateFields \ {"specialistReviews"} : d[f] = c[f]
  BY <1>1, <1>2 DEF CandidateFields
<1>4. /\ d.iteration = c.iteration /\ d.batches = c.batches /\ d.accepted = c.accepted
      /\ d.rejected = c.rejected /\ d.derivation = c.derivation /\ d.exhaustive = c.exhaustive
      /\ d.reviews = c.reviews
  BY <1>3 DEF CandidateFields
<1>5. Numbered(d) /\ BatchesCurrent(d)
  <2>1. Numbered(c) /\ BatchesCurrent(c)
    BY DEF Lasting
  <2>2. Numbered(d)
    BY <1>4, <2>1 DEF Numbered, IterationsNumbered
  <2>3. BatchesCurrent(d)
    BY <1>4, <2>1 DEF BatchesCurrent, FreshAxes
  <2> QED
    BY <2>2, <2>3
<1>6. Findings(c) \subseteq Findings(d)
  BY <1>3, <1>4 DEF Findings
<1>7. CurrentAxes(d) = CurrentAxes(c) /\ RetainedAxes(d) = RetainedAxes(c)
  BY <1>4 DEF CurrentAxes, RetainedAxes
<1>8. missingReviewAxes(d) = missingReviewAxes(c)
  BY <1>7 DEF missingReviewAxes
<1>9. Lasting(d)
  BY <1>3, <1>4, <1>5, <1>6, <1>7, <1>8 DEF Lasting
<1> QED
  BY <1>3, <1>9 DEF d

\* An assessment, or its confirmation, before any fresh review.
LEMMA RederivedLasts ==
    ASSUME NEW c, Lasting(c), CurrentAxes(c) = {}, NEW d, DOMAIN d = CandidateFields,
           d.iteration = c.iteration, d.reviews = c.reviews, d.batches = c.batches,
           d.specialistReviews = c.specialistReviews, d.accepted = c.accepted,
           d.rejected = c.rejected, ~d.exhaustive, "standards" \in d.derivation.fresh
    PROVE  Lasting(d)
<1>1. CurrentAxes(d) = {} /\ Findings(d) = Findings(c)
  BY DEF CurrentAxes, Findings
<1>2. Numbered(d)
  BY DEF Lasting, Numbered, IterationsNumbered
<1>3. BatchesCurrent(d)
  <2> SUFFICES ASSUME NEW b \in c.batches
               PROVE  /\ b.iteration # c.iteration
                      /\ \A a \in b.axes : \E r \in c.reviews : r.iteration = b.iteration /\ r.axis = a
    BY DEF BatchesCurrent
  <2>1. /\ "standards" \in b.axes
        /\ \A a \in b.axes : \E r \in c.reviews : r.iteration = b.iteration /\ r.axis = a
    BY DEF Lasting, BatchesCurrent
  <2> QED
    BY <2>1 DEF CurrentAxes
<1> QED
  BY <1>1, <1>2, <1>3 DEF Lasting

\* What a step that keeps the candidate may make of the latest one, o.
Careful(o, c, pending) ==
    /\ o.derivation.status = "none" /\ c.derivation.status # "none" => CurrentAxes(o) = {}
    /\ CurrentAxes(c) \cap RetainedAxes(o) = {}
    /\ o.derivation.status # "none" => c.exposure = o.exposure
    /\ c.decision # "none" /\ pending = {} => Findings(c) = Findings(o)

\* The latest candidate of a projection differs in its batches alone.
LEMMA ProjectedLatest ==
    ASSUME NEW r, DOMAIN r = RunFields, NEW n \in Nat, n # 0, Len(r.cands) = n, DOMAIN r.cands = 1..n,
           DOMAIN Latest(r) = CandidateFields
    PROVE  LET t == Projected(r) IN
           /\ Len(t.cands) = n /\ t.pending = r.pending
           /\ \A f \in CandidateFields \ {"batches"} : Latest(t)[f] = Latest(r)[f]
<1> DEFINE t == Projected(r)
           cands == [i \in DOMAIN r.cands |-> Batched(r, i)]
           c == r.cands[n]
<1>1. t.cands = cands /\ t.pending = r.pending
  BY DEF Projected, RunFields
<1>2. Len(t.cands) = n /\ Latest(t) = Batched(r, n)
  <2> DEFINE S == {Batched(r, i) : i \in 1..n}
  <2>1. cands \in [1..n -> S]
    OBVIOUS
  <2>2. Len(cands) = n
    BY <2>1, SequenceOf
  <2> QED
    BY <1>1, <2>2 DEF Latest
<1>3. PICK batches : Batched(r, n) = [c EXCEPT !.batches = batches]
  BY DEF Batched
<1>4. Latest(r) = c /\ DOMAIN c = CandidateFields
  BY DEF Latest
<1> HIDE DEF c
<1>5. \A f \in CandidateFields \ {"batches"} : Batched(r, n)[f] = c[f]
  BY <1>3, <1>4 DEF CandidateFields
<1> QED
  BY <1>1, <1>2, <1>4, <1>5

\* A draft has to last if what becomes of its candidate is careful.
LEMMA CarefulPersisted ==
    ASSUME Lasts(run), run.cands # <<>>, Len(run.cands) # 0, ~Losing,
           NEW c, DOMAIN c = CandidateFields,
           NEW draft, DOMAIN draft = RunFields, draft.cands = Replace(run, c).cands,
           NEW phase, Persist(draft, phase),
           Careful(Latest(run), c, draft.pending) => Lasts(draft)
    PROVE  Lasts(run')
<1> DEFINE n == Len(run.cands)
           r == Stamp(draft, phase)
<1>1. n \in Nat /\ n # 0 /\ DOMAIN run.cands = 1..n /\ DOMAIN run = RunFields /\ n \in 1..n
  BY DEF Lasts
<1>2. run' = Projected(r) \/ run' = run
  BY DEF Persist
<1>3. CASE run' = run
  BY <1>3
<1>4. CASE run' = Projected(r)
  <2>1. draft.cands = [run.cands EXCEPT ![n] = c]
    BY <1>1 DEF Replace, RunFields
  <2>2. DOMAIN draft.cands = 1..n /\ Len(draft.cands) = n /\ draft.cands[n] = c
    <3>1. DOMAIN draft.cands = 1..n /\ draft.cands[n] = c
      BY <1>1, <2>1
    <3> DEFINE S == {draft.cands[i] : i \in 1..n}
    <3>2. draft.cands = [i \in 1..n |-> draft.cands[i]]
      BY <2>1, <3>1
    <3>3. \A i \in 1..n : draft.cands[i] \in S
      OBVIOUS
    <3> HIDE DEF S
    <3>4. draft.cands \in [1..n -> S]
      BY <3>2, <3>3
    <3>5. Len(draft.cands) = n
      BY <1>1, <3>4, SequenceOf
    <3> QED
      BY <3>1, <3>5
  <2>3. DOMAIN r = RunFields /\ r.cands = draft.cands /\ r.pending = draft.pending
    <3>1. r = draft \/ \E trail : r = [draft EXCEPT !.trail = trail]
      BY DEF Stamp
    <3> HIDE DEF r
    <3> QED
      BY <3>1 DEF RunFields
  <2> HIDE DEF r, n
  <2>4. Latest(r) = c
    BY <2>2, <2>3 DEF Latest
  <2>5. /\ Len(run'.cands) = n /\ run'.pending = draft.pending
        /\ \A f \in CandidateFields \ {"batches"} : Latest(run')[f] = c[f]
    BY <1>1, <1>4, <2>2, <2>3, <2>4, ProjectedLatest
  <2> DEFINE d == Latest(run')
             o == Latest(run)
  <2>6. /\ d.derivation = c.derivation /\ d.exposure = c.exposure /\ d.decision = c.decision
        /\ d.reviews = c.reviews /\ d.specialistReviews = c.specialistReviews
        /\ d.iteration = c.iteration
    BY <2>5 DEF CandidateFields
  <2>7. /\ ~(o.derivation.status = "none" /\ d.derivation.status # "none" /\ CurrentAxes(o) # {})
        /\ ~(CurrentAxes(d) \cap RetainedAxes(o) # {})
        /\ ~(o.derivation.status # "none" /\ d.exposure # o.exposure)
        /\ ~(d.decision # "none" /\ Findings(d) # Findings(o) /\ run'.pending = {})
    BY <2>5 DEF Losing, n
  <2> HIDE DEF d, o
  <2>8. CurrentAxes(d) = CurrentAxes(c) /\ Findings(d) = Findings(c)
    BY <2>6 DEF CurrentAxes, Findings
  <2>9. Careful(o, c, draft.pending)
    BY <2>5, <2>6, <2>7, <2>8 DEF Careful
  <2> QED
    BY <2>9, PersistedLasts DEF o
<1> QED
  BY <1>2, <1>3, <1>4

\* Another observation changes these fields alone.
LEMMA ProfiledKeeps ==
    ASSUME NEW r, NEW c, DOMAIN c = CandidateFields, NEW previous
    PROVE  LET p == Profiled(r, c, previous) IN
           /\ DOMAIN p = CandidateFields
           /\ \A f \in CandidateFields \ {"class", "effects", "exposure", "specialists"} : p[f] = c[f]
<1> DEFINE p == Profiled(r, c, previous)
<1>1. PICK class, e, E, specialists :
        p = [c EXCEPT !.class = class, !.effects = e, !.exposure = E, !.specialists = specialists]
  BY DEF Profiled
<1> HIDE DEF p
<1>2. /\ DOMAIN p = CandidateFields
      /\ \A f \in CandidateFields \ {"class", "effects", "exposure", "specialists"} : p[f] = c[f]
  BY <1>1 DEF CandidateFields
<1> QED
  BY <1>2 DEF p

\* The candidate as it is observed again.
LEMMA ReobservedLasts ==
    ASSUME TInv, Lasts(run), run.cands # <<>>
    PROVE  LET p == Reobserved  o == Latest(run)  n == Len(run.cands) IN
           /\ n \in Nat /\ n # 0 /\ n \in 1..n /\ DOMAIN run = RunFields /\ o = run.cands[n]
           /\ Lasting(o) /\ Placed(run, n, o) /\ Agreed(run, o) /\ Lasting(p)
           /\ \A f \in CandidateFields \ {"class", "effects", "exposure", "specialists"} : p[f] = o[f]
           /\ Findings(p) = Findings(o) /\ Unresolved(p) = Unresolved(o)
           /\ CurrentAxes(p) = CurrentAxes(o)
           /\ RetainedAxes(p) = RetainedAxes(o) /\ missingReviewAxes(p) = missingReviewAxes(o)
           /\ p.specialists = p.exposure \cap Boundaries
<1> DEFINE p == Reobserved
           o == Latest(run)
           n == Len(run.cands)
<1>1. n \in Nat /\ n # 0 /\ n \in 1..n /\ DOMAIN run = RunFields
  BY SequenceFacts DEF TInv, IInv, RunSafe, HistorySafe
<1>2. Lasting(o) /\ Placed(run, n, o) /\ Agreed(run, o) /\ o = run.cands[n]
  BY <1>1 DEF Lasts, Latest
<1>3. /\ DOMAIN p = CandidateFields
      /\ \A f \in CandidateFields \ {"class", "effects", "exposure", "specialists"} : p[f] = o[f]
  <2>1. DOMAIN o = CandidateFields
    BY <1>2 DEF Lasting
  <2> QED
    BY <2>1, ProfiledKeeps DEF Reobserved
<1>4. Unresolved(p) = Unresolved(o) /\ p.specialists = p.exposure \cap Boundaries
  BY Observed DEF TInv
<1> HIDE DEF p, o
<1>5. /\ p.iteration = o.iteration /\ p.reviews = o.reviews /\ p.batches = o.batches
      /\ p.specialistReviews = o.specialistReviews /\ p.accepted = o.accepted
      /\ p.rejected = o.rejected /\ p.derivation = o.derivation /\ p.exhaustive = o.exhaustive
  BY <1>3 DEF CandidateFields
<1>6. /\ Lasting(p) /\ Findings(p) = Findings(o) /\ CurrentAxes(p) = CurrentAxes(o)
      /\ RetainedAxes(p) = RetainedAxes(o) /\ missingReviewAxes(p) = missingReviewAxes(o)
  BY <1>2, <1>3, <1>5, LastingAlike
<1> QED
  BY <1>1, <1>2, <1>3, <1>4, <1>6 DEF p, o

\* The observation confirms what is recorded: the candidate may be replaced by p.
LEMMA SteadyLasts ==
    ASSUME TInv, Lasts(run), Steady
    PROVE  LET p == Reobserved  n == Len(run.cands) IN
           /\ run.cands # <<>> /\ n # 0 /\ DOMAIN run = RunFields /\ run.pending = {} /\ loads
           /\ Lasting(p) /\ Placed(run, n, p) /\ Agreed(run, p) /\ p.exposure = Latest(run).exposure
<1> DEFINE p == Reobserved
           o == Latest(run)
           n == Len(run.cands)
<1>1. run.cands # <<>> /\ run.pending = {} /\ loads /\ p.exposure = run.exposure
  BY DEF Steady, Free
<1>2. /\ n # 0 /\ DOMAIN run = RunFields /\ Lasting(p) /\ Placed(run, n, o) /\ Agreed(run, o)
      /\ \A f \in CandidateFields \ {"class", "effects", "exposure", "specialists"} : p[f] = o[f]
      /\ Unresolved(p) = Unresolved(o) /\ RetainedAxes(p) = RetainedAxes(o)
      /\ p.specialists = p.exposure \cap Boundaries
  BY <1>1, ReobservedLasts
<1>3. run.ready => o.specialists = o.exposure \cap Boundaries
  BY DEF TInv, IInv, RunSafe, Ready
<1> HIDE DEF p, o, n
<1>4. /\ p.derivation = o.derivation /\ p.iteration = o.iteration /\ p.exhaustive = o.exhaustive
      /\ p.acceptance = o.acceptance /\ p.decision = o.decision /\ p.proofs = o.proofs
      /\ p.specialistReviews = o.specialistReviews
  BY <1>2 DEF CandidateFields
<1>5. p.exposure = o.exposure
  BY <1>1, <1>2 DEF Agreed
<1>6. Placed(run, n, p)
  BY <1>2, <1>4, <1>5 DEF Placed
<1>7. missingBoundaryProofs(p) = missingBoundaryProofs(o)
  BY <1>4, <1>5 DEF missingBoundaryProofs
<1>8. run.ready => missingSpecialistBoundaries(p) = missingSpecialistBoundaries(o)
  BY <1>2, <1>3, <1>4, <1>5 DEF missingSpecialistBoundaries, RetainedSpecialists
<1>9. Agreed(run, p)
  BY <1>2, <1>4, <1>5, <1>7, <1>8 DEF Agreed
<1> QED
  BY <1>1, <1>2, <1>5, <1>6, <1>9 DEF p, o, n

\* Such a step persists a draft with a candidate that lasts, and agrees with it.
LEMMA SteadyPersisted ==
    ASSUME TInv, Lasts(run), Steady, ~Losing,
           NEW c, DOMAIN c = CandidateFields, c.commit = Reobserved.commit,
           NEW draft, DOMAIN draft = RunFields, draft.cands = Replace(run, c).cands,
           draft.profiled = run.profiled, NEW phase, Persist(draft, phase),
           Careful(Latest(run), c, draft.pending) =>
             Lasting(c) /\ Placed(run, Len(run.cands), c) /\ Agreed(draft, c)
    PROVE  Lasts(run')
<1> DEFINE n == Len(run.cands)
<1>1. run.cands # <<>> /\ n # 0
  BY SteadyLasts
<1>2. c.commit = Latest(run).commit
  BY <1>1, ReobservedLasts DEF CandidateFields
<1>3. ASSUME Careful(Latest(run), c, draft.pending)
      PROVE  Lasts(draft)
  BY <1>1, <1>2, <1>3, ReplacedLasts
<1> QED
  BY <1>1, <1>3, CarefulPersisted

\* The draft with a candidate replaced, before anything else is changed.
LEMMA ReplaceFields ==
    ASSUME NEW r, DOMAIN r = RunFields, NEW c
    PROVE  LET t == Replace(r, c) IN
           /\ DOMAIN t = RunFields
           /\ \A f \in RunFields \ {"cands"} : t[f] = r[f]
  BY DEF Replace, RunFields

\* The candidate as observed again, and nothing else.
LEMMA ReobservedStep ==
    ASSUME TInv, Lasts(run), Steady, ~Losing, NEW phase, Persist(Replace(run, Reobserved), phase)
    PROVE  Lasts(run')
<1> DEFINE p == Reobserved
           t == Replace(run, p)
<1>1. DOMAIN run = RunFields /\ Lasting(p) /\ Placed(run, Len(run.cands), p) /\ Agreed(run, p)
  BY SteadyLasts
<1>2. DOMAIN p = CandidateFields
  BY <1>1 DEF Lasting
<1> HIDE DEF p
<1>3. /\ DOMAIN t = RunFields /\ t.pending = run.pending /\ t.ready = run.ready
      /\ t.exposure = run.exposure /\ t.profiled = run.profiled
  BY <1>1, ReplaceFields DEF RunFields
<1> HIDE DEF t
<1>4. Agreed(t, p)
  BY <1>1, <1>3 DEF Agreed
<1>5. t.cands = Replace(run, p).cands /\ Persist(t, phase)
  BY DEF t, p
<1> QED
  BY <1>1, <1>2, <1>3, <1>4, <1>5, SteadyPersisted DEF p

\* A candidate that gained reviews, with or without a request for decisions.
LEMMA ReviewedStep ==
    ASSUME TInv, Lasts(run), Steady, ~Losing, NEW phase,
           NEW c, Persist(Replace(run, c), phase) \/ Persist(Asking(c), phase),
           DOMAIN c = CandidateFields,
           \A f \in CandidateFields \ {"reviews", "specialistReviews", "acceptance"} : c[f] = Reobserved[f],
           Reobserved.specialistReviews \subseteq c.specialistReviews,
           c.acceptance # 0 \/ c.acceptance = Reobserved.acceptance,
           CurrentAxes(c) \cap RetainedAxes(Reobserved) = {} => Lasting(c)
    PROVE  Lasts(run')
<1> DEFINE p == Reobserved
           o == Latest(run)
           n == Len(run.cands)
           t == Replace(run, c)
           u == [t EXCEPT !.pending = Unresolved(c)]
<1>1. /\ DOMAIN run = RunFields /\ run.cands # <<>> /\ Placed(run, n, p) /\ Agreed(run, p)
      /\ run.pending = {}
  BY SteadyLasts
<1>2. Findings(p) = Findings(o) /\ RetainedAxes(p) = RetainedAxes(o)
  BY <1>1, ReobservedLasts
<1> HIDE DEF p, o, n
<1>3. /\ DOMAIN t = RunFields /\ t.pending = run.pending /\ t.ready = run.ready
      /\ t.exposure = run.exposure /\ t.profiled = run.profiled
  BY <1>1, ReplaceFields DEF RunFields
<1>4. /\ DOMAIN u = RunFields /\ u.pending = Unresolved(c) /\ u.ready = run.ready
      /\ u.exposure = run.exposure /\ u.profiled = run.profiled /\ u.cands = t.cands
  BY <1>3 DEF RunFields
<1> HIDE DEF t
<1>5. PICK draft \in {t, u} : Persist(draft, phase)
  BY DEF Asking, t
<1>6. /\ DOMAIN draft = RunFields /\ draft.pending \in {run.pending, Unresolved(c)}
      /\ draft.ready = run.ready /\ draft.exposure = run.exposure /\ draft.profiled = run.profiled
      /\ draft.cands = Replace(run, c).cands
  BY <1>3, <1>4 DEF t
<1>7. /\ c.commit = p.commit /\ c.derivation = p.derivation /\ c.iteration = p.iteration
      /\ c.exposure = p.exposure /\ c.exhaustive = p.exhaustive /\ c.decision = p.decision
      /\ c.accepted = p.accepted /\ c.rejected = p.rejected /\ c.specialists = p.specialists
      /\ c.proofs = p.proofs
  BY DEF CandidateFields, p
<1>8. RetainedAxes(c) = RetainedAxes(p)
  BY <1>7 DEF RetainedAxes
<1>9. Placed(run, n, c)
  BY <1>1, <1>7, <1>8 DEF Placed, p
<1>10. /\ missingBoundaryProofs(c) = missingBoundaryProofs(p)
       /\ missingSpecialistBoundaries(c) \subseteq missingSpecialistBoundaries(p)
  BY <1>7 DEF missingBoundaryProofs, missingSpecialistBoundaries, RetainedSpecialists, p
<1>11. ASSUME Careful(o, c, draft.pending)
       PROVE  Lasting(c) /\ Agreed(draft, c)
  <2>1. Lasting(c)
    BY <1>2, <1>11 DEF Careful, p
  <2>2. draft.pending # {} => draft.pending = Unresolved(c)
    BY <1>1, <1>6
  <2>3. c.decision # "none" /\ draft.pending = {} => Unresolved(c) = {}
    <3>1. c.decision # "none" /\ draft.pending = {} => Findings(c) = Findings(p)
      BY <1>2, <1>11 DEF Careful
    <3>2. p.decision # "none" => Unresolved(p) = {}
      BY <1>1 DEF Agreed
    <3> QED
      BY <1>7, <3>1, <3>2 DEF Unresolved
  <2>4. Agreed(draft, c)
    BY <1>1, <1>6, <1>7, <1>10, <2>2, <2>3 DEF Agreed
  <2> QED
    BY <2>1, <2>4
<1> QED
  BY <1>5, <1>6, <1>7, <1>9, <1>11, SteadyPersisted DEF n, o, p

\* Reviewers of some axes answer.
LEMMA ReviewsStep ==
    ASSUME TInv, Lasts(run), Settled, ~Losing, NEW axes \in SUBSET ReviewAxes, NEW findings, NEW phase,
           LET c == WithReviews(Reobserved, axes, findings) IN
           Persist(Replace(run, c), phase) \/ Persist(Asking(c), phase)
    PROVE  Lasts(run')
<1> DEFINE p == Reobserved
           c == WithReviews(p, axes, findings)
<1>1. Steady /\ Lasting(p) /\ DOMAIN p = CandidateFields /\ p.derivation.status # "pending"
  <2>1. Steady /\ Latest(run).derivation.status # "pending"
    BY DEF Settled
  <2>2. run.cands # <<>> /\ Lasting(p)
    BY <2>1, SteadyLasts
  <2>3. p.derivation = Latest(run).derivation
    BY <2>2, ReobservedLasts DEF CandidateFields
  <2> QED
    BY <2>1, <2>2, <2>3 DEF Lasting
<1>2. Persist(Replace(run, c), phase) \/ Persist(Asking(c), phase)
  OBVIOUS
<1> HIDE DEF p
<1>3. CurrentAxes(c) \cap RetainedAxes(p) = {} => Lasting(c)
  BY <1>1, WithReviewsLasts
<1>4. /\ DOMAIN c = CandidateFields /\ (c.acceptance # 0 \/ c.acceptance = p.acceptance)
      /\ \A f \in CandidateFields \ {"reviews", "acceptance"} : c[f] = p[f]
  <2> DEFINE new == {[axis |-> a, iteration |-> p.iteration, finding |-> a \in findings] : a \in axes}
  <2>1. c = [p EXCEPT !.reviews = p.reviews \cup new,
                      !.acceptance = IF "spec" \in axes THEN p.iteration ELSE p.acceptance]
    BY <1>1 DEF WithReviews, CandidateFields
  <2> HIDE DEF c, new
  <2>2. DOMAIN c = CandidateFields /\ c.acceptance \in {p.iteration, p.acceptance}
        /\ \A f \in CandidateFields \ {"reviews", "acceptance"} : c[f] = p[f]
    BY <1>1, <2>1 DEF CandidateFields
  <2>3. p.iteration # 0
    BY <1>1, FS_Subset, FS_CardinalityType DEF Lasting, Numbered
  <2> QED
    BY <2>2, <2>3
<1> HIDE DEF c
<1>5. c.specialistReviews = p.specialistReviews
  BY <1>4 DEF CandidateFields
<1> QED
  BY <1>1, <1>2, <1>3, <1>4, <1>5, ReviewedStep DEF p

\* Specialists answer.
LEMMA SpecialistsStep ==
    ASSUME TInv, Lasts(run), Steady, ~Losing, NEW bs, NEW findings, NEW phase,
           LET c == WithSpecialists(Reobserved, bs, findings) IN
           Persist(Replace(run, c), phase) \/ Persist(Asking(c), phase)
    PROVE  Lasts(run')
<1> DEFINE p == Reobserved
           c == WithSpecialists(p, bs, findings)
<1>1. Lasting(p)
  BY SteadyLasts
<1>2. Persist(Replace(run, c), phase) \/ Persist(Asking(c), phase)
  OBVIOUS
<1> HIDE DEF p
<1>3. Lasting(c) /\ \A f \in CandidateFields \ {"specialistReviews"} : c[f] = p[f]
  BY <1>1, WithSpecialistsLasts
<1>4. p.specialistReviews \subseteq c.specialistReviews
  BY <1>1 DEF WithSpecialists, Lasting, CandidateFields
<1> HIDE DEF c
<1>5. DOMAIN c = CandidateFields /\ c.acceptance = p.acceptance
  BY <1>3 DEF Lasting, CandidateFields
<1> QED
  BY <1>2, <1>3, <1>4, <1>5, ReviewedStep DEF p

\* The open findings are asked about.
LEMMA RequestStep == ASSUME TInv, Lasts(run), Steady, ~Losing, Persist(Asking(Reobserved), "review")
                     PROVE  Lasts(run')
<1>1. Lasting(Reobserved) /\ DOMAIN Reobserved = CandidateFields
  BY SteadyLasts DEF Lasting
<1> QED
  BY <1>1, ReviewedStep

\* A proof of boundaries, or a validation, that is recorded in the candidate.
LEMMA ValidatedStep ==
    ASSUME TInv, Lasts(run), Steady, ~Losing,
           NEW c, DOMAIN c = CandidateFields,
           \A f \in CandidateFields \ {"proofs", "exhaustive"} : c[f] = Reobserved[f],
           Reobserved.proofs \subseteq c.proofs,
           c.exhaustive => missingReviewAxes(Reobserved) = {}, Placed(run, Len(run.cands), c),
           NEW draft, DOMAIN draft = RunFields, draft.cands = Replace(run, c).cands,
           draft.pending = run.pending, draft.exposure = run.exposure, draft.profiled = run.profiled,
           draft.ready => /\ c.exhaustive
                          /\ run.ready \/ (missingSpecialistBoundaries(Reobserved) = {}
                                           /\ missingBoundaryProofs(Reobserved) = {}),
           NEW phase, Persist(draft, phase)
    PROVE  Lasts(run')
<1> DEFINE p == Reobserved
<1>1. Lasting(p) /\ Agreed(run, p) /\ run.pending = {}
  BY SteadyLasts
<1> HIDE DEF p
<1>2. /\ c.commit = p.commit /\ c.derivation = p.derivation /\ c.iteration = p.iteration
      /\ c.exposure = p.exposure /\ c.decision = p.decision /\ c.reviews = p.reviews
      /\ c.specialistReviews = p.specialistReviews /\ c.batches = p.batches
      /\ c.accepted = p.accepted /\ c.rejected = p.rejected /\ c.specialists = p.specialists
  BY DEF CandidateFields, p
<1>3. /\ Findings(c) = Findings(p) /\ CurrentAxes(c) = CurrentAxes(p) /\ RetainedAxes(c) = RetainedAxes(p)
  BY <1>2 DEF Findings, CurrentAxes, RetainedAxes
<1>4. missingReviewAxes(c) = missingReviewAxes(p)
  BY <1>3 DEF missingReviewAxes
<1>5. Lasting(c)
  <2>1. Numbered(c)
    BY <1>1, <1>2 DEF Lasting, Numbered, IterationsNumbered
  <2>2. BatchesCurrent(c)
    BY <1>1, <1>2 DEF Lasting, BatchesCurrent, FreshAxes
  <2>3. c.exhaustive => missingReviewAxes(c) = {}
    BY <1>4 DEF p
  <2> QED
    BY <1>1, <1>2, <1>3, <2>1, <2>2, <2>3 DEF Lasting
<1>6. /\ missingSpecialistBoundaries(c) = missingSpecialistBoundaries(p)
      /\ missingBoundaryProofs(c) \subseteq missingBoundaryProofs(p)
  BY <1>2 DEF missingSpecialistBoundaries, RetainedSpecialists, missingBoundaryProofs, p
<1>7. Agreed(draft, c)
  <2>1. c.decision # "none" /\ draft.pending = {} => Unresolved(c) = {}
    BY <1>1, <1>2, <1>3 DEF Agreed, Unresolved
  <2>2. draft.ready => /\ c.exhaustive /\ missingSpecialistBoundaries(c) = {}
                       /\ missingBoundaryProofs(c) = {}
    BY <1>1, <1>6 DEF Agreed, p
  <2> QED
    BY <1>1, <1>2, <2>1, <2>2 DEF Agreed
<1> QED
  BY <1>2, <1>5, <1>7, SteadyPersisted DEF p

\* executeBoundaryProofs, when the proofs are valid
LEMMA ProofsStep == ASSUME TInv, Lasts(run), ~Losing, NEW valid, ProveBoundaries(valid)
                    PROVE  Lasts(run')
<1> DEFINE p == Reobserved
           c == [p EXCEPT !.proofs = p.proofs \cup missingBoundaryProofs(p)]
           t == Replace(run, c)
<1>1. Steady /\ ~run.ready /\ (Persist(t, "other") \/ Persist(Replace(run, p), "other"))
  BY DEF ProveBoundaries, Reviewed, Plain, Settled
<1>2. DOMAIN run = RunFields /\ Lasting(p) /\ Placed(run, Len(run.cands), p)
  BY <1>1, SteadyLasts
<1> HIDE DEF p
<1>3. /\ DOMAIN c = CandidateFields /\ p.proofs \subseteq c.proofs
      /\ \A f \in CandidateFields \ {"proofs"} : c[f] = p[f]
  BY <1>2 DEF Lasting, CandidateFields
<1> HIDE DEF c
<1>4. c.exhaustive => missingReviewAxes(p) = {}
  BY <1>2, <1>3 DEF Lasting, CandidateFields
<1>5. Placed(run, Len(run.cands), c)
  BY <1>2, <1>3 DEF Placed, CandidateFields, RetainedAxes
<1>6. /\ DOMAIN t = RunFields /\ t.pending = run.pending /\ ~t.ready
      /\ t.exposure = run.exposure /\ t.profiled = run.profiled
  BY <1>1, <1>2, ReplaceFields DEF RunFields
<1>7. CASE Persist(t, "other")
  <2> HIDE DEF t
  <2>1. t.cands = Replace(run, c).cands
    BY DEF t
  <2> QED
    BY <1>1, <1>3, <1>4, <1>5, <1>6, <1>7, <2>1, ValidatedStep DEF p
<1>8. CASE Persist(Replace(run, p), "other")
  BY <1>1, <1>8, ReobservedStep DEF p
<1> QED
  BY <1>1, <1>7, <1>8

\* The exhaustive validation needs the reviews, and an acceptance that the candidate, or the
\* parent it derives from, has.
LEMMA ConcludeStep == ASSUME TInv, Lasts(run), ~Losing, NEW valid, NEW unchanged, Conclude(valid, unchanged)
                      PROVE  Lasts(run')
<1> DEFINE p == Reobserved
           n == Len(run.cands)
           c == [p EXCEPT !.exhaustive = TRUE]
           t == Replace(run, c)
           u == [t EXCEPT !.ready = unchanged /\ clean]
           proved == Latest(run).exhaustive \/ (valid /\ SemanticAcceptance(t, n))
<1>1. /\ Steady /\ missingReviewAxes(p) = {} /\ missingSpecialistBoundaries(p) = {}
      /\ missingBoundaryProofs(p) = {}
      /\ Persist(IF proved THEN u ELSE Replace(run, p), "other")
  BY DEF Conclude, Reviewed, Plain, Settled
<1>2. /\ DOMAIN run = RunFields /\ Lasting(p) /\ Placed(run, n, p) /\ run.cands # <<>>
  BY <1>1, SteadyLasts
<1>3. n \in Nat /\ DOMAIN run.cands = 1..n /\ n \in 1..n
  BY <1>2, ReobservedLasts DEF Lasts
<1>4. p.exhaustive = Latest(run).exhaustive
  BY <1>2, ReobservedLasts DEF CandidateFields
<1> HIDE DEF p, n
<1>5. /\ DOMAIN c = CandidateFields /\ c.exhaustive = TRUE
      /\ \A f \in CandidateFields \ {"exhaustive"} : c[f] = p[f]
  BY <1>2 DEF Lasting, CandidateFields
<1> HIDE DEF c
<1>6. /\ c.acceptance = p.acceptance /\ c.derivation = p.derivation /\ c.iteration = p.iteration
      /\ c.exposure = p.exposure /\ c.proofs = p.proofs
  BY <1>5 DEF CandidateFields
<1>7. RetainedAxes(c) = RetainedAxes(p)
  BY <1>6 DEF RetainedAxes
<1>8. "spec" \in RetainedAxes(p) => n > 1
  BY <1>2 DEF RetainedAxes, Placed
<1>9. ASSUME proved
      PROVE  Placed(run, n, c)
  <2>1. t.cands = [run.cands EXCEPT ![n] = c]
    BY <1>2 DEF Replace, RunFields, n
  <2>2. t.cands[n] = c /\ (n > 1 => t.cands[n - 1] = run.cands[n - 1])
    BY <1>3, <2>1
  <2>3. SemanticAcceptance(t, n) => c.acceptance # 0 \/ ("spec" \in RetainedAxes(c) /\ run.cands[n - 1].acceptance # 0)
    BY <1>7, <1>8, <2>2 DEF SemanticAcceptance
  <2> HIDE DEF t
  <2>4. Latest(run).exhaustive => c.acceptance # 0 \/ ("spec" \in RetainedAxes(c) /\ run.cands[n - 1].acceptance # 0)
    BY <1>2, <1>4, <1>6, <1>7 DEF Placed
  <2> QED
    BY <1>2, <1>6, <1>9, <2>3, <2>4 DEF Placed
<1>10. /\ DOMAIN t = RunFields /\ t.pending = run.pending
       /\ t.exposure = run.exposure /\ t.profiled = run.profiled
  BY <1>2, ReplaceFields DEF RunFields
<1>11. /\ DOMAIN u = RunFields /\ u.pending = run.pending /\ u.cands = t.cands
       /\ u.exposure = run.exposure /\ u.profiled = run.profiled
  BY <1>10 DEF RunFields
<1>12. CASE proved
  <2> HIDE DEF u, proved
  <2>1. Persist(u, "other")
    BY <1>1, <1>12
  <2>2. u.cands = Replace(run, c).cands
    BY <1>11 DEF t
  <2>3. Placed(run, n, c)
    BY <1>9, <1>12
  <2> QED
    BY <1>1, <1>5, <1>6, <1>11, <2>1, <2>2, <2>3, ValidatedStep DEF p, n
<1>13. CASE ~proved
  <2> HIDE DEF proved
  <2>1. Persist(Replace(run, p), "other")
    BY <1>1, <1>13
  <2> QED
    BY <1>1, <2>1, ReobservedStep DEF p
<1> QED
  BY <1>12, <1>13

\* CI red because of the change takes the validation back.
LEMMA FailureStep == ASSUME TInv, Lasts(run), ~Losing, CandidateFailsCI PROVE Lasts(run')
<1> DEFINE p == Reobserved
           c == [p EXCEPT !.exhaustive = FALSE]
           t == Replace(run, c)
           u == [t EXCEPT !.ready = FALSE, !.failed = TRUE]
<1>1. Steady /\ Persist(u, "other")
  BY DEF CandidateFailsCI, Settled
<1>2. DOMAIN run = RunFields /\ Lasting(p) /\ Placed(run, Len(run.cands), p)
  BY <1>1, SteadyLasts
<1> HIDE DEF p
<1>3. /\ DOMAIN c = CandidateFields /\ c.exhaustive = FALSE
      /\ \A f \in CandidateFields \ {"exhaustive"} : c[f] = p[f]
  BY <1>2 DEF Lasting, CandidateFields
<1> HIDE DEF c
<1>4. c.proofs = p.proofs /\ Placed(run, Len(run.cands), c)
  BY <1>2, <1>3 DEF Placed, CandidateFields
<1>5. /\ DOMAIN t = RunFields /\ t.pending = run.pending
      /\ t.exposure = run.exposure /\ t.profiled = run.profiled
  BY <1>2, ReplaceFields DEF RunFields
<1>6. /\ DOMAIN u = RunFields /\ u.pending = run.pending /\ u.cands = t.cands /\ u.ready = FALSE
      /\ u.exposure = run.exposure /\ u.profiled = run.profiled
  BY <1>5 DEF RunFields
<1> HIDE DEF u
<1>7. u.cands = Replace(run, c).cands
  BY <1>6 DEF t
<1> QED
  BY <1>1, <1>3, <1>4, <1>6, <1>7, ValidatedStep DEF p

\* What an assessment or its confirmation leaves when no review is in.
LEMMA RederivedStep ==
    ASSUME TInv, Lasts(run), Steady, ~Losing,
           NEW c, DOMAIN c = CandidateFields,
           \A f \in CandidateFields \ {"derivation"} : c[f] = Reobserved[f],
           "standards" \in c.derivation.fresh,
           Latest(run).derivation.status \in {"none", "pending"}, c.derivation.status # "none",
           Len(run.cands) > 1, c.derivation.of = <<Reobserved.iteration, Reobserved.exposure>>,
           NEW phase, Persist(Replace(run, c), phase)
    PROVE  Lasts(run')
<1> DEFINE p == Reobserved
           o == Latest(run)
           n == Len(run.cands)
           t == Replace(run, c)
<1>1. Lasting(p) /\ Agreed(run, p) /\ run.pending = {} /\ run.cands # <<>> /\ DOMAIN run = RunFields
  BY SteadyLasts
<1>2. /\ Lasting(o) /\ CurrentAxes(p) = CurrentAxes(o) /\ Findings(p) = Findings(o)
      /\ \A f \in CandidateFields \ {"class", "effects", "exposure", "specialists"} : p[f] = o[f]
  BY <1>1, ReobservedLasts
<1> HIDE DEF p, o
<1>3. p.derivation = o.derivation /\ p.exhaustive = o.exhaustive
  BY <1>2 DEF CandidateFields
<1>4. /\ c.commit = p.commit /\ c.iteration = p.iteration /\ c.exposure = p.exposure
      /\ c.decision = p.decision /\ c.reviews = p.reviews /\ c.batches = p.batches
      /\ c.specialistReviews = p.specialistReviews /\ c.accepted = p.accepted
      /\ c.rejected = p.rejected /\ c.exhaustive = p.exhaustive
  BY DEF CandidateFields, p
<1>5. /\ DOMAIN t = RunFields /\ t.pending = run.pending /\ t.ready = run.ready
      /\ t.exposure = run.exposure /\ t.profiled = run.profiled
  BY <1>1, ReplaceFields DEF RunFields
<1>6. ASSUME Careful(o, c, t.pending)
      PROVE  Lasting(c) /\ Placed(run, n, c) /\ Agreed(t, c)
  <2>1. CurrentAxes(p) = {}
    BY <1>2, <1>6 DEF Careful, Lasting, o
  <2>2. RetainedAxes(o) = {} /\ missingReviewAxes(o) # {}
    BY <1>2, <2>1 DEF RetainedAxes, missingReviewAxes, ReviewAxes, o
  <2>3. ~c.exhaustive
    BY <1>2, <1>3, <1>4, <2>2 DEF Lasting
  <2>4. Lasting(c)
    BY <1>1, <1>4, <2>1, <2>3, RederivedLasts
  <2>5. Placed(run, n, c)
    BY <1>4, <2>3 DEF Placed, p
  <2>6. ~run.ready
    BY <1>1, <1>4, <2>3 DEF Agreed
  <2>7. Findings(c) = Findings(p)
    BY <1>4 DEF Findings
  <2>8. Agreed(t, c)
    BY <1>1, <1>4, <1>5, <2>6, <2>7 DEF Agreed, Unresolved
  <2> QED
    BY <2>4, <2>5, <2>8
<1>7. t.cands = Replace(run, c).cands /\ Persist(t, phase)
  OBVIOUS
<1> HIDE DEF t
<1> QED
  BY <1>4, <1>5, <1>6, <1>7, SteadyPersisted DEF p, o, n

\* The author's assessment, which comes before any fresh review of the candidate.
LEMMA AssessmentStep ==
    ASSUME TInv, Lasts(run), ~Losing, NEW fresh, "standards" \in fresh, NEW specialists,
           AdmitImpactAssessment(fresh, specialists)
    PROVE  Lasts(run')
<1> DEFINE p == Reobserved
           d == [status |-> IF fresh # ReviewAxes \/ specialists # {} THEN "pending" ELSE "unconfirmed",
                 fresh |-> fresh, specialists |-> specialists, of |-> <<p.iteration, p.exposure>>]
           c == [p EXCEPT !.derivation = d]
<1>1. /\ Steady /\ Len(run.cands) > 1 /\ Latest(run).derivation.status = "none"
      /\ Persist(Replace(run, c), "other")
  BY DEF AdmitImpactAssessment
<1>2. DOMAIN p = CandidateFields
  BY <1>1, SteadyLasts DEF Lasting
<1>3. "standards" \in d.fresh /\ d.status # "none" /\ d.of = <<p.iteration, p.exposure>>
  OBVIOUS
<1> HIDE DEF p, d
<1>4. /\ DOMAIN c = CandidateFields /\ c.derivation = d
      /\ \A f \in CandidateFields \ {"derivation"} : c[f] = p[f]
  BY <1>2 DEF CandidateFields
<1> HIDE DEF c
<1> QED
  BY <1>1, <1>3, <1>4, RederivedStep DEF p

\* Nothing is reviewed while a confirmation is due.
LEMMA ConfirmationStep ==
    ASSUME TInv, Lasts(run), ~Losing, NEW accepted \in BOOLEAN, AdmitImpactConfirmation(accepted)
    PROVE  Lasts(run')
<1> DEFINE p == Reobserved
           status == IF accepted THEN "confirmed" ELSE "fallback"
           c == [p EXCEPT !.derivation.status = status]
<1>1. /\ Steady /\ Latest(run).derivation.status = "pending" /\ Persist(Replace(run, c), "other")
  BY DEF AdmitImpactConfirmation
<1>2. /\ Lasting(p) /\ DOMAIN p = CandidateFields /\ Placed(run, Len(run.cands), p)
      /\ run.cands # <<>>
  BY <1>1, SteadyLasts DEF Lasting
<1>3. p.derivation = Latest(run).derivation /\ CandidateSafe(p)
  BY <1>2, ReobservedLasts, Observed DEF CandidateFields, TInv
<1>4. status # "none"
  OBVIOUS
<1> HIDE DEF p, status
<1>5. DOMAIN p.derivation = {"status", "fresh", "specialists", "of"} /\ "standards" \in p.derivation.fresh
  BY <1>3 DEF CandidateSafe
<1>6. Len(run.cands) > 1 /\ p.derivation.of = <<p.iteration, p.exposure>>
  BY <1>1, <1>2, <1>3 DEF Placed
<1>7. /\ DOMAIN c = CandidateFields /\ c.derivation = [p.derivation EXCEPT !.status = status]
      /\ \A f \in CandidateFields \ {"derivation"} : c[f] = p[f]
  BY <1>2 DEF CandidateFields
<1> HIDE DEF c
<1>8. /\ c.derivation.status = status /\ c.derivation.fresh = p.derivation.fresh
      /\ c.derivation.of = p.derivation.of
  BY <1>5, <1>7
<1> QED
  BY <1>1, <1>4, <1>5, <1>6, <1>7, <1>8, RederivedStep DEF p

\* An escalated candidate starts an iteration with no review in it.
LEMMA EscalationStep == ASSUME TInv, Lasts(run), ~Losing, Escalate PROVE Lasts(run')
<1> DEFINE p == Reobserved
           o == Latest(run)
           n == Len(run.cands)
           c == [p EXCEPT !.iteration = Cardinality(p.reviews) + 1, !.acceptance = 0, !.exhaustive = FALSE]
           t == Replace(run, c)
           u == [t EXCEPT !.exposure = c.exposure, !.ready = FALSE, !.profiled = t.profiled \cup {head}]
<1>1. /\ run.cands # <<>> /\ run.pending = {} /\ o.commit = head /\ p.exposure # run.exposure
      /\ Persist(u, "other")
  BY DEF Escalate, Free
<1>2. /\ n # 0 /\ DOMAIN run = RunFields /\ Lasting(p) /\ Agreed(run, o)
      /\ \A f \in CandidateFields \ {"class", "effects", "exposure", "specialists"} : p[f] = o[f]
      /\ Unresolved(p) = Unresolved(o) /\ Findings(p) = Findings(o) /\ Placed(run, n, o)
  BY <1>1, ReobservedLasts
<1> HIDE DEF p, o, n
<1>3. p.derivation = o.derivation /\ p.commit = o.commit /\ p.decision = o.decision
  BY <1>2 DEF CandidateFields
<1>4. /\ DOMAIN c = CandidateFields /\ c.exhaustive = FALSE
      /\ c.iteration = Cardinality(p.reviews) + 1
      /\ c.derivation = p.derivation /\ c.commit = p.commit /\ c.exposure = p.exposure
      /\ c.decision = p.decision /\ c.reviews = p.reviews /\ c.batches = p.batches
      /\ c.specialistReviews = p.specialistReviews /\ c.accepted = p.accepted
      /\ c.rejected = p.rejected
  BY <1>2 DEF Lasting, CandidateFields
<1> HIDE DEF c
<1>5. Numbered(c) /\ CurrentAxes(c) = {} /\ \A v \in c.reviews : v.iteration # c.iteration
  BY <1>2, <1>4, NextNumbered DEF Lasting
<1>6. BatchesCurrent(c)
  <2> SUFFICES ASSUME NEW b \in p.batches
               PROVE  /\ b.iteration # c.iteration
                      /\ \A a \in b.axes : \E r \in p.reviews : r.iteration = b.iteration /\ r.axis = a
    BY <1>4 DEF BatchesCurrent
  <2>1. /\ "standards" \in b.axes
        /\ \A a \in b.axes : \E r \in p.reviews : r.iteration = b.iteration /\ r.axis = a
    BY <1>2 DEF Lasting, BatchesCurrent
  <2> QED
    BY <1>4, <1>5, <2>1
<1>7. Findings(c) = Findings(p) /\ Unresolved(c) = Unresolved(p)
  BY <1>4 DEF Findings, Unresolved
<1>8. Lasting(c)
  BY <1>2, <1>4, <1>5, <1>6, <1>7 DEF Lasting
<1>9. /\ DOMAIN t = RunFields /\ t.pending = {} /\ t.profiled = run.profiled
  BY <1>1, <1>2, ReplaceFields DEF RunFields
<1>10. /\ DOMAIN u = RunFields /\ u.pending = {} /\ u.ready = FALSE /\ u.exposure = c.exposure
       /\ u.profiled = run.profiled \cup {head} /\ u.cands = t.cands
  BY <1>9 DEF RunFields
<1> HIDE DEF u
<1>11. Agreed(u, c)
  BY <1>1, <1>2, <1>3, <1>4, <1>7, <1>10 DEF Agreed
<1>12. ASSUME Careful(o, c, u.pending)
       PROVE  Lasts(u)
  <2>1. o.derivation.status = "none"
    BY <1>1, <1>2, <1>4, <1>12 DEF Careful, Agreed
  <2>2. Placed(run, n, c)
    BY <1>3, <1>4, <2>1 DEF Placed
  <2>3. c.commit = Latest(run).commit /\ u.profiled \subseteq run.profiled \cup {c.commit}
    BY <1>1, <1>3, <1>4, <1>10 DEF o
  <2>4. u.cands = Replace(run, c).cands
    BY <1>10 DEF t
  <2> HIDE DEF t
  <2> QED
    BY <1>1, <1>2, <1>8, <1>10, <1>11, <2>2, <2>3, <2>4, ReplacedLasts DEF n
<1>13. u.cands = Replace(run, c).cands
  BY <1>10 DEF t
<1> HIDE DEF t
<1> QED
  BY <1>1, <1>2, <1>4, <1>10, <1>12, <1>13, CarefulPersisted DEF n, o

\* A decision answers all that was asked, which is all that was open.
LEMMA AdjudicationStep ==
    ASSUME TInv, Lasts(run), NEW accepted, NEW class, ApplyRepair(accepted, class)
    PROVE  Lasts(run')
<1> DEFINE o == Latest(run)
           decision == strongestRepairClass(o.decision, class)
           merged == [o EXCEPT !.accepted = @ \cup accepted,
                               !.rejected = @ \cup (run.pending \ accepted),
                               !.decision = strongestRepairClass(o.decision, class)]
           c == [o EXCEPT !.accepted = o.accepted \cup accepted,
                          !.rejected = o.rejected \cup (run.pending \ accepted),
                          !.decision = decision]
           t == Replace(run, c)
           u == [t EXCEPT !.pending = {}]
<1>1. loads /\ run.pending # {} /\ accepted \subseteq run.pending
  BY DEF ApplyRepair
<1>2. run.cands # <<>> /\ ~run.ready /\ run.pending = Unresolved(o)
  BY <1>1, AskedUnresolved DEF TInv
<1>3. /\ Len(run.cands) # 0 /\ DOMAIN run = RunFields /\ Lasting(o) /\ Agreed(run, o)
      /\ Placed(run, Len(run.cands), o)
  BY <1>2, ReobservedLasts
<1>4. Persist(u, "other")
  <2>1. Persist([Replace(run, merged) EXCEPT !.pending = {}], "other")
    BY DEF ApplyRepair
  <2>2. merged = c
    BY <1>3 DEF Lasting, CandidateFields
  <2> QED
    BY <2>1, <2>2
<1> HIDE DEF decision, o
<1>5. /\ DOMAIN c = CandidateFields /\ c.accepted = o.accepted \cup accepted
      /\ c.rejected = o.rejected \cup (run.pending \ accepted)
      /\ \A f \in CandidateFields \ {"accepted", "rejected", "decision"} : c[f] = o[f]
  BY <1>3 DEF Lasting, CandidateFields
<1> HIDE DEF c
<1>6. /\ c.iteration = o.iteration /\ c.reviews = o.reviews /\ c.batches = o.batches
      /\ c.specialistReviews = o.specialistReviews /\ c.derivation = o.derivation
      /\ c.exhaustive = o.exhaustive /\ c.commit = o.commit /\ c.exposure = o.exposure
      /\ c.acceptance = o.acceptance
  BY <1>5 DEF CandidateFields
<1>7. /\ Findings(c) = Findings(o) /\ CurrentAxes(c) = CurrentAxes(o)
      /\ RetainedAxes(c) = RetainedAxes(o)
  BY <1>6 DEF Findings, CurrentAxes, RetainedAxes
<1>8. missingReviewAxes(c) = missingReviewAxes(o)
  BY <1>7 DEF missingReviewAxes
<1>9. Unresolved(c) = {} /\ c.accepted \cup c.rejected \subseteq Findings(c)
  <2>1. run.pending = Findings(o) \ (o.accepted \cup o.rejected)
    BY <1>2 DEF Unresolved
  <2>2. o.accepted \cup o.rejected \subseteq Findings(o)
    BY <1>3 DEF Lasting
  <2> QED
    BY <1>1, <1>5, <1>7, <2>1, <2>2 DEF Unresolved
<1>10. Lasting(c)
  <2>1. Numbered(c)
    BY <1>3, <1>6 DEF Lasting, Numbered, IterationsNumbered
  <2>2. BatchesCurrent(c)
    BY <1>3, <1>6 DEF Lasting, BatchesCurrent, FreshAxes
  <2> QED
    BY <1>3, <1>5, <1>6, <1>7, <1>8, <1>9, <2>1, <2>2 DEF Lasting
<1>11. Placed(run, Len(run.cands), c)
  BY <1>3, <1>6, <1>7 DEF Placed
<1>12. /\ DOMAIN t = RunFields /\ t.ready = run.ready /\ t.exposure = run.exposure
       /\ t.profiled = run.profiled
  BY <1>3, ReplaceFields DEF RunFields
<1>13. /\ DOMAIN u = RunFields /\ u.pending = {} /\ u.ready = run.ready
       /\ u.exposure = run.exposure /\ u.profiled = run.profiled /\ u.cands = t.cands
  BY <1>12 DEF RunFields
<1> HIDE DEF u
<1>14. Agreed(u, c)
  BY <1>2, <1>3, <1>6, <1>9, <1>13 DEF Agreed
<1>15. u.cands = Replace(run, c).cands
  BY <1>13 DEF t
<1> HIDE DEF t
<1>16. Lasts(u)
  BY <1>2, <1>3, <1>6, <1>10, <1>11, <1>13, <1>14, <1>15, ReplacedLasts DEF o
<1> QED
  BY <1>4, <1>16, PersistedLasts

\* A candidate that has nothing yet, in a record that lasts.
LEMMA AppendedLasts ==
    ASSUME NEW r, Lasts(r), NEW c, Lasting(c), c.derivation.status = "none", ~c.exhaustive,
           \A i \in 1..Len(r.cands) : r.cands[i].commit # c.commit,
           NEW t, DOMAIN t = RunFields, t.cands = Append(r.cands, c), Agreed(t, c),
           r.cands \in Seq({r.cands[i] : i \in DOMAIN r.cands}),
           t.profiled \subseteq r.profiled \cup {c.commit}
    PROVE  Lasts(t)
<1> DEFINE n == Len(r.cands)
           S == {r.cands[i] : i \in DOMAIN r.cands}
<1>1. n \in Nat /\ DOMAIN r.cands = 1..n
  BY DEF Lasts
<1>2. /\ DOMAIN t.cands = 1..(n + 1) /\ Len(t.cands) = n + 1 /\ t.cands[n + 1] = c
      /\ \A i \in 1..n : t.cands[i] = r.cands[i]
  <2> HIDE DEF S
  <2>1. r.cands \in Seq(S)
    BY DEF S
  <2> QED
    BY <1>1, <2>1
<1>3. CandidatesDistinct(t)
  <2> SUFFICES ASSUME NEW i \in 1..(n + 1), NEW j \in 1..(n + 1), t.cands[i].commit = t.cands[j].commit
               PROVE  i = j
    BY <1>2 DEF CandidatesDistinct
  <2>1. \A k \in 1..(n + 1) : k \in 1..n \/ k = n + 1
    BY <1>1
  <2>2. CASE i \in 1..n /\ j \in 1..n
    BY <1>1, <1>2, <2>2 DEF Lasts, CandidatesDistinct
  <2>3. CASE i = n + 1 /\ j \in 1..n
    BY <1>2, <2>3
  <2>4. CASE i \in 1..n /\ j = n + 1
    BY <1>2, <2>4
  <2> QED
    BY <2>1, <2>2, <2>3, <2>4
<1>4. ASSUME NEW i \in 1..(n + 1)
      PROVE  Lasting(t.cands[i]) /\ Placed(t, i, t.cands[i])
  <2>1. CASE i = n + 1
    BY <1>2, <2>1 DEF Placed
  <2>2. CASE i # n + 1
    <3>1. i \in 1..n /\ t.cands[i] = r.cands[i]
      BY <1>1, <1>2, <2>2
    <3>2. Lasting(r.cands[i]) /\ Placed(r, i, r.cands[i])
      BY <3>1 DEF Lasts
    <3>3. "spec" \in RetainedAxes(r.cands[i]) => i > 1
      BY <3>2 DEF RetainedAxes, Placed
    <3>4. i > 1 => i - 1 \in 1..n
      BY <1>1, <3>1
    <3>5. "spec" \in RetainedAxes(r.cands[i]) => t.cands[i - 1] = r.cands[i - 1]
      BY <1>2, <3>3, <3>4
    <3> QED
      BY <3>1, <3>2, <3>5 DEF Placed
  <2> QED
    BY <2>1, <2>2
<1>5. t.profiled \subseteq {t.cands[i].commit : i \in 1..(n + 1)}
  <2>1. r.profiled \subseteq {r.cands[i].commit : i \in 1..n}
    BY DEF Lasts
  <2>2. n + 1 \in 1..(n + 1) /\ \A i \in 1..n : i \in 1..(n + 1)
    BY <1>1
  <2> QED
    BY <1>2, <2>1, <2>2
<1>6. Latest(t) = c
  BY <1>2 DEF Latest
<1> QED
  BY <1>1, <1>2, <1>3, <1>4, <1>5, <1>6 DEF Lasts

\* A new candidate has nothing yet.
LEMMA StartedLasts ==
    ASSUME NEW r, NEW previous
    PROVE  LET c == Profiled(r, newCandidate(previous), previous) IN
           /\ Lasting(c) /\ c.derivation.status = "none" /\ ~c.exhaustive /\ c.commit = head
           /\ c.decision = "none"
<1> DEFINE b == newCandidate(previous)
           c == Profiled(r, b, previous)
<1>1. PICK class : b = Blank(class)
  BY DEF newCandidate
<1>2. /\ DOMAIN b = CandidateFields /\ b.iteration = 1 /\ b.reviews = {} /\ b.specialistReviews = {}
      /\ b.accepted = {} /\ b.rejected = {} /\ b.batches = {} /\ b.exhaustive = FALSE
      /\ b.commit = head /\ b.decision = "none"
      /\ b.derivation.status = "none" /\ b.derivation.fresh = ReviewAxes
  BY <1>1 DEF Blank, CandidateFields, NoDerivation
<1> HIDE DEF b
<1>3. /\ DOMAIN c = CandidateFields
      /\ \A f \in CandidateFields \ {"class", "effects", "exposure", "specialists"} : c[f] = b[f]
  BY <1>2, ProfiledKeeps
<1> HIDE DEF c
<1>4. /\ c.iteration = 1 /\ c.reviews = {} /\ c.specialistReviews = {}
      /\ c.accepted = {} /\ c.rejected = {} /\ c.batches = {} /\ c.exhaustive = FALSE
      /\ c.commit = head /\ c.decision = "none"
      /\ c.derivation.status = "none" /\ c.derivation.fresh = ReviewAxes
  BY <1>2, <1>3 DEF CandidateFields
<1>5. Numbered(c)
  <2>1. {w \in c.reviews : w.iteration < c.iteration} = {}
    BY <1>4
  <2> QED
    BY <1>4, <2>1, FS_EmptySet DEF Numbered, IterationsNumbered
<1>6. CurrentAxes(c) = {}
  BY <1>4 DEF CurrentAxes
<1>7. Lasting(c)
  BY <1>3, <1>4, <1>5, <1>6 DEF Lasting, BatchesCurrent, ReviewAxes
<1> QED
  BY <1>4, <1>7 DEF c, b

\* A start, observed or not; the candidate is of a commit that never was one.
LEMMA NewCandidateStep ==
    ASSUME TInv, Lasts(run), ~Losing,
           NEW outcome \in {"unobserved", "unsandboxed", "focused"}, NewCandidate(outcome)
    PROVE  Lasts(run')
<1> DEFINE previous == IF run.cands = <<>> THEN <<>> ELSE <<Latest(run)>>
           c == Profiled(run, newCandidate(previous), previous)
           started == Stamp(run, "start")
           observed == [started EXCEPT !.exposure = c.exposure, !.profiled = started.profiled \cup {head}]
           t == [observed EXCEPT !.cands = Append(observed.cands, c), !.ready = FALSE, !.failed = FALSE]
<1>1. Lasts(started) /\ started.cands = run.cands /\ started.pending = run.pending
  BY StampLasts
<1>2. CASE outcome = "unobserved"
  <2>1. Persist(started, "other")
    BY <1>2 DEF NewCandidate
  <2> HIDE DEF started
  <2> QED
    BY <1>1, <2>1, PersistedLasts
<1>3. CASE outcome = "unsandboxed"
  BY <1>3 DEF Losing
<1>4. CASE outcome = "focused"
  <2>1. run.pending = {} /\ Persist(t, "other")
    BY <1>4 DEF NewCandidate, Free
  <2>2. head \notin Candidates
    BY <1>4 DEF Losing
  <2>3. started.profiled = run.profiled
    BY StampTyped DEF TInv
  <2>4. /\ Lasting(c) /\ c.derivation.status = "none" /\ ~c.exhaustive /\ c.commit = head
        /\ c.decision = "none"
    BY StartedLasts
  <2> HIDE DEF c, started
  <2>5. DOMAIN started = RunFields
    BY <1>1 DEF Lasts
  <2>6. /\ DOMAIN t = RunFields /\ t.cands = Append(run.cands, c) /\ t.pending = {}
        /\ t.ready = FALSE /\ t.exposure = c.exposure /\ t.profiled = run.profiled \cup {head}
    BY <1>1, <2>1, <2>3, <2>5 DEF RunFields
  <2> HIDE DEF t
  <2>7. run.cands \in Seq({run.cands[i] : i \in DOMAIN run.cands}) /\ HistorySafe(run)
    BY DEF TInv, IInv, RunSafe, HistorySafe
  <2>8. DOMAIN run.cands = 1..Len(run.cands) /\ (Len(run.cands) = 0 => run.cands = <<>>)
    BY <2>7, SequenceFacts
  <2>9. \A i \in 1..Len(run.cands) : run.cands[i].commit # c.commit
    BY <2>2, <2>4, <2>8 DEF Candidates
  <2>10. Agreed(t, c)
    BY <2>4, <2>6 DEF Agreed
  <2>11. Lasts(t)
    BY <2>4, <2>6, <2>7, <2>8, <2>9, <2>10, AppendedLasts
  <2> QED
    BY <2>1, <2>11, PersistedLasts
<1> QED
  BY <1>2, <1>3, <1>4

-------------------------------------------------------------------------------
(* Every record is loaded again, unless something is lost *)

KInv == TInv /\ Lasts(run)

\* The empty record lasts.
LEMMA InitLasts == Init => KInv
<1> SUFFICES ASSUME Init
             PROVE  KInv
  OBVIOUS
<1>1. TInv
  BY InitTyped
<1>2. DOMAIN run = RunFields /\ run.cands = <<>> /\ run.profiled = {}
  BY DEF Init, RunFields
<1>3. Len(run.cands) = 0 /\ DOMAIN run.cands = {}
  BY <1>2
<1> HIDE DEF Init
<1>4. Lasts(run)
  BY <1>2, <1>3 DEF Lasts, CandidatesDistinct
<1> QED
  BY <1>1, <1>4 DEF KInv

\* Every action that is not losing, and a stutter.
LEMMA NextLasts == KInv /\ [Next]_vars /\ [~Losing]_vars => KInv'
<1> SUFFICES ASSUME TInv, Lasts(run), [Next]_vars, [~Losing]_vars
             PROVE  Lasts(run')
  BY NextTyped DEF KInv
<1>1. CASE UNCHANGED vars
  BY <1>1 DEF vars
<1>2. CASE ~Losing /\ Next
  <2>1. ~Losing
    BY <1>2
  <2>2. CASE RequireBranch \/ ObserveRiskFails
    <3>1. Persist(run, "other")
      BY <2>2 DEF RequireBranch, ObserveRiskFails
    <3> QED
      BY <3>1, PersistedLasts
  <2>3. CASE RequireCleanWorkspace \/ ReadinessLost \/ RefuseImpactAssessment
    <3>1. Steady /\ Persist(Replace(run, Reobserved), "other")
      BY <2>3 DEF RequireCleanWorkspace, Reviewed, Plain, ReadinessLost, Settled, RefuseImpactAssessment
    <3> QED
      BY <2>1, <3>1, ReobservedStep
  <2>4. CASE RequestRepair
    BY <2>1, <2>4, RequestStep DEF RequestRepair, Plain, Settled
  <2>5. ASSUME NEW outcome \in {"unobserved", "unsandboxed", "focused"}, NewCandidate(outcome)
        PROVE  Lasts(run')
    BY <2>1, <2>5, NewCandidateStep
  <2>6. CASE Escalate
    BY <2>1, <2>6, EscalationStep
  <2>7. ASSUME NEW axes \in SUBSET ReviewAxes, NEW findings,
               ExecuteReviews(axes, findings) \/ SupplyReviews(axes, findings)
        PROVE  Lasts(run')
    <3> DEFINE c == WithReviews(Reobserved, axes, findings)
    <3>1. Settled /\ (Persist(Replace(run, c), "review") \/ Persist(Asking(c), "review"))
      BY <2>7 DEF ExecuteReviews, SupplyReviews, Plain
    <3> QED
      BY <2>1, <3>1, ReviewsStep
  <2>8. ASSUME NEW bs, NEW findings, ExecuteSpecialists(bs, findings) \/ SupplySpecialists(bs, findings)
        PROVE  Lasts(run')
    <3> DEFINE c == WithSpecialists(Reobserved, bs, findings)
    <3>1. Steady /\ (Persist(Replace(run, c), "other") \/ Persist(Asking(c), "other"))
      BY <2>8 DEF ExecuteSpecialists, SupplySpecialists, Plain, Settled
    <3> QED
      BY <2>1, <3>1, SpecialistsStep
  <2>9. ASSUME NEW valid, ProveBoundaries(valid)
        PROVE  Lasts(run')
    BY <2>1, <2>9, ProofsStep
  <2>10. ASSUME NEW valid, NEW unchanged, Conclude(valid, unchanged)
         PROVE  Lasts(run')
    BY <2>1, <2>10, ConcludeStep
  <2>11. ASSUME NEW accepted, NEW class, ApplyRepair(accepted, class)
         PROVE  Lasts(run')
    BY <2>11, AdjudicationStep
  <2>12. ASSUME NEW fresh \in {{"standards"}, ReviewAxes}, NEW specialists,
                AdmitImpactAssessment(fresh, specialists)
         PROVE  Lasts(run')
    <3>1. "standards" \in fresh
      BY DEF ReviewAxes
    <3> QED
      BY <2>1, <2>12, <3>1, AssessmentStep
  <2>13. ASSUME NEW accepted \in BOOLEAN, AdmitImpactConfirmation(accepted)
         PROVE  Lasts(run')
    BY <2>1, <2>13, ConfirmationStep
  <2>14. CASE CandidateFailsCI
    BY <2>1, <2>14, FailureStep
  <2>15. CASE run' = run
    BY <2>15
  <2>16. CASE PlainAdvance
    BY <2>16, <2>2, <2>3, <2>4, <2>5, <2>6, <2>7, <2>8, <2>9, <2>10 DEF PlainAdvance
  <2>17. CASE OtherAdvance
    BY <2>17, <2>2, <2>3, <2>5, <2>7, <2>8, <2>9, <2>10, <2>11, <2>12, <2>13 DEF OtherAdvance
  <2>18. CASE Environment
    <3>1. CandidateFailsCI \/ run' = run
      BY <2>18 DEF Environment, Develop, SwitchBranch, TouchWorkspace, Reclassify, UNCHANGEDRun
    <3> QED
      BY <3>1, <2>14, <2>15
  <2> QED
    BY <1>2, <2>16, <2>17, <2>18 DEF Next
<1> QED
  BY <1>1, <1>2

\* A record in which nothing was lost keeps its types and can be loaded again, after any history
\* of observations, reviews, decisions, repairs, escalations and derivations: the steps that Losing
\* names are all there is to what a load may refuse.
THEOREM RecordLoads == Spec /\ [][~Losing]_vars => []RecordResumes
<1>1. KInv => RecordResumes
  <2> SUFFICES ASSUME TInv, Lasts(run)
               PROVE  RecordResumes
    BY DEF KInv
  <2>1. TypeOK /\ RunSafe(run) /\ loads = Decodable(run)
    BY DEF TInv, IInv
  <2>2. Decodable(run)
    BY <2>1, Loading
  <2> QED
    BY <2>1, <2>2 DEF RecordResumes
<1>2. Spec /\ [][~Losing]_vars => []KInv
  BY InitLasts, NextLasts, PTL DEF Spec
<1> QED
  BY <1>1, <1>2, PTL

-------------------------------------------------------------------------------
(* Ranks and timings *)

\* A rank counts: it is positive in its own set and at most the size of the set.
LEMMA Ranking ==
    ASSUME NEW S \in SUBSET Nat, IsFiniteSet(S), NEW x \in Nat
    PROVE  Rank(S, x) \in Nat /\ Rank(S, x) <= Cardinality(S) /\ Cardinality(S) \in Nat
<1> DEFINE T == {y \in S : y <= x}
<1>1. T \in SUBSET S
  OBVIOUS
<1>2. IsFiniteSet(T) /\ Cardinality(T) <= Cardinality(S)
  BY <1>1, FS_Subset
<1> QED
  BY <1>2, FS_CardinalityType DEF Rank

\* A greater element has a greater rank.
LEMMA RankGreater ==
    ASSUME NEW S \in SUBSET Nat, IsFiniteSet(S), NEW x \in S, NEW y \in S, x < y
    PROVE  Rank(S, x) < Rank(S, y)
<1> DEFINE T == {z \in S : z <= x}
           U == {z \in S : z <= y}
<1>0. x \in Nat /\ y \in Nat /\ \A z \in S : z \in Nat
  OBVIOUS
<1>1. T \in SUBSET U /\ U \in SUBSET S /\ y \in U /\ y \notin T
  <2>1. y <= y /\ ~(y <= x) /\ \A z \in S : z <= x => z <= y
    BY <1>0
  <2> QED
    BY <2>1
<1> HIDE DEF T, U
<1>2. IsFiniteSet(U) /\ IsFiniteSet(T)
  BY <1>1, FS_Subset
<1>3. Cardinality(T) <= Cardinality(U) /\ (Cardinality(U) = Cardinality(T) => U = T)
  BY <1>1, <1>2, FS_Subset
<1>4. Cardinality(T) \in Nat /\ Cardinality(U) \in Nat /\ U # T
  BY <1>1, <1>2, FS_CardinalityType
<1> QED
  BY <1>3, <1>4 DEF Rank, T, U

\* An element beyond the others is the last, and leaves their ranks alone.
LEMMA RankBeyond ==
    ASSUME NEW S \in SUBSET Nat, IsFiniteSet(S), NEW m \in Nat, \A x \in S : x <= m
    PROVE  /\ Rank(S \cup {m}, m) = Cardinality(S \cup {m})
           /\ \A x \in S : x # m => Rank(S \cup {m}, x) = Rank(S, x)
           /\ m \notin S => Cardinality(S \cup {m}) = Cardinality(S) + 1
           /\ IsFiniteSet(S \cup {m})
<1>1. {y \in S \cup {m} : y <= m} = S \cup {m}
  <2>1. \A y \in S \cup {m} : y <= m
    OBVIOUS
  <2> QED
    BY <2>1
<1>2. ASSUME NEW x \in S, x # m
      PROVE  {y \in S \cup {m} : y <= x} = {y \in S : y <= x}
  <2>1. x < m
    BY <1>2
  <2> QED
    BY <2>1
<1> QED
  BY <1>1, <1>2, FS_AddElement DEF Rank

\* The starts up to a timing.
Starts(t, p) == Cardinality({q \in 1..p : t[q] = "start"})

\* The closings of the i-th candidate in a trail.
Ends(t, i) ==
    {p \in 1..Len(t) : t[p] = "review" /\ Starts(t, p) = i /\ (p < Len(t) => t[p + 1] # "review")}

ReviewLast(t) == Len(t) # 0 /\ t[Len(t)] = "review"

LEMMA StartsCounted ==
    ASSUME NEW t, NEW p \in Nat
    PROVE  /\ Starts(t, p) \in Nat
           /\ \A q \in 0..p : Starts(t, q) <= Starts(t, p)
<1> DEFINE S(n) == {q \in 1..n : t[q] = "start"}
<1>1. ASSUME NEW n \in 0..p
      PROVE  S(n) \in SUBSET (1..p) /\ S(n) \in SUBSET S(p)
  OBVIOUS
<1>2. IsFiniteSet(1..p)
  BY FS_Interval
<1>3. IsFiniteSet(S(p)) /\ Cardinality(S(p)) \in Nat
  <2>1. S(p) \in SUBSET (1..p)
    OBVIOUS
  <2> QED
    BY <1>2, <2>1, FS_Subset, FS_CardinalityType
<1>4. ASSUME NEW n \in 0..p
      PROVE  Cardinality(S(n)) <= Cardinality(S(p))
  BY <1>1, <1>3, FS_Subset
<1> QED
  BY <1>3, <1>4 DEF Starts

LEMMA StartsAppended ==
    ASSUME NEW P, NEW t \in Seq(P), NEW x
    PROVE  LET u == Append(t, x)  n == Len(t) IN
           /\ \A p \in 0..n : Starts(u, p) = Starts(t, p)
           /\ Starts(u, n + 1) = Starts(t, n) + (IF x = "start" THEN 1 ELSE 0)
<1> DEFINE u == Append(t, x)
           n == Len(t)
<1>1. n \in Nat /\ u[n + 1] = x /\ \A q \in 1..n : u[q] = t[q]
  OBVIOUS
<1> HIDE DEF u, n
<1>2. ASSUME NEW p \in 0..n
      PROVE  {q \in 1..p : u[q] = "start"} = {q \in 1..p : t[q] = "start"}
  BY <1>1
<1>3. Starts(u, n + 1) = Starts(t, n) + (IF x = "start" THEN 1 ELSE 0)
  <2> DEFINE S == {q \in 1..n : t[q] = "start"}
             T == {q \in 1..(n + 1) : u[q] = "start"}
  <2>1. IsFiniteSet(S) /\ n + 1 \notin S
    <3>1. IsFiniteSet(1..n) /\ S \in SUBSET (1..n)
      BY <1>1, FS_Interval
    <3> QED
      BY <1>1, <3>1, FS_Subset
  <2>2. CASE x = "start"
    <3>1. T = S \cup {n + 1}
      BY <1>1, <2>2
    <3> QED
      BY <2>1, <2>2, <3>1, FS_AddElement DEF Starts
  <2>3. CASE x # "start"
    <3>1. T = S
      BY <1>1, <2>3
    <3>2. Cardinality(S) \in Nat
      BY <2>1, FS_CardinalityType
    <3>3. Starts(u, n + 1) = Cardinality(S) /\ Starts(t, n) = Cardinality(S)
      BY <3>1 DEF Starts
    <3> HIDE DEF S
    <3> QED
      BY <2>3, <3>2, <3>3
  <2> QED
    BY <2>2, <2>3
<1> QED
  BY <1>2, <1>3 DEF Starts, u, n

\* A timing that does not prolong a run of reviews leaves what was closed, and closes itself
\* when it is a review.
LEMMA EndsAppended ==
    ASSUME NEW P, NEW t \in Seq(P), NEW x, x = "review" => ~ReviewLast(t), NEW i
    PROVE  LET u == Append(t, x)  n == Len(t) IN
           Ends(u, i) = Ends(t, i) \cup (IF x = "review" /\ Starts(t, n) = i THEN {n + 1} ELSE {})
<1> DEFINE u == Append(t, x)
           n == Len(t)
<1>1. n \in Nat /\ Len(u) = n + 1 /\ u[n + 1] = x /\ \A q \in 1..n : u[q] = t[q]
  OBVIOUS
<1>2. /\ \A p \in 0..n : Starts(u, p) = Starts(t, p)
      /\ Starts(u, n + 1) = Starts(t, n) + (IF x = "start" THEN 1 ELSE 0)
  BY StartsAppended
<1>3. Starts(t, n) \in Nat
  BY <1>1, StartsCounted
<1> HIDE DEF u, n
<1>4. ASSUME NEW p \in 1..n
      PROVE  p \in Ends(u, i) <=> p \in Ends(t, i)
  <2>1. u[p] = t[p] /\ Starts(u, p) = Starts(t, p)
    BY <1>1, <1>2
  <2>2. CASE p < n
    <3>1. p + 1 \in 1..n /\ p < Len(u)
      BY <1>1, <2>2
    <3>2. u[p + 1] = t[p + 1]
      BY <1>1, <3>1
    <3> QED
      BY <1>1, <2>1, <2>2, <3>1, <3>2 DEF Ends, n
  <2>3. CASE p = n
    <3>1. t[p] = "review" => x # "review"
      BY <1>1, <2>3 DEF ReviewLast, n
    <3> QED
      BY <1>1, <2>1, <2>3, <3>1 DEF Ends, n
  <2> QED
    BY <1>1, <2>2, <2>3
<1>5. n + 1 \in Ends(u, i) <=> x = "review" /\ Starts(t, n) = i
  BY <1>1, <1>2, <1>3 DEF Ends
<1>6. Ends(u, i) \subseteq 1..(n + 1) /\ Ends(t, i) \subseteq 1..n
  BY <1>1 DEF Ends, n
<1> QED
  BY <1>1, <1>4, <1>5, <1>6 DEF u, n

LEMMA EndsFinite ==
    ASSUME NEW P, NEW t \in Seq(P), NEW i
    PROVE  IsFiniteSet(Ends(t, i)) /\ Ends(t, i) \in SUBSET Nat /\ Ends(t, i) \subseteq 1..Len(t)
<1>1. Len(t) \in Nat /\ Ends(t, i) \in SUBSET (1..Len(t))
  BY DEF Ends
<1>2. IsFiniteSet(1..Len(t)) /\ 1..Len(t) \in SUBSET Nat
  BY <1>1, FS_Interval
<1> QED
  BY <1>1, <1>2, FS_Subset

\* With as many starts as candidates, a timing belongs to the candidate that started last.
LEMMA OwnersCounted ==
    ASSUME NEW r, NEW P, r.trail \in Seq(P), Starts(r.trail, Len(r.trail)) = Len(r.cands)
    PROVE  /\ \A p \in 1..Len(r.trail) : Owner(r, p) = Starts(r.trail, p)
           /\ \A i : Closings(r, i) = Ends(r.trail, i)
<1> DEFINE t == r.trail
<1>1. Len(t) \in Nat /\ DOMAIN t = 1..Len(t)
  OBVIOUS
<1>2. ASSUME NEW p \in 1..Len(t)
      PROVE  Owner(r, p) = Starts(t, p)
  <2>1. Starts(t, p) \in Nat /\ Starts(t, Len(t)) \in Nat /\ Starts(t, p) <= Starts(t, Len(t))
    BY <1>1, StartsCounted
  <2> QED
    BY <2>1 DEF Owner, Starts
<1> QED
  BY <1>1, <1>2 DEF Closings, Ends

-------------------------------------------------------------------------------
(* Review rounds and their timings *)

\* The batches of the i-th candidate, c, name their closings in the trail t by rank; a round
\* without a batch is the current one and not complete; and each round has its closing, and
\* so has an attempt at the current one that nobody answered.
Round(t, i, c) ==
    LET K == Ends(t, i)  I == Iterations(c) IN
    /\ \A b \in c.batches :
          /\ b.iteration \in I /\ b.closing \in K /\ Rank(K, b.closing) = Rank(I, b.iteration)
          /\ b.axes \subseteq {v.axis : v \in {w \in c.reviews : w.iteration = b.iteration}}
    /\ \A n \in I : BatchOf(c, n) # {} \/ (n = c.iteration /\ ~FullBatch(c, n))
    /\ \/ Cardinality(K) = Cardinality(I)
       \/ Cardinality(K) = Cardinality(I) + 1 /\ c.iteration \notin I

\* Nothing is open behind complete reviews, unless it is asked for.
Asked(c, pending) ==
    /\ c.derivation.status = "unconfirmed" => c.derivation.fresh = ReviewAxes
    /\ pending = {} /\ missingReviewAxes(c) = {} => Unresolved(c) = {}

\* The last timing of an incomplete round, or of an attempt at it, is its closing.
Paced(t, i, c) ==
    LET K == Ends(t, i)  I == Iterations(c) IN
    IF ReviewLast(t) /\ BatchOf(c, c.iteration) = {}
    THEN Cardinality(K) = Cardinality(I \cup {c.iteration})
    ELSE Cardinality(K) = Cardinality(I) /\ (c.iteration \in I => BatchOf(c, c.iteration) # {})

Tidy(r) ==
    /\ Starts(r.trail, Len(r.trail)) = Len(r.cands)
    /\ \A i \in 1..Len(r.cands) : Round(r.trail, i, r.cands[i])
    /\ Len(r.cands) # 0 =>
          /\ Asked(Latest(r), r.pending) /\ Paced(r.trail, Len(r.cands), Latest(r))
          /\ ReviewLast(r.trail) =>
                (Len(r.trail) \in Recorded(r) <=> BatchOf(Latest(r), Latest(r).iteration) # {})

\* What is said of a round depends on these fields alone.
LEMMA RoundAlike ==
    ASSUME NEW t, NEW i, NEW d, NEW c, c.iteration = d.iteration, c.reviews = d.reviews,
           c.batches = d.batches, c.derivation = d.derivation
    PROVE  /\ Round(t, i, d) => Round(t, i, c)
           /\ Paced(t, i, d) => Paced(t, i, c)
           /\ Iterations(c) = Iterations(d) /\ missingReviewAxes(c) = missingReviewAxes(d)
           /\ \A n : BatchOf(c, n) = BatchOf(d, n)
<1>1. Iterations(c) = Iterations(d) /\ \A n : BatchOf(c, n) = BatchOf(d, n)
  BY DEF Iterations, BatchOf
<1>2. FreshAxes(c) = FreshAxes(d) /\ RetainedAxes(c) = RetainedAxes(d)
  BY DEF FreshAxes, RetainedAxes
<1>3. missingReviewAxes(c) = missingReviewAxes(d)
  BY <1>2 DEF missingReviewAxes, CurrentAxes
<1>4. \A n : FullBatch(c, n) <=> FullBatch(d, n)
  BY <1>1, <1>2 DEF FullBatch
<1>5. Round(t, i, d) => Round(t, i, c)
  BY <1>1, <1>4 DEF Round
<1>6. Paced(t, i, d) => Paced(t, i, c)
  BY <1>1 DEF Paced
<1> QED
  BY <1>1, <1>3, <1>5, <1>6

\* A batch is complete.
LEMMA BatchFull ==
    ASSUME NEW t, NEW i, NEW c, Round(t, i, c), NEW n, BatchOf(c, n) # {}
    PROVE  FullBatch(c, n)
<1>1. \A b \in BatchOf(c, n) : b.axes \subseteq {v.axis : v \in {w \in c.reviews : w.iteration = n}}
  BY DEF Round, BatchOf
<1> QED
  BY <1>1 DEF FullBatch

\* Such a candidate can be projected, and gets no batch.
LEMMA RoundFits ==
    ASSUME NEW r, NEW i, Closings(r, i) = Ends(r.trail, i), Round(r.trail, i, r.cands[i]),
           DOMAIN r.cands[i] = CandidateFields
    PROVE  /\ CandidateProjectable(r, i)
           /\ \A f \in CandidateFields : Batched(r, i)[f] = r.cands[i][f]
<1> DEFINE c == r.cands[i]
           K == Ends(r.trail, i)
           I == Iterations(c)
           full == {n \in I : BatchOf(c, n) = {} /\ FullBatch(c, n)}
           new == {[iteration |-> n, axes |-> FreshAxes(c),
                    closing |-> CHOOSE p \in ClosingOf(r, i, n) : TRUE] : n \in full}
<1>1. \A n \in I : BatchOf(c, n) # {} \/ (n = c.iteration /\ ~FullBatch(c, n))
  BY DEF Round
<1>2. \A n : \A b \in BatchOf(c, n) : b.closing \in ClosingOf(r, i, n)
  BY DEF Round, BatchOf, ClosingOf
<1>3. \A n : BatchOf(c, n) # {} => FullBatch(c, n)
  BY BatchFull
<1>4. \/ Cardinality(K) = Cardinality(I)
      \/ Cardinality(K) = Cardinality(I) + 1 /\ c.iteration \notin I
  BY DEF Round
<1>5. CandidateProjectable(r, i)
  BY <1>1, <1>2, <1>3, <1>4 DEF CandidateProjectable
<1>6. new = {}
  BY <1>1
<1>7. Batched(r, i) = [c EXCEPT !.batches = c.batches \cup new]
  BY DEF Batched
<1> HIDE DEF c, new
<1>8. \A f \in CandidateFields : Batched(r, i)[f] = c[f]
  BY <1>6, <1>7 DEF c
<1> QED
  BY <1>5, <1>8 DEF c

\* The phases recorded so far keep their owners.
LEMMA PhasesStay ==
    ASSUME TInv, Tidy(run), NEW r,
           r.trail = run.trail \/ \E x : r.trail = Append(run.trail, x),
           Starts(r.trail, Len(r.trail)) = Len(r.cands)
    PROVE  PhasesKept(r) /\ \A i : Closings(r, i) = Ends(r.trail, i)
<1> DEFINE t == run.trail
           P == {t[q] : q \in 1..Len(t)}
<1>1. t \in Seq({"start", "review", "other"})
  BY RunType DEF TInv, RunTyped
<1>2. Len(t) \in Nat /\ DOMAIN t = 1..Len(t) /\ t \in Seq(P)
  BY <1>1
<1>3. \A p \in 1..Len(t) : Owner(run, p) = Starts(t, p)
  BY <1>2, OwnersCounted DEF Tidy
<1>4. CASE r.trail = t
  <2>1. \A p \in 1..Len(t) : Owner(r, p) = Starts(t, p)
    BY <1>2, <1>4, OwnersCounted
  <2>2. \A i : Closings(r, i) = Ends(r.trail, i)
    BY <1>2, <1>4, OwnersCounted
  <2> QED
    BY <1>2, <1>3, <2>1, <2>2 DEF PhasesKept
<1>5. ASSUME NEW x, r.trail = Append(t, x)
      PROVE  PhasesKept(r) /\ \A i : Closings(r, i) = Ends(r.trail, i)
  <2> DEFINE Q == P \cup {x}
  <2>1. r.trail \in Seq(Q) /\ Len(r.trail) = Len(t) + 1
    BY <1>2, <1>5
  <2>2. /\ \A p \in 1..Len(r.trail) : Owner(r, p) = Starts(r.trail, p)
        /\ \A i : Closings(r, i) = Ends(r.trail, i)
    BY <2>1, OwnersCounted
  <2>3. \A p \in 0..Len(t) : Starts(r.trail, p) = Starts(t, p)
    BY <1>2, <1>5, StartsAppended
  <2> QED
    BY <1>2, <1>3, <2>1, <2>2, <2>3 DEF PhasesKept
<1> QED
  BY <1>4, <1>5

\* Two records that agree in these fields.
LEMMA TidySame ==
    ASSUME NEW r, Tidy(r), Len(r.cands) \in Nat, NEW u, u.trail = r.trail, u.pending = r.pending,
           Len(u.cands) = Len(r.cands), DOMAIN u.cands = DOMAIN r.cands,
           DOMAIN r.cands = 1..Len(r.cands),
           \A i \in 1..Len(r.cands), f \in CandidateFields : u.cands[i][f] = r.cands[i][f]
    PROVE  Tidy(u)
<1> DEFINE n == Len(r.cands)
<1>1. ASSUME NEW i \in 1..n
      PROVE  /\ u.cands[i].iteration = r.cands[i].iteration /\ u.cands[i].reviews = r.cands[i].reviews
             /\ u.cands[i].batches = r.cands[i].batches
             /\ u.cands[i].derivation = r.cands[i].derivation
             /\ u.cands[i].specialistReviews = r.cands[i].specialistReviews
             /\ u.cands[i].accepted = r.cands[i].accepted /\ u.cands[i].rejected = r.cands[i].rejected
  BY DEF CandidateFields
<1>2. ASSUME NEW i \in 1..n
      PROVE  Round(u.trail, i, u.cands[i])
  <2>1. Round(u.trail, i, r.cands[i])
    BY DEF Tidy
  <2> QED
    BY <1>1, <2>1, RoundAlike
<1>3. Recorded(u) = Recorded(r)
  BY <1>1 DEF Recorded
<1>4. CASE n # 0
  <2> DEFINE d == Latest(r)
             c == Latest(u)
  <2>1. n \in 1..n /\ d = r.cands[n] /\ c = u.cands[n]
    BY <1>4 DEF Latest
  <2>2. /\ c.iteration = d.iteration /\ c.reviews = d.reviews /\ c.batches = d.batches
        /\ c.derivation = d.derivation /\ c.specialistReviews = d.specialistReviews
        /\ c.accepted = d.accepted /\ c.rejected = d.rejected
    BY <1>1, <2>1
  <2> HIDE DEF c, d
  <2>3. /\ Paced(u.trail, n, d) => Paced(u.trail, n, c)
        /\ missingReviewAxes(c) = missingReviewAxes(d) /\ \A m : BatchOf(c, m) = BatchOf(d, m)
    BY <2>2, RoundAlike
  <2>4. Unresolved(c) = Unresolved(d)
    BY <2>2 DEF Unresolved, Findings
  <2>5. Asked(d, r.pending) => Asked(c, u.pending)
    BY <2>2, <2>3, <2>4 DEF Asked
  <2> QED
    BY <1>2, <1>3, <1>4, <2>2, <2>3, <2>5 DEF Tidy, c, d
<1> QED
  BY <1>2, <1>4 DEF Tidy

\* A record whose rounds fit is projected as it is.
LEMMA ProjectedTidy ==
    ASSUME NEW r, Tidy(r), DOMAIN r = RunFields, Len(r.cands) \in Nat, DOMAIN r.cands = 1..Len(r.cands),
           \A i \in 1..Len(r.cands) : DOMAIN r.cands[i] = CandidateFields,
           \A i : Closings(r, i) = Ends(r.trail, i)
    PROVE  /\ Tidy(Projected(r)) /\ Projected(r).trail = r.trail
           /\ Len(Projected(r).cands) = Len(r.cands)
           /\ \A i \in DOMAIN r.cands : CandidateProjectable(r, i)
<1> DEFINE n == Len(r.cands)
           t == Projected(r)
           cands == [i \in DOMAIN r.cands |-> Batched(r, i)]
<1>1. ASSUME NEW i \in 1..n
      PROVE  /\ CandidateProjectable(r, i)
             /\ \A f \in CandidateFields : Batched(r, i)[f] = r.cands[i][f]
  <2>1. Round(r.trail, i, r.cands[i])
    BY DEF Tidy
  <2> QED
    BY <2>1, RoundFits
<1>2. t.cands = cands /\ t.trail = r.trail /\ t.pending = r.pending
  BY DEF Projected, RunFields
<1>3. DOMAIN t.cands = 1..n /\ Len(t.cands) = n /\ \A i \in 1..n : t.cands[i] = Batched(r, i)
  <2> DEFINE S == {Batched(r, i) : i \in 1..n}
  <2>1. cands \in [1..n -> S]
    OBVIOUS
  <2>2. Len(cands) = n
    BY <2>1, SequenceOf
  <2> QED
    BY <1>2, <2>2
<1> HIDE DEF t
<1>4. Tidy(t)
  BY <1>1, <1>2, <1>3, TidySame
<1> QED
  BY <1>1, <1>2, <1>3, <1>4 DEF t

-------------------------------------------------------------------------------
(* Steps without a review *)

\* Every round has its closing, and its batch.
Evenly(t, i, c) ==
    /\ Cardinality(Ends(t, i)) = Cardinality(Iterations(c))
    /\ c.iteration \in Iterations(c) => BatchOf(c, c.iteration) # {}

\* What is said of a round depends on the closings of its candidate.
LEMMA RoundMoved ==
    ASSUME NEW t, NEW u, NEW i, Ends(u, i) = Ends(t, i), NEW c
    PROVE  (Round(t, i, c) => Round(u, i, c)) /\ (Evenly(t, i, c) => Evenly(u, i, c))
  BY DEF Round, Evenly

\* Unless a round is halfway, it is closed.
LEMMA Even ==
    ASSUME Tidy(run), run.trail \in Seq({"start", "review", "other"}), Len(run.cands) # 0, ~Halfway
    PROVE  Evenly(run.trail, Len(run.cands), Latest(run))
<1> DEFINE o == Latest(run)
           n == Len(run.cands)
<1>1. Paced(run.trail, n, o)
  BY DEF Tidy
<1>2. ReviewLast(run.trail) => BatchOf(o, o.iteration) # {}
  <2> SUFFICES ASSUME ReviewLast(run.trail)
               PROVE  BatchOf(o, o.iteration) # {}
    OBVIOUS
  <2>1. Len(run.trail) \in Recorded(run)
    BY DEF ReviewLast, Halfway
  <2> QED
    BY <2>1 DEF Tidy
<1> QED
  BY <1>1, <1>2 DEF Paced, Evenly

\* A draft of the same candidates, with the batches and the rounds they have.
LEMMA OtherPersisted ==
    ASSUME TInv, Tidy(run), ~Crossing,
           NEW draft, DOMAIN draft = RunFields, draft.trail = run.trail,
           Len(draft.cands) = Len(run.cands), DOMAIN draft.cands = 1..Len(run.cands),
           \A i \in 1..Len(run.cands) : /\ DOMAIN draft.cands[i] = CandidateFields
                                        /\ Round(run.trail, i, draft.cands[i]),
           Len(run.cands) # 0 /\ ~Halfway => Evenly(run.trail, Len(run.cands), Latest(draft)),
           Persist(draft, "other"),
           Len(run.cands) # 0 /\ run' = Projected(Stamp(draft, "other")) =>
             Asked(Latest(draft), draft.pending)
    PROVE  Tidy(run') /\ refused' # "timing"
<1> DEFINE n == Len(run.cands)
           t == run.trail
           r == Stamp(draft, "other")
<1>1. n \in Nat /\ t \in Seq({"start", "review", "other"})
  BY RunTypedFacts, RunType DEF TInv, RunTyped
<1>2. Len(t) \in Nat /\ (t = <<>> <=> Len(t) = 0)
  BY <1>1
<1>3. \/ ~ReviewLast(t) /\ r = draft
      \/ ReviewLast(t) /\ r = [draft EXCEPT !.trail = Append(t, "other")]
  BY <1>2 DEF Stamp, ReviewLast
<1> HIDE DEF r
<1>4. /\ DOMAIN r = RunFields /\ r.cands = draft.cands /\ r.pending = draft.pending
      /\ \/ ~ReviewLast(t) /\ r.trail = t
         \/ ReviewLast(t) /\ r.trail = Append(t, "other")
  BY <1>3 DEF RunFields
<1>5. ~ReviewLast(r.trail) /\ (r.trail # t => ReviewLast(t)) /\ (r.trail = t => ~ReviewLast(t))
  <2>1. Len(Append(t, "other")) = Len(t) + 1 /\ Append(t, "other")[Len(t) + 1] = "other"
    BY <1>1
  <2> HIDE DEF t
  <2>2. ~ReviewLast(Append(t, "other"))
    BY <2>1 DEF ReviewLast
  <2> QED
    BY <1>4, <2>2
<1>6. Starts(r.trail, Len(r.trail)) = n /\ \A i : Ends(r.trail, i) = Ends(t, i)
  <2>1. Starts(t, Len(t)) = n
    BY DEF Tidy
  <2>2. CASE r.trail = t
    BY <2>1, <2>2
  <2>3. CASE r.trail = Append(t, "other")
    <3>1. Len(r.trail) = Len(t) + 1
      BY <1>1, <2>3
    <3>2. Starts(t, Len(t)) \in Nat
      BY <1>2, StartsCounted
    <3>3. Starts(r.trail, Len(t) + 1) = Starts(t, Len(t)) + 0
      BY <1>1, <2>3, StartsAppended
    <3>4. ASSUME NEW i
          PROVE  Ends(r.trail, i) = Ends(t, i)
      <4>1. "other" = "review" => ~ReviewLast(t)
        OBVIOUS
      <4> HIDE DEF t
      <4>2. Ends(Append(t, "other"), i) = Ends(t, i) \cup {}
        BY <1>1, <4>1, EndsAppended
      <4> QED
        BY <2>3, <4>2
    <3> QED
      BY <2>1, <3>1, <3>2, <3>3, <3>4
  <2> QED
    BY <1>4, <2>2, <2>3
<1>7. ASSUME NEW i \in 1..n
      PROVE  Round(r.trail, i, r.cands[i])
  BY <1>4, <1>6, <1>7, RoundMoved
<1>8. PhasesKept(r) /\ \A i : Closings(r, i) = Ends(r.trail, i)
  <2>1. r.trail = t \/ \E x : r.trail = Append(t, x)
    BY <1>4
  <2> QED
    BY <1>4, <1>6, <2>1, PhasesStay
<1>9. Timed(r)
  <2>1. ASSUME NEW i \in 1..n
        PROVE  CandidateProjectable(r, i)
    BY <1>4, <1>7, <1>8, RoundFits
  <2> QED
    BY <1>4, <1>8, <2>1 DEF Timed
<1>10. refused' # "timing" /\ (run' = Projected(r) \/ run' = run)
  BY <1>9 DEF Persist, r
<1>11. CASE run' = Projected(r)
  <2>1. n # 0 => Asked(Latest(r), r.pending)
    BY <1>4, <1>11 DEF r, Latest
  <2>2. Projected(r).trail = r.trail /\ Len(Projected(r).cands) = n
    <3> DEFINE cands == [i \in DOMAIN r.cands |-> Batched(r, i)]
               S == {Batched(r, i) : i \in 1..n}
    <3>1. Projected(r).trail = r.trail /\ Projected(r).cands = cands
      BY <1>4 DEF Projected, RunFields
    <3>2. cands \in [1..n -> S]
      BY <1>4
    <3>3. Len(cands) = n
      BY <1>1, <3>2, SequenceOf
    <3> QED
      BY <3>1, <3>3
  <2>3. ~Halfway
    <3>1. r.trail # t => ~Halfway
      BY <1>11, <2>2 DEF Crossing
    <3>2. r.trail = t => ~Halfway
      BY <1>2, <1>5 DEF Halfway, ReviewLast
    <3> QED
      BY <3>1, <3>2
  <2>4. n # 0 => Evenly(r.trail, n, Latest(r))
    <3>1. n # 0 => Evenly(t, n, Latest(draft))
      BY <2>3
    <3> QED
      BY <1>4, <1>6, <3>1, RoundMoved DEF Latest
  <2>5. Tidy(r)
    <3>1. n # 0 => Paced(r.trail, n, Latest(r))
      BY <1>5, <2>4 DEF Paced, Evenly
    <3> QED
      BY <1>4, <1>5, <1>6, <1>7, <2>1, <3>1 DEF Tidy
  <2>6. \A i \in 1..n : DOMAIN r.cands[i] = CandidateFields
    BY <1>4
  <2> QED
    BY <1>1, <1>4, <1>8, <1>10, <1>11, <2>5, <2>6, ProjectedTidy
<1>12. CASE run' = run
  <2>1. Tidy(run')
    BY <1>12
  <2> QED
    BY <1>10, <2>1
<1> QED
  BY <1>10, <1>11, <1>12

\* Another candidate in the place of the latest, with the rounds it has.
LEMMA RoundReplaced ==
    ASSUME TInv, Lasts(run), Tidy(run), ~Crossing, run.cands # <<>>,
           NEW c, DOMAIN c = CandidateFields, Round(run.trail, Len(run.cands), c),
           ~Halfway => Evenly(run.trail, Len(run.cands), c),
           NEW draft, DOMAIN draft = RunFields, draft.trail = run.trail,
           draft.cands = Replace(run, c).cands, Persist(draft, "other"),
           run' = Projected(Stamp(draft, "other")) => Asked(c, draft.pending)
    PROVE  Tidy(run') /\ refused' # "timing"
<1> DEFINE n == Len(run.cands)
<1>1. n \in Nat /\ n # 0 /\ n \in 1..n /\ DOMAIN run = RunFields /\ DOMAIN run.cands = 1..n
  BY ReobservedLasts DEF Lasts
<1>2. draft.cands = [run.cands EXCEPT ![n] = c]
  BY <1>1 DEF Replace, RunFields
<1>3. /\ DOMAIN draft.cands = 1..n /\ draft.cands[n] = c
      /\ \A i \in 1..n : i # n => draft.cands[i] = run.cands[i]
  BY <1>1, <1>2
<1>4. Len(draft.cands) = n
  <2> DEFINE S == {draft.cands[i] : i \in 1..n}
  <2>1. draft.cands = [i \in 1..n |-> draft.cands[i]]
    BY <1>2, <1>3
  <2>2. \A i \in 1..n : draft.cands[i] \in S
    OBVIOUS
  <2> HIDE DEF S
  <2>3. draft.cands \in [1..n -> S]
    BY <2>1, <2>2
  <2> QED
    BY <1>1, <2>3, SequenceOf
<1>5. Latest(draft) = c
  BY <1>3, <1>4 DEF Latest
<1>6. ASSUME NEW i \in 1..n
      PROVE  DOMAIN draft.cands[i] = CandidateFields /\ Round(run.trail, i, draft.cands[i])
  <2>1. CASE i = n
    BY <1>3, <2>1
  <2>2. CASE i # n
    <3>1. draft.cands[i] = run.cands[i]
      BY <1>3, <2>2
    <3>2. Round(run.trail, i, run.cands[i]) /\ Lasting(run.cands[i])
      BY DEF Tidy, Lasts
    <3> QED
      BY <3>1, <3>2 DEF Lasting
  <2> QED
    BY <2>1, <2>2
<1> QED
  BY <1>1, <1>3, <1>4, <1>5, <1>6, OtherPersisted

\* ... because nothing of them changed.
LEMMA RoundKept ==
    ASSUME TInv, Lasts(run), Tidy(run), ~Crossing, run.cands # <<>>,
           NEW c, DOMAIN c = CandidateFields, c.iteration = Latest(run).iteration,
           c.reviews = Latest(run).reviews, c.batches = Latest(run).batches,
           c.derivation = Latest(run).derivation,
           NEW draft, DOMAIN draft = RunFields, draft.trail = run.trail,
           draft.cands = Replace(run, c).cands, Persist(draft, "other"),
           run' = Projected(Stamp(draft, "other")) =>
             (draft.pending = {} /\ missingReviewAxes(c) = {} => Unresolved(c) = {})
    PROVE  Tidy(run') /\ refused' # "timing"
<1> DEFINE o == Latest(run)
           n == Len(run.cands)
<1>1. n # 0 /\ n \in 1..n /\ o = run.cands[n] /\ run.trail \in Seq({"start", "review", "other"})
  BY ReobservedLasts, RunType DEF TInv, RunTyped
<1>2. Round(run.trail, n, o) /\ Asked(o, run.pending)
  BY <1>1 DEF Tidy
<1>3. ~Halfway => Evenly(run.trail, n, o)
  BY <1>1, Even
<1> HIDE DEF o, n
<1>4. /\ c.iteration = o.iteration /\ c.reviews = o.reviews /\ c.batches = o.batches
      /\ c.derivation = o.derivation
  BY DEF o
<1> HIDE DEF n
<1>5. Round(run.trail, n, c) /\ Iterations(c) = Iterations(o) /\ \A m : BatchOf(c, m) = BatchOf(o, m)
  BY <1>2, <1>4, RoundAlike
<1>6. ~Halfway => Evenly(run.trail, n, c)
  BY <1>3, <1>4, <1>5 DEF Evenly
<1>7. run' = Projected(Stamp(draft, "other")) => Asked(c, draft.pending)
  BY <1>2, <1>4 DEF Asked
<1> QED
  BY <1>5, <1>6, <1>7, RoundReplaced DEF n

\* The record as it is.
LEMMA NothingDone ==
    ASSUME TInv, Lasts(run), Tidy(run), ~Crossing, Persist(run, "other")
    PROVE  Tidy(run') /\ refused' # "timing"
<1>1. run.trail \in Seq({"start", "review", "other"})
  BY RunType DEF TInv, RunTyped
<1>2. Len(run.cands) # 0 /\ ~Halfway => Evenly(run.trail, Len(run.cands), Latest(run))
  BY <1>1, Even
<1>3. /\ DOMAIN run = RunFields /\ DOMAIN run.cands = 1..Len(run.cands)
      /\ \A i \in 1..Len(run.cands) : /\ DOMAIN run.cands[i] = CandidateFields
                                      /\ Round(run.trail, i, run.cands[i])
  BY DEF Lasts, Lasting, Tidy
<1>4. Len(run.cands) # 0 => Asked(Latest(run), run.pending)
  BY DEF Tidy
<1> QED
  BY <1>2, <1>3, <1>4, OtherPersisted

\* The candidate as observed again, with proofs or a validation.
LEMMA ObservedRounds ==
    ASSUME TInv, Lasts(run), Tidy(run), ~Crossing, Steady,
           NEW c, DOMAIN c = CandidateFields,
           \A f \in CandidateFields \ {"proofs", "exhaustive"} : c[f] = Reobserved[f],
           NEW draft, DOMAIN draft = RunFields, draft.trail = run.trail, draft.pending = run.pending,
           draft.cands = Replace(run, c).cands, Persist(draft, "other")
    PROVE  Tidy(run') /\ refused' # "timing"
<1> DEFINE p == Reobserved
           o == Latest(run)
<1>1. run.cands # <<>> /\ Len(run.cands) # 0 /\ run.pending = {}
  BY SteadyLasts
<1>2. /\ \A f \in CandidateFields \ {"class", "effects", "exposure", "specialists"} : p[f] = o[f]
      /\ Unresolved(p) = Unresolved(o)
  BY <1>1, ReobservedLasts
<1>3. Asked(o, {})
  BY <1>1 DEF Tidy
<1> HIDE DEF p, o
<1>4. /\ c.iteration = o.iteration /\ c.reviews = o.reviews /\ c.batches = o.batches
      /\ c.derivation = o.derivation /\ c.specialistReviews = o.specialistReviews
      /\ c.accepted = o.accepted /\ c.rejected = o.rejected
  BY <1>2 DEF CandidateFields, p
<1>5. missingReviewAxes(c) = missingReviewAxes(o) /\ Unresolved(c) = Unresolved(o)
  BY <1>4 DEF missingReviewAxes, RetainedAxes, CurrentAxes, Unresolved, Findings
<1>6. missingReviewAxes(c) = {} => Unresolved(c) = {}
  BY <1>3, <1>5 DEF Asked
<1> QED
  BY <1>1, <1>4, <1>6, RoundKept DEF o

\* ... or with nothing else.
LEMMA ReobservedRounds ==
    ASSUME TInv, Lasts(run), Tidy(run), ~Crossing, Steady, Persist(Replace(run, Reobserved), "other")
    PROVE  Tidy(run') /\ refused' # "timing"
<1> DEFINE t == Replace(run, Reobserved)
<1>1. DOMAIN run = RunFields /\ DOMAIN Reobserved = CandidateFields
  BY SteadyLasts DEF Lasting
<1>2. DOMAIN t = RunFields /\ t.trail = run.trail /\ t.pending = run.pending
  BY <1>1, ReplaceFields DEF RunFields
<1> QED
  BY <1>1, <1>2, ObservedRounds

LEMMA ProofsRounds ==
    ASSUME TInv, Lasts(run), Tidy(run), ~Crossing, NEW valid, ProveBoundaries(valid)
    PROVE  Tidy(run') /\ refused' # "timing"
<1> DEFINE p == Reobserved
           c == [p EXCEPT !.proofs = p.proofs \cup missingBoundaryProofs(p)]
           t == Replace(run, c)
<1>1. Steady /\ (Persist(t, "other") \/ Persist(Replace(run, p), "other"))
  BY DEF ProveBoundaries, Reviewed, Plain, Settled
<1>2. DOMAIN run = RunFields /\ DOMAIN p = CandidateFields
  BY <1>1, SteadyLasts DEF Lasting
<1> HIDE DEF p
<1>3. DOMAIN c = CandidateFields /\ \A f \in CandidateFields \ {"proofs", "exhaustive"} : c[f] = p[f]
  BY <1>2 DEF CandidateFields
<1> HIDE DEF c
<1>4. DOMAIN t = RunFields /\ t.trail = run.trail /\ t.pending = run.pending
  BY <1>2, ReplaceFields DEF RunFields
<1>5. CASE Persist(t, "other")
  BY <1>1, <1>3, <1>4, <1>5, ObservedRounds DEF p
<1>6. CASE Persist(Replace(run, p), "other")
  BY <1>1, <1>6, ReobservedRounds DEF p
<1> QED
  BY <1>1, <1>5, <1>6

LEMMA ConcludeRounds ==
    ASSUME TInv, Lasts(run), Tidy(run), ~Crossing, NEW valid, NEW unchanged, Conclude(valid, unchanged)
    PROVE  Tidy(run') /\ refused' # "timing"
<1> DEFINE p == Reobserved
           c == [p EXCEPT !.exhaustive = TRUE]
           t == Replace(run, c)
           u == [t EXCEPT !.ready = unchanged /\ clean]
<1>1. Steady /\ (Persist(u, "other") \/ Persist(Replace(run, p), "other"))
  BY DEF Conclude, Reviewed, Plain, Settled
<1>2. DOMAIN run = RunFields /\ DOMAIN p = CandidateFields
  BY <1>1, SteadyLasts DEF Lasting
<1> HIDE DEF p
<1>3. DOMAIN c = CandidateFields /\ \A f \in CandidateFields \ {"proofs", "exhaustive"} : c[f] = p[f]
  BY <1>2 DEF CandidateFields
<1> HIDE DEF c
<1>4. DOMAIN t = RunFields /\ t.trail = run.trail /\ t.pending = run.pending
  BY <1>2, ReplaceFields DEF RunFields
<1>5. DOMAIN u = RunFields /\ u.trail = run.trail /\ u.pending = run.pending /\ u.cands = t.cands
  BY <1>4 DEF RunFields
<1> HIDE DEF u
<1>6. CASE Persist(u, "other")
  BY <1>1, <1>3, <1>5, <1>6, ObservedRounds DEF p, t
<1>7. CASE Persist(Replace(run, p), "other")
  BY <1>1, <1>7, ReobservedRounds DEF p
<1> QED
  BY <1>1, <1>6, <1>7

LEMMA FailureRounds ==
    ASSUME TInv, Lasts(run), Tidy(run), ~Crossing, CandidateFailsCI
    PROVE  Tidy(run') /\ refused' # "timing"
<1> DEFINE p == Reobserved
           c == [p EXCEPT !.exhaustive = FALSE]
           t == Replace(run, c)
           u == [t EXCEPT !.ready = FALSE, !.failed = TRUE]
<1>1. Steady /\ Persist(u, "other")
  BY DEF CandidateFailsCI, Settled
<1>2. DOMAIN run = RunFields /\ DOMAIN p = CandidateFields
  BY <1>1, SteadyLasts DEF Lasting
<1> HIDE DEF p
<1>3. DOMAIN c = CandidateFields /\ \A f \in CandidateFields \ {"proofs", "exhaustive"} : c[f] = p[f]
  BY <1>2 DEF CandidateFields
<1> HIDE DEF c
<1>4. DOMAIN t = RunFields /\ t.trail = run.trail /\ t.pending = run.pending
  BY <1>2, ReplaceFields DEF RunFields
<1>5. DOMAIN u = RunFields /\ u.trail = run.trail /\ u.pending = run.pending /\ u.cands = t.cands
  BY <1>4 DEF RunFields
<1> HIDE DEF u
<1> QED
  BY <1>1, <1>3, <1>5, ObservedRounds DEF p, t

\* Specialists answer, all of them or without a finding.
LEMMA SpecialistsRounds ==
    ASSUME TInv, Lasts(run), Tidy(run), ~Crossing,
           NEW bs \in SUBSET Boundaries, NEW findings \in SUBSET bs,
           ExecuteSpecialists(bs, findings) \/ SupplySpecialists(bs, findings)
    PROVE  Tidy(run') /\ refused' # "timing"
<1> DEFINE p == Reobserved
           o == Latest(run)
           n == Len(run.cands)
           c == WithSpecialists(p, bs, findings)
           t == Replace(run, c)
           u == [t EXCEPT !.pending = Unresolved(c)]
<1>1. Steady /\ (Persist(t, "other") \/ Persist(Asking(c), "other"))
  BY DEF ExecuteSpecialists, SupplySpecialists, Plain, Settled
<1>2. /\ run.cands # <<>> /\ n \in Nat /\ n # 0 /\ DOMAIN run = RunFields
      /\ Lasting(p) /\ \A f \in CandidateFields \ {"class", "effects", "exposure", "specialists"} : p[f] = o[f]
  BY <1>1, SteadyLasts, ReobservedLasts
<1>3. Unresolved(Latest(run')) # {} => run'.pending # {}
  BY DEF Crossing
<1> HIDE DEF p, o
<1>4. DOMAIN c = CandidateFields /\ \A f \in CandidateFields \ {"specialistReviews"} : c[f] = p[f]
  <2>1. Lasting(c) /\ \A f \in CandidateFields \ {"specialistReviews"} : c[f] = p[f]
    BY <1>2, WithSpecialistsLasts
  <2> QED
    BY <2>1 DEF Lasting
<1> HIDE DEF c
<1>5. /\ DOMAIN t = RunFields /\ t.trail = run.trail /\ t.pending = run.pending
  BY <1>2, ReplaceFields DEF RunFields
<1>6. /\ DOMAIN u = RunFields /\ u.trail = run.trail /\ u.cands = t.cands
  BY <1>5 DEF RunFields
<1>7. PICK draft \in {t, u} : Persist(draft, "other")
  BY <1>1 DEF Asking
<1>8. DOMAIN draft = RunFields /\ draft.trail = run.trail /\ draft.cands = t.cands
  BY <1>5, <1>6
<1> HIDE DEF t, u
<1>9. ASSUME run' = Projected(Stamp(draft, "other"))
      PROVE  draft.pending = {} => Unresolved(c) = {}
  <2> DEFINE r == Stamp(draft, "other")
             d == Latest(run')
  <2>1. DOMAIN r = RunFields /\ r.cands = t.cands /\ r.pending = draft.pending
    <3>1. r = draft \/ \E trail : r = [draft EXCEPT !.trail = trail]
      BY DEF Stamp
    <3> HIDE DEF r
    <3> QED
      BY <1>8, <3>1 DEF RunFields
  <2>2. DOMAIN t.cands = 1..n /\ Len(t.cands) = n /\ t.cands[n] = c
    <3>1. t.cands = [run.cands EXCEPT ![n] = c] /\ DOMAIN run.cands = 1..n
      BY <1>2 DEF t, Replace, RunFields, Lasts
    <3>2. DOMAIN t.cands = 1..n /\ t.cands[n] = c
      BY <1>2, <3>1
    <3> DEFINE S == {t.cands[i] : i \in 1..n}
    <3>3. t.cands = [i \in 1..n |-> t.cands[i]]
      BY <3>1, <3>2
    <3>4. \A i \in 1..n : t.cands[i] \in S
      OBVIOUS
    <3> HIDE DEF S
    <3>5. t.cands \in [1..n -> S]
      BY <3>3, <3>4
    <3>6. Len(t.cands) = n
      BY <1>2, <3>5, SequenceOf
    <3> QED
      BY <3>2, <3>6
  <2> HIDE DEF r
  <2>3. Latest(r) = c
    BY <2>1, <2>2 DEF Latest
  <2>4. /\ run'.pending = draft.pending
        /\ \A f \in CandidateFields \ {"batches"} : d[f] = c[f]
    BY <1>2, <1>4, <1>9, <2>1, <2>2, <2>3, ProjectedLatest DEF r
  <2> HIDE DEF d
  <2>5. /\ d.reviews = c.reviews /\ d.specialistReviews = c.specialistReviews
        /\ d.accepted = c.accepted /\ d.rejected = c.rejected
    BY <2>4 DEF CandidateFields
  <2>6. Unresolved(d) = Unresolved(c)
    BY <2>5 DEF Unresolved, Findings
  <2> QED
    BY <1>3, <2>4, <2>6 DEF d
<1>10. /\ c.iteration = o.iteration /\ c.reviews = o.reviews /\ c.batches = o.batches
       /\ c.derivation = o.derivation
  BY <1>2, <1>4 DEF CandidateFields
<1> QED
  BY <1>2, <1>4, <1>8, <1>7, <1>9, <1>10, RoundKept DEF o, t

\* Nobody asks about a finding that was not asked about when it came in.
LEMMA RequestRounds ==
    ASSUME TInv, Lasts(run), Tidy(run)
    PROVE  ~RequestRepair
<1> SUFFICES ASSUME RequestRepair
             PROVE  FALSE
  OBVIOUS
<1>1. Steady /\ missingReviewAxes(Reobserved) = {} /\ Unresolved(Reobserved) # {}
  BY DEF RequestRepair, Plain, Settled
<1>2. run.cands # <<>> /\ Len(run.cands) # 0 /\ run.pending = {}
  BY <1>1, SteadyLasts
<1>3. /\ missingReviewAxes(Reobserved) = missingReviewAxes(Latest(run))
      /\ Unresolved(Reobserved) = Unresolved(Latest(run))
  BY <1>2, ReobservedLasts
<1> QED
  BY <1>1, <1>2, <1>3 DEF Tidy, Asked

\* A decision leaves nothing open.
LEMMA AdjudicationRounds ==
    ASSUME TInv, Lasts(run), Tidy(run), ~Crossing, NEW accepted, NEW class, ApplyRepair(accepted, class)
    PROVE  Tidy(run') /\ refused' # "timing"
<1> DEFINE o == Latest(run)
           decision == strongestRepairClass(o.decision, class)
           merged == [o EXCEPT !.accepted = @ \cup accepted,
                               !.rejected = @ \cup (run.pending \ accepted),
                               !.decision = strongestRepairClass(o.decision, class)]
           c == [o EXCEPT !.accepted = o.accepted \cup accepted,
                          !.rejected = o.rejected \cup (run.pending \ accepted),
                          !.decision = decision]
           t == Replace(run, c)
           u == [t EXCEPT !.pending = {}]
<1>1. loads /\ run.pending # {} /\ accepted \subseteq run.pending
  BY DEF ApplyRepair
<1>2. run.cands # <<>> /\ run.pending = Unresolved(o)
  BY <1>1, AskedUnresolved DEF TInv
<1>3. DOMAIN run = RunFields /\ DOMAIN o = CandidateFields
  BY <1>2, ReobservedLasts DEF Lasting
<1>4. Persist(u, "other")
  <2>1. Persist([Replace(run, merged) EXCEPT !.pending = {}], "other")
    BY DEF ApplyRepair
  <2>2. merged = c
    BY <1>3 DEF CandidateFields
  <2> QED
    BY <2>1, <2>2
<1> HIDE DEF decision, o
<1>5. /\ DOMAIN c = CandidateFields /\ c.accepted = o.accepted \cup accepted
      /\ c.rejected = o.rejected \cup (run.pending \ accepted)
      /\ c.iteration = o.iteration /\ c.reviews = o.reviews /\ c.batches = o.batches
      /\ c.derivation = o.derivation /\ c.specialistReviews = o.specialistReviews
  BY <1>3 DEF CandidateFields
<1> HIDE DEF c
<1>6. Unresolved(c) = {}
  <2>1. run.pending = Findings(o) \ (o.accepted \cup o.rejected)
    BY <1>2 DEF Unresolved
  <2>2. Findings(c) = Findings(o)
    BY <1>5 DEF Findings
  <2> QED
    BY <1>1, <1>5, <2>1, <2>2 DEF Unresolved
<1>7. DOMAIN t = RunFields /\ t.trail = run.trail
  BY <1>3, ReplaceFields DEF RunFields
<1>8. DOMAIN u = RunFields /\ u.trail = run.trail /\ u.cands = t.cands
  BY <1>7 DEF RunFields
<1> HIDE DEF u
<1> QED
  BY <1>2, <1>4, <1>5, <1>6, <1>8, RoundKept DEF o, t

\* Rounds that all have their batches are told apart by nothing else.
LEMMA RoundRederived ==
    ASSUME NEW t, NEW i, NEW o, Round(t, i, o),
           o.iteration \in Iterations(o) => BatchOf(o, o.iteration) # {},
           NEW c, c.reviews = o.reviews, c.batches = o.batches, c.iteration = o.iteration
    PROVE  Round(t, i, c) /\ (Evenly(t, i, o) => Evenly(t, i, c))
<1>1. Iterations(c) = Iterations(o) /\ \A m : BatchOf(c, m) = BatchOf(o, m)
  BY DEF Iterations, BatchOf
<1>2. \A m \in Iterations(o) : BatchOf(o, m) # {}
  BY DEF Round
<1>3. Round(t, i, c)
  BY <1>1, <1>2 DEF Round
<1> QED
  BY <1>1, <1>3 DEF Evenly

\* A further iteration, when the others are closed.
LEMMA RoundNext ==
    ASSUME NEW t, NEW i, NEW o, Round(t, i, o), Evenly(t, i, o),
           NEW c, c.reviews = o.reviews, c.batches = o.batches, c.iteration \notin Iterations(o)
    PROVE  Round(t, i, c) /\ Evenly(t, i, c)
<1>1. Iterations(c) = Iterations(o) /\ \A m : BatchOf(c, m) = BatchOf(o, m)
  BY DEF Iterations, BatchOf
<1>2. \A m \in Iterations(o) : BatchOf(o, m) # {}
  BY DEF Round, Evenly
<1>3. Round(t, i, c)
  BY <1>1, <1>2 DEF Round, Evenly
<1> QED
  BY <1>1, <1>3 DEF Evenly

\* An assessment, with every round closed.
LEMMA AssessmentRounds ==
    ASSUME TInv, Lasts(run), Tidy(run), ~Crossing, ~Halfway, NEW fresh, NEW specialists,
           AdmitImpactAssessment(fresh, specialists)
    PROVE  Tidy(run') /\ refused' # "timing"
<1> DEFINE p == Reobserved
           o == Latest(run)
           n == Len(run.cands)
           d == [status |-> IF fresh # ReviewAxes \/ specialists # {} THEN "pending" ELSE "unconfirmed",
                 fresh |-> fresh, specialists |-> specialists, of |-> <<p.iteration, p.exposure>>]
           c == [p EXCEPT !.derivation = d]
           t == Replace(run, c)
<1>1. Steady /\ o.derivation.status = "none" /\ Persist(t, "other")
  BY DEF AdmitImpactAssessment
<1>3. /\ run.cands # <<>> /\ n # 0 /\ n \in 1..n /\ DOMAIN run = RunFields /\ run.pending = {}
      /\ DOMAIN p = CandidateFields /\ Unresolved(p) = Unresolved(o) /\ o = run.cands[n]
      /\ \A f \in CandidateFields \ {"class", "effects", "exposure", "specialists"} : p[f] = o[f]
  BY <1>1, SteadyLasts, ReobservedLasts DEF Lasting
<1>4. Round(run.trail, n, o) /\ Asked(o, {})
  BY <1>3 DEF Tidy
<1>5. Evenly(run.trail, n, o)
  <2>1. run.trail \in Seq({"start", "review", "other"})
    BY RunType DEF TInv, RunTyped
  <2> QED
    BY <1>3, <2>1, Even
<1>6. d.status \in {"pending", "unconfirmed"} /\ (d.status = "unconfirmed" => d.fresh = ReviewAxes)
  OBVIOUS
<1> HIDE DEF p, o, n, d
<1>7. /\ DOMAIN c = CandidateFields /\ c.derivation = d
      /\ \A f \in CandidateFields \ {"derivation"} : c[f] = p[f]
  BY <1>3 DEF CandidateFields
<1> HIDE DEF c
<1>8. /\ c.iteration = o.iteration /\ c.reviews = o.reviews /\ c.batches = o.batches
      /\ c.specialistReviews = o.specialistReviews /\ c.accepted = o.accepted
      /\ c.rejected = o.rejected
  BY <1>3, <1>7 DEF CandidateFields
<1>9. Round(run.trail, n, c) /\ Evenly(run.trail, n, c)
  BY <1>4, <1>5, <1>8, RoundRederived DEF Evenly
<1>10. missingReviewAxes(c) = missingReviewAxes(o) /\ Unresolved(c) = Unresolved(o)
  <2>1. RetainedAxes(c) = {} /\ RetainedAxes(o) = {}
    BY <1>1, <1>6, <1>7 DEF RetainedAxes
  <2>2. CurrentAxes(c) = CurrentAxes(o)
    BY <1>8 DEF CurrentAxes
  <2> QED
    BY <1>8, <2>1, <2>2 DEF missingReviewAxes, Unresolved, Findings
<1>11. Asked(c, {})
  BY <1>4, <1>6, <1>7, <1>10 DEF Asked
<1>12. DOMAIN t = RunFields /\ t.trail = run.trail /\ t.pending = {}
  BY <1>3, ReplaceFields DEF RunFields
<1>13. t.cands = Replace(run, c).cands /\ Persist(t, "other")
  BY <1>1
<1> HIDE DEF t
<1> QED
  BY <1>3, <1>7, <1>9, <1>11, <1>12, <1>13, RoundReplaced DEF n

\* A confirmation, before any review.
LEMMA ConfirmationRounds ==
    ASSUME TInv, Lasts(run), Tidy(run), ~Crossing, NEW accepted \in BOOLEAN,
           AdmitImpactConfirmation(accepted)
    PROVE  Tidy(run') /\ refused' # "timing"
<1> DEFINE p == Reobserved
           o == Latest(run)
           n == Len(run.cands)
           status == IF accepted THEN "confirmed" ELSE "fallback"
           c == [p EXCEPT !.derivation.status = status]
           t == Replace(run, c)
<1>1. Steady /\ o.derivation.status = "pending" /\ Persist(t, "other")
  BY DEF AdmitImpactConfirmation
<1>2. /\ run.cands # <<>> /\ n # 0 /\ n \in 1..n /\ DOMAIN run = RunFields /\ run.pending = {}
      /\ DOMAIN p = CandidateFields /\ Lasting(o) /\ o = run.cands[n]
      /\ \A f \in CandidateFields \ {"class", "effects", "exposure", "specialists"} : p[f] = o[f]
  BY <1>1, SteadyLasts, ReobservedLasts DEF Lasting
<1>3. Round(run.trail, n, o)
  BY <1>2 DEF Tidy
<1>4. ~Halfway => Evenly(run.trail, n, o)
  <2>1. run.trail \in Seq({"start", "review", "other"})
    BY RunType DEF TInv, RunTyped
  <2> QED
    BY <1>2, <2>1, Even
<1>5. DOMAIN p.derivation = {"status", "fresh", "specialists", "of"} /\ "standards" \in p.derivation.fresh
  BY <1>2, Observed DEF CandidateSafe, TInv
<1>6. status \in {"confirmed", "fallback"}
  OBVIOUS
<1> HIDE DEF p, o, n, status
<1>7. /\ DOMAIN c = CandidateFields /\ c.derivation = [p.derivation EXCEPT !.status = status]
      /\ \A f \in CandidateFields \ {"derivation"} : c[f] = p[f]
  BY <1>2 DEF CandidateFields
<1> HIDE DEF c
<1>8. c.derivation.status = status /\ c.derivation.fresh = p.derivation.fresh
  BY <1>5, <1>7
<1>9. c.iteration = o.iteration /\ c.reviews = o.reviews /\ c.batches = o.batches
  BY <1>2, <1>7 DEF CandidateFields
<1>10. CurrentAxes(o) = {} /\ CurrentAxes(c) = {} /\ o.iteration \notin Iterations(o)
  <2>1. CurrentAxes(o) = {}
    BY <1>1, <1>2 DEF Lasting
  <2> QED
    BY <1>9, <2>1 DEF CurrentAxes, Iterations
<1>11. Round(run.trail, n, c) /\ (~Halfway => Evenly(run.trail, n, c))
  BY <1>3, <1>4, <1>9, <1>10, RoundRederived
<1>12. Asked(c, run.pending)
  <2>1. "standards" \in missingReviewAxes(c)
    BY <1>5, <1>8, <1>10 DEF missingReviewAxes, RetainedAxes, ReviewAxes
  <2> QED
    BY <1>6, <1>8, <2>1 DEF Asked
<1>13. DOMAIN t = RunFields /\ t.trail = run.trail /\ t.pending = run.pending
  BY <1>2, ReplaceFields DEF RunFields
<1>14. t.cands = Replace(run, c).cands /\ Persist(t, "other")
  BY <1>1
<1> HIDE DEF t
<1> QED
  BY <1>2, <1>7, <1>11, <1>12, <1>13, <1>14, RoundReplaced DEF n

\* An escalation, with every round closed.
LEMMA EscalationRounds ==
    ASSUME TInv, Lasts(run), Tidy(run), ~Crossing, Escalate
    PROVE  Tidy(run') /\ refused' # "timing"
<1> DEFINE p == Reobserved
           o == Latest(run)
           n == Len(run.cands)
           c == [p EXCEPT !.iteration = Cardinality(p.reviews) + 1, !.acceptance = 0, !.exhaustive = FALSE]
           t == Replace(run, c)
           u == [t EXCEPT !.exposure = c.exposure, !.ready = FALSE, !.profiled = t.profiled \cup {head}]
<1>1. run.cands # <<>> /\ Persist(u, "other")
  BY DEF Escalate, Free
<1>2. ~Halfway
  BY DEF Crossing
<1>3. /\ n # 0 /\ n \in 1..n /\ DOMAIN run = RunFields /\ Lasting(p) /\ o = run.cands[n]
      /\ \A f \in CandidateFields \ {"class", "effects", "exposure", "specialists"} : p[f] = o[f]
  BY <1>1, ReobservedLasts
<1>4. Round(run.trail, n, o) /\ Asked(o, run.pending)
  BY <1>3 DEF Tidy
<1>5. Evenly(run.trail, n, o)
  <2>1. run.trail \in Seq({"start", "review", "other"})
    BY RunType DEF TInv, RunTyped
  <2> QED
    BY <1>2, <1>3, <2>1, Even
<1> HIDE DEF p, o, n
<1>6. /\ DOMAIN c = CandidateFields /\ c.iteration = Cardinality(p.reviews) + 1
      /\ c.derivation = p.derivation /\ c.reviews = p.reviews /\ c.batches = p.batches
  BY <1>3 DEF Lasting, CandidateFields
<1> HIDE DEF c
<1>7. CurrentAxes(c) = {} /\ \A v \in c.reviews : v.iteration # c.iteration
  BY <1>3, <1>6, NextNumbered DEF Lasting
<1>8. p.reviews = o.reviews /\ p.batches = o.batches /\ p.derivation = o.derivation
  BY <1>3 DEF CandidateFields
<1>9. Round(run.trail, n, c) /\ Evenly(run.trail, n, c)
  <2>1. c.iteration \notin Iterations(o)
    BY <1>6, <1>7, <1>8 DEF Iterations
  <2> QED
    BY <1>4, <1>5, <1>6, <1>8, <2>1, RoundNext
<1>10. Asked(c, {})
  <2>1. "standards" \in missingReviewAxes(c)
    BY <1>3, <1>6, <1>7 DEF Lasting, missingReviewAxes, RetainedAxes, ReviewAxes
  <2> QED
    BY <1>4, <1>6, <1>8, <2>1 DEF Asked
<1>11. DOMAIN t = RunFields /\ t.trail = run.trail /\ t.pending = run.pending
  BY <1>3, ReplaceFields DEF RunFields
<1>12. DOMAIN u = RunFields /\ u.trail = run.trail /\ u.pending = run.pending /\ u.cands = t.cands
  BY <1>11 DEF RunFields
<1>13. run.pending = {}
  BY DEF Escalate, Free
<1> HIDE DEF u
<1> QED
  BY <1>1, <1>3, <1>6, <1>9, <1>10, <1>12, <1>13, RoundReplaced DEF n, t

\* A candidate starts, and has been reviewed by nobody.
LEMMA StartRounds ==
    ASSUME TInv, Lasts(run), Tidy(run), ~Losing, ~Crossing,
           NEW outcome \in {"unobserved", "unsandboxed", "focused"}, NewCandidate(outcome)
    PROVE  Tidy(run') /\ refused' # "timing"
<1> DEFINE previous == IF run.cands = <<>> THEN <<>> ELSE <<Latest(run)>>
           c == Profiled(run, newCandidate(previous), previous)
           started == Stamp(run, "start")
           observed == [started EXCEPT !.exposure = c.exposure, !.profiled = started.profiled \cup {head}]
           draft == [observed EXCEPT !.cands = Append(observed.cands, c), !.ready = FALSE, !.failed = FALSE]
           t == run.trail
           n == Len(run.cands)
           r == Stamp(draft, "other")
<1>1. outcome = "focused" /\ run.pending = {} /\ Persist(draft, "other")
  <2>1. outcome = "focused"
    BY DEF Losing, Crossing
  <2> QED
    BY <2>1 DEF NewCandidate, Free
<1>2. /\ Lasting(c) /\ c.derivation.status = "none"
      /\ c.iteration = 1 /\ c.reviews = {} /\ c.batches = {}
  <2>1. Lasting(c) /\ c.derivation.status = "none"
    BY StartedLasts
  <2> DEFINE b == newCandidate(previous)
  <2>2. PICK class : b = Blank(class)
    BY DEF newCandidate
  <2>3. DOMAIN b = CandidateFields /\ b.iteration = 1 /\ b.reviews = {} /\ b.batches = {}
    BY <2>2 DEF Blank, CandidateFields
  <2> HIDE DEF b, previous
  <2>4. \A f \in CandidateFields \ {"class", "effects", "exposure", "specialists"} : c[f] = b[f]
    BY <2>3, ProfiledKeeps DEF b
  <2> HIDE DEF c
  <2> QED
    BY <2>1, <2>3, <2>4 DEF CandidateFields
<1>3. /\ n \in Nat /\ t \in Seq({"start", "review", "other"})
      /\ DOMAIN run = RunFields /\ DOMAIN run.cands = 1..n
  BY RunTypedFacts, RunType DEF TInv, RunTyped, Lasts
<1>4. /\ DOMAIN started = RunFields /\ started.trail = Append(t, "start")
      /\ started.cands = run.cands /\ started.pending = run.pending
  <2>1. started = [run EXCEPT !.trail = Append(run.trail, "start")]
    BY DEF Stamp
  <2> HIDE DEF started
  <2> QED
    BY <1>3, <2>1 DEF RunFields
<1> HIDE DEF c, started
<1>5. /\ DOMAIN draft = RunFields /\ draft.trail = Append(t, "start")
      /\ draft.cands = Append(run.cands, c) /\ draft.pending = {}
  BY <1>1, <1>4 DEF RunFields
<1> HIDE DEF draft
<1>6. Len(draft.trail) = Len(t) + 1 /\ draft.trail[Len(t) + 1] = "start" /\ Len(t) \in Nat
  BY <1>3, <1>5
<1>7. r = draft
  BY <1>6 DEF Stamp
<1>8. /\ DOMAIN draft.cands = 1..(n + 1) /\ Len(draft.cands) = n + 1 /\ draft.cands[n + 1] = c
      /\ \A i \in 1..n : draft.cands[i] = run.cands[i]
  <2>1. run.cands \in Seq({run.cands[i] : i \in DOMAIN run.cands})
    BY DEF TInv, IInv, RunSafe, HistorySafe
  <2> QED
    BY <1>3, <1>5, <2>1
<1>9. Starts(t, Len(t)) = n
  BY DEF Tidy
<1>10. Starts(draft.trail, Len(t) + 1) = n + 1
  BY <1>3, <1>5, <1>9, StartsAppended
<1>11. ASSUME NEW i
       PROVE  Ends(draft.trail, i) = Ends(t, i)
  <2>1. "start" = "review" => ~ReviewLast(t)
    OBVIOUS
  <2> HIDE DEF t
  <2>2. Ends(Append(t, "start"), i) = Ends(t, i) \cup {}
    BY <1>3, <2>1, EndsAppended
  <2> QED
    BY <1>5, <2>2
<1>12. Ends(t, n + 1) = {}
  <2> SUFFICES ASSUME NEW p \in Ends(t, n + 1)
               PROVE  FALSE
    OBVIOUS
  <2>1. p \in 0..Len(t) /\ Starts(t, p) = n + 1
    BY <1>6 DEF Ends
  <2>2. Starts(t, p) <= Starts(t, Len(t))
    BY <1>6, <2>1, StartsCounted
  <2> QED
    BY <1>3, <1>9, <2>1, <2>2
<1>13. Iterations(c) = {} /\ CurrentAxes(c) = {} /\ Cardinality({}) = 0
  BY <1>2, FS_EmptySet DEF Iterations, CurrentAxes
<1>14. ASSUME NEW i \in 1..(n + 1)
       PROVE  Round(draft.trail, i, draft.cands[i]) /\ DOMAIN draft.cands[i] = CandidateFields
  <2>1. CASE i = n + 1
    <3>1. Round(draft.trail, n + 1, c)
      BY <1>2, <1>11, <1>12, <1>13 DEF Round
    <3> QED
      BY <1>2, <1>8, <2>1, <3>1 DEF Lasting
  <2>2. CASE i # n + 1
    <3>1. i \in 1..n
      BY <1>3, <2>2
    <3>2. Round(t, i, run.cands[i]) /\ Lasting(run.cands[i])
      BY <3>1 DEF Tidy, Lasts
    <3> QED
      BY <1>8, <1>11, <3>1, <3>2, RoundMoved DEF Lasting
  <2> QED
    BY <2>1, <2>2
<1>15. Asked(c, {})
  <2>1. "standards" \in missingReviewAxes(c)
    BY <1>2, <1>13 DEF missingReviewAxes, RetainedAxes, ReviewAxes
  <2> QED
    BY <1>2, <2>1 DEF Asked
<1>16. Tidy(draft)
  <2>1. Latest(draft) = c /\ ~ReviewLast(draft.trail)
    BY <1>6, <1>8 DEF Latest, ReviewLast
  <2>2. Paced(draft.trail, n + 1, c)
    BY <1>11, <1>12, <1>13, <2>1 DEF Paced
  <2> QED
    BY <1>5, <1>6, <1>8, <1>10, <1>14, <1>15, <2>1, <2>2 DEF Tidy
<1>17. PhasesKept(draft) /\ \A i : Closings(draft, i) = Ends(draft.trail, i)
  <2>1. Starts(draft.trail, Len(draft.trail)) = Len(draft.cands)
    BY <1>6, <1>8, <1>10
  <2> QED
    BY <1>5, <2>1, PhasesStay
<1>18. Tidy(Projected(draft)) /\ \A i \in DOMAIN draft.cands : CandidateProjectable(draft, i)
  <2>1. Len(draft.cands) \in Nat /\ DOMAIN draft.cands = 1..Len(draft.cands)
    BY <1>3, <1>8
  <2>2. \A i \in 1..Len(draft.cands) : DOMAIN draft.cands[i] = CandidateFields
    BY <1>8, <1>14
  <2> HIDE DEF t, n, r, observed
  <2> QED
    BY <1>5, <1>16, <1>17, <2>1, <2>2, ProjectedTidy
<1>19. Timed(draft)
  BY <1>17, <1>18 DEF Timed
<1>20. refused' # "timing" /\ (run' = Projected(draft) \/ run' = run)
  BY <1>1, <1>7, <1>19 DEF Persist
<1>21. CASE run' = run
  BY <1>20, <1>21
<1>22. CASE run' = Projected(draft)
  BY <1>18, <1>20, <1>22
<1> QED
  BY <1>20, <1>21, <1>22

-------------------------------------------------------------------------------
(* A round that is answered, in part or in full *)

\* A finite set of numbers up to m.
UpTo(S, m) == m \in Nat /\ IsFiniteSet(S) /\ S \in SUBSET Nat /\ \A x \in S : x <= m

\* c is o with more reviews of the iteration m, which has no batch.
Answered(c, o, m) ==
    /\ o.iteration = m /\ c.iteration = m /\ c.batches = o.batches /\ BatchOf(o, m) = {}
    /\ Iterations(c) = Iterations(o) \/ Iterations(c) = Iterations(o) \cup {m}
    /\ \A x : x # m => {w \in c.reviews : w.iteration = x} = {w \in o.reviews : w.iteration = x}
    /\ FullBatch(c, m) => m \in Iterations(c)

\* The round of iteration m, at the last timing L: it is closed there once all of its axes are
\* answered, and no other round is touched.
LEMMA AnsweredRound ==
    ASSUME NEW r, NEW i, NEW t, NEW o, Round(t, i, o), Closings(r, i) = Ends(r.trail, i),
           NEW c, c = r.cands[i], DOMAIN c = CandidateFields,
           NEW m, Answered(c, o, m), UpTo(Iterations(o), m),
           NEW L, UpTo(Ends(t, i), L), Ends(r.trail, i) = Ends(t, i) \cup {L},
           Cardinality(Ends(r.trail, i)) = Cardinality(Iterations(o) \cup {m})
    PROVE  LET d == Batched(r, i) IN
           /\ CandidateProjectable(r, i)
           /\ DOMAIN d = CandidateFields /\ \A f \in CandidateFields \ {"batches"} : d[f] = c[f]
           /\ d.batches = c.batches \cup
                 (IF FullBatch(c, m) THEN {[iteration |-> m, axes |-> FreshAxes(c), closing |-> L]} ELSE {})
           /\ Round(r.trail, i, d)
<1> DEFINE K == Ends(t, i)
           I == Iterations(o)
           J == Iterations(c)
           U == K \cup {L}
           seen(x) == {v.axis : v \in {w \in c.reviews : w.iteration = x}}
<1>0. /\ o.iteration = m /\ c.iteration = m /\ c.batches = o.batches /\ BatchOf(o, m) = {}
      /\ J = I \/ J = I \cup {m}
      /\ \A x : x # m => {w \in c.reviews : w.iteration = x} = {w \in o.reviews : w.iteration = x}
      /\ FullBatch(c, m) => m \in J
      /\ m \in Nat /\ IsFiniteSet(I) /\ I \in SUBSET Nat /\ \A x \in I : x <= m
      /\ L \in Nat /\ IsFiniteSet(K) /\ K \in SUBSET Nat /\ \A x \in K : x <= L
  BY DEF Answered, UpTo
<1>1. Ends(r.trail, i) = U /\ Closings(r, i) = U /\ IsFiniteSet(U) /\ U \in SUBSET Nat
  BY <1>0, FS_AddElement
<1>2. \A x \in K : Rank(U, x) = Rank(K, x)
  <2>1. CASE L \in K
    <3>1. U = K
      BY <2>1
    <3> QED
      BY <3>1
  <2>2. CASE L \notin K
    BY <1>0, <2>2, RankBeyond
  <2> QED
    BY <2>1, <2>2
<1>3. \A x \in I : x # m => Rank(J, x) = Rank(I, x)
  BY <1>0, RankBeyond
<1>4. \A x : BatchOf(c, x) = BatchOf(o, x)
  BY <1>0 DEF BatchOf
<1>5. ASSUME NEW b \in c.batches
      PROVE  /\ b.iteration \in J /\ b.iteration # m /\ b.closing \in U
             /\ Rank(U, b.closing) = Rank(J, b.iteration) /\ b.axes \subseteq seen(b.iteration)
  <2>1. b.iteration # m
    BY <1>0 DEF BatchOf
  <2>2. /\ b.iteration \in I /\ b.closing \in K /\ Rank(K, b.closing) = Rank(I, b.iteration)
        /\ b.axes \subseteq {v.axis : v \in {w \in o.reviews : w.iteration = b.iteration}}
    BY <1>0 DEF Round
  <2>3. {w \in c.reviews : w.iteration = b.iteration} = {w \in o.reviews : w.iteration = b.iteration}
    BY <1>0, <2>1
  <2>4. Rank(U, b.closing) = Rank(J, b.iteration)
    BY <1>2, <1>3, <2>1, <2>2
  <2>5. b.iteration \in J
    BY <1>0, <2>2
  <2> QED
    BY <2>1, <2>2, <2>3, <2>4, <2>5
<1>6. ASSUME NEW x \in J, x # m
      PROVE  BatchOf(c, x) # {} /\ FullBatch(c, x)
  <2>1. x \in I
    BY <1>0, <1>6
  <2>2. BatchOf(c, x) # {}
    BY <1>0, <1>4, <1>6, <2>1 DEF Round
  <2>3. \A b \in BatchOf(c, x) : b.axes \subseteq seen(x)
    BY <1>5 DEF BatchOf
  <2> QED
    BY <2>2, <2>3 DEF FullBatch
<1>7. ASSUME FullBatch(c, m)
      PROVE  m \in J /\ ClosingOf(r, i, m) = {L}
  <2>1. m \in J /\ J = I \cup {m}
    BY <1>0, <1>7
  <2>2. Rank(J, m) = Cardinality(J) /\ Rank(U, L) = Cardinality(U) /\ Cardinality(U) = Cardinality(J)
    BY <1>0, <1>1, <2>1, RankBeyond
  <2>3. ASSUME NEW p \in U, p # L
        PROVE  Rank(U, p) # Rank(U, L)
    <3>1. p < L /\ p \in Nat
      BY <1>0, <2>3
    <3>2. Rank(U, p) < Rank(U, L) /\ Rank(U, p) \in Nat /\ Rank(U, L) \in Nat
      BY <1>0, <1>1, <3>1, RankGreater, Ranking
    <3> QED
      BY <3>2
  <2>4. ClosingOf(r, i, m) = {p \in U : Rank(U, p) = Rank(J, m)}
    BY <1>1 DEF ClosingOf
  <2> HIDE DEF U, J
  <2>5. L \in U
    BY DEF U
  <2> QED
    BY <2>1, <2>2, <2>3, <2>4, <2>5
<1>8. ASSUME NEW x, NEW b \in BatchOf(c, x)
      PROVE  b.closing \in ClosingOf(r, i, x)
  <2>1. b \in c.batches /\ b.iteration = x
    BY DEF BatchOf
  <2> QED
    BY <1>1, <1>5, <2>1 DEF ClosingOf
<1>9. \/ Cardinality(U) = Cardinality(J)
      \/ Cardinality(U) = Cardinality(J) + 1 /\ m \notin J
  <2>1. CASE J = I \cup {m}
    BY <1>1, <2>1
  <2>2. CASE J # I \cup {m}
    <3>1. J = I /\ m \notin I
      BY <1>0, <2>2
    <3> QED
      BY <1>0, <1>1, <3>1, RankBeyond
  <2> QED
    BY <2>1, <2>2
<1>10. CandidateProjectable(r, i)
  <2>1. ASSUME NEW x \in J
        PROVE  /\ BatchOf(c, x) = {} \/ ~FullBatch(c, x) => x = m
               /\ FullBatch(c, x) => /\ ClosingOf(r, i, x) # {}
                                     /\ \A b \in BatchOf(c, x) : b.closing \in ClosingOf(r, i, x)
    <3>1. x = m \/ ClosingOf(r, i, x) # {}
      BY <1>6, <1>8
    <3> QED
      BY <1>6, <1>7, <1>8, <3>1
  <2> QED
    BY <1>0, <1>1, <1>9, <2>1 DEF CandidateProjectable
<1> DEFINE full == {x \in J : BatchOf(c, x) = {} /\ FullBatch(c, x)}
           batch(x) == [iteration |-> x, axes |-> FreshAxes(c),
                        closing |-> CHOOSE p \in ClosingOf(r, i, x) : TRUE]
           new == IF FullBatch(c, m) THEN {[iteration |-> m, axes |-> FreshAxes(c), closing |-> L]} ELSE {}
           d == Batched(r, i)
<1>11. d = [c EXCEPT !.batches = c.batches \cup {batch(x) : x \in full}]
  BY DEF Batched, CandidateFields
<1>12. {batch(x) : x \in full} = new
  <2>1. CASE FullBatch(c, m)
    <3>1. full = {m}
      BY <1>0, <1>4, <1>6, <1>7, <2>1
    <3>2. (CHOOSE p \in ClosingOf(r, i, m) : TRUE) = L
      BY <1>7, <2>1
    <3>3. new = {batch(m)}
      BY <2>1, <3>2
    <3> HIDE DEF full, batch, new
    <3>4. {batch(x) : x \in {m}} = {batch(m)}
      OBVIOUS
    <3> QED
      BY <3>1, <3>3, <3>4
  <2>2. CASE ~FullBatch(c, m)
    <3>1. full = {}
      BY <1>6, <2>2
    <3> QED
      BY <2>2, <3>1
  <2> QED
    BY <2>1, <2>2
<1> HIDE DEF full, batch, d
<1>13. /\ DOMAIN d = CandidateFields /\ d.batches = c.batches \cup new
       /\ \A f \in CandidateFields \ {"batches"} : d[f] = c[f]
  BY <1>11, <1>12 DEF CandidateFields
<1>14. Round(r.trail, i, d)
  <2>1. d.reviews = c.reviews /\ d.iteration = c.iteration /\ d.derivation = c.derivation
    BY <1>13 DEF CandidateFields
  <2>2. Iterations(d) = J /\ FreshAxes(d) = FreshAxes(c)
    BY <2>1 DEF Iterations, FreshAxes
  <2>3. ASSUME NEW b \in d.batches
        PROVE  /\ b.iteration \in J /\ b.closing \in U /\ Rank(U, b.closing) = Rank(J, b.iteration)
               /\ b.axes \subseteq {v.axis : v \in {w \in d.reviews : w.iteration = b.iteration}}
    <3>1. CASE b \in c.batches
      BY <1>5, <2>1, <3>1
    <3>2. CASE b \notin c.batches
      <4>1. FullBatch(c, m) /\ b = [iteration |-> m, axes |-> FreshAxes(c), closing |-> L]
        BY <1>13, <3>2
      <4>2. b.iteration = m /\ b.closing = L /\ b.axes = FreshAxes(c)
        BY <4>1
      <4>3. FreshAxes(c) \subseteq seen(m)
        BY <1>0, <1>4, <4>1 DEF FullBatch
      <4>4. L \in ClosingOf(r, i, m)
        BY <1>7, <4>1
      <4>5. Rank(U, L) = Rank(J, m)
        BY <1>1, <4>4 DEF ClosingOf
      <4> QED
        BY <1>7, <2>1, <4>1, <4>2, <4>3, <4>5
    <3> QED
      BY <3>1, <3>2
  <2>4. ASSUME NEW x \in J
        PROVE  BatchOf(d, x) # {} \/ (x = m /\ ~FullBatch(d, x))
    <3>1. BatchOf(c, x) \subseteq BatchOf(d, x)
      BY <1>13 DEF BatchOf
    <3>2. CASE x # m
      BY <1>6, <3>1, <3>2
    <3>3. CASE x = m /\ FullBatch(c, m)
      <4> DEFINE b == [iteration |-> m, axes |-> FreshAxes(c), closing |-> L]
      <4>1. b \in d.batches /\ b.iteration = m
        BY <1>13, <3>3
      <4> QED
        BY <3>3, <4>1 DEF BatchOf
    <3>4. CASE x = m /\ ~FullBatch(c, m)
      <4>1. d.batches = c.batches
        BY <1>13, <3>4
      <4>2. BatchOf(d, m) = BatchOf(c, m)
        BY <4>1 DEF BatchOf
      <4>3. FullBatch(d, m) <=> FullBatch(c, m)
        BY <2>1, <2>2, <4>2 DEF FullBatch
      <4> QED
        BY <3>4, <4>3
    <3> QED
      BY <3>2, <3>3, <3>4
  <2> HIDE DEF U, J, new
  <2> QED
    BY <1>0, <1>1, <1>9, <2>1, <2>2, <2>3, <2>4 DEF Round
<1> QED
  BY <1>10, <1>13, <1>14 DEF d

\* The iterations of numbered reviews.
LEMMA IterationsCounted ==
    ASSUME NEW c, Numbered(c)
    PROVE  /\ IsFiniteSet(Iterations(c)) /\ Iterations(c) \in SUBSET Nat
           /\ \A x \in Iterations(c) : x <= c.iteration
<1>1. IsFiniteSet(c.reviews) /\ \A v \in c.reviews : v.iteration \in Nat /\ v.iteration <= c.iteration
  BY DEF Numbered
<1>2. Iterations(c) \in SUBSET (0..c.iteration) /\ c.iteration \in Nat
  BY <1>1 DEF Iterations, Numbered
<1>3. IsFiniteSet(0..c.iteration)
  BY <1>2, FS_Interval
<1> QED
  BY <1>2, <1>3, FS_Subset

\* While a review is missing there is no batch of its round.
LEMMA RoundOpen ==
    ASSUME NEW c, Lasting(c), NEW pending, Asked(c, pending), c.derivation.status # "pending",
           c.derivation.status \in {"none", "confirmed", "unconfirmed", "fallback"},
           missingReviewAxes(c) # {}
    PROVE  BatchOf(c, c.iteration) = {}
<1> SUFFICES ASSUME NEW b \in BatchOf(c, c.iteration)
             PROVE  FALSE
  OBVIOUS
<1>1. b \in c.batches /\ b.iteration = c.iteration
  BY DEF BatchOf
<1>2. /\ b.axes = FreshAxes(c)
      /\ \A a \in b.axes : \E v \in c.reviews : v.iteration = c.iteration /\ v.axis = a
  BY <1>1 DEF Lasting, BatchesCurrent
<1>3. FreshAxes(c) \subseteq CurrentAxes(c)
  BY <1>2 DEF CurrentAxes
<1>4. ReviewAxes \subseteq FreshAxes(c) \cup RetainedAxes(c)
  BY DEF FreshAxes, RetainedAxes, Asked
<1> QED
  BY <1>3, <1>4 DEF missingReviewAxes

\* Reviewers answer some of what is missing, or none of it.
LEMMA ReviewRounds ==
    ASSUME TInv, Lasts(run), Tidy(run), Settled, missingReviewAxes(Reobserved) # {},
           NEW axes \in SUBSET ReviewAxes, NEW findings,
           LET c == WithReviews(Reobserved, axes, findings) IN
           Persist(IF missingReviewAxes(c) = {} THEN Asking(c) ELSE Replace(run, c), "review")
    PROVE  Tidy(run') /\ refused' # "timing"
<1> DEFINE p == Reobserved
           o == Latest(run)
           n == Len(run.cands)
           t == run.trail
           m == o.iteration
           P == {"start", "review", "other"}
           c == WithReviews(p, axes, findings)
           new == {[axis |-> a, iteration |-> p.iteration, finding |-> a \in findings] : a \in axes}
           rep == Replace(run, c)
           ask == [rep EXCEPT !.pending = Unresolved(c)]
           draft == IF missingReviewAxes(c) = {} THEN ask ELSE rep
           r == Stamp(draft, "review")
<1>1. Steady /\ o.derivation.status # "pending" /\ Persist(draft, "review")
  BY DEF Settled, Asking
<1>2. /\ run.cands # <<>> /\ n \in Nat /\ n # 0 /\ n \in 1..n /\ DOMAIN run = RunFields
      /\ DOMAIN run.cands = 1..n /\ o = run.cands[n] /\ Lasting(o) /\ Lasting(p)
      /\ missingReviewAxes(o) # {} /\ run.pending = {}
      /\ \A f \in CandidateFields \ {"class", "effects", "exposure", "specialists"} : p[f] = o[f]
  BY <1>1, SteadyLasts, ReobservedLasts DEF Lasts
<1>3. t \in Seq(P) /\ Len(t) \in Nat /\ (t = <<>> <=> Len(t) = 0)
  BY RunType DEF TInv, RunTyped
<1>4. /\ Starts(t, Len(t)) = n /\ \A i \in 1..n : Round(t, i, run.cands[i])
      /\ Asked(o, {}) /\ Paced(t, n, o)
      /\ ReviewLast(t) => (Len(t) \in Recorded(run) <=> BatchOf(o, m) # {})
  BY <1>2 DEF Tidy
<1>5. BatchOf(o, m) = {}
  <2>1. o.derivation.status \in {"none", "pending", "confirmed", "unconfirmed", "fallback"}
    <3>1. o \in Candidate
      BY <1>2, RunTypedFacts DEF TInv, CandidateTyped
    <3> QED
      BY <3>1 DEF Candidate, NoDerivation
  <2> QED
    BY <1>1, <1>2, <1>4, <2>1, RoundOpen
<1> HIDE DEF p, o, n, t
<1>6. p.iteration = m /\ p.reviews = o.reviews /\ p.batches = o.batches /\ p.derivation = o.derivation
  BY <1>2 DEF CandidateFields
<1>7. /\ DOMAIN c = CandidateFields /\ c.iteration = m /\ c.reviews = o.reviews \cup new
      /\ c.batches = o.batches /\ c.derivation = o.derivation
  <2>1. c = [p EXCEPT !.reviews = p.reviews \cup new,
                      !.acceptance = IF "spec" \in axes THEN p.iteration ELSE p.acceptance]
    BY <1>2 DEF Lasting, WithReviews, CandidateFields
  <2> HIDE DEF c, new
  <2> QED
    BY <1>2, <1>6, <2>1 DEF Lasting, CandidateFields
<1> HIDE DEF c
<1>8. /\ IsFiniteSet(Iterations(o)) /\ Iterations(o) \in SUBSET Nat /\ m \in Nat
      /\ \A x \in Iterations(o) : x <= m
  BY <1>2, IterationsCounted DEF Lasting, Numbered
<1>9. Iterations(c) = Iterations(o) \/ Iterations(c) = Iterations(o) \cup {m}
  <2>1. \A v \in new : v.iteration = m
    BY <1>6
  <2>2. Iterations(c) = Iterations(o) \cup {v.iteration : v \in new}
    BY <1>7 DEF Iterations
  <2> HIDE DEF new
  <2>3. {v.iteration : v \in new} \subseteq {m}
    BY <2>1
  <2> QED
    BY <2>2, <2>3
<1>10. \A x : x # m => {w \in c.reviews : w.iteration = x} = {w \in o.reviews : w.iteration = x}
  <2>1. \A v \in new : v.iteration = m
    BY <1>6
  <2> HIDE DEF new
  <2> QED
    BY <1>7, <2>1
<1>11. FullBatch(c, m) => m \in Iterations(c)
  <2>1. BatchOf(c, m) = {}
    BY <1>5, <1>7 DEF BatchOf
  <2>2. "standards" \in FreshAxes(c)
    BY <1>2, <1>7 DEF Lasting, FreshAxes, ReviewAxes
  <2> QED
    BY <2>1, <2>2 DEF FullBatch, Iterations
<1>12. /\ DOMAIN draft = RunFields /\ draft.trail = t /\ draft.cands = rep.cands
       /\ draft.pending = {} /\ missingReviewAxes(c) = {} => Unresolved(c) = {}
  <2>1. DOMAIN rep = RunFields /\ rep.trail = t
    BY <1>2, ReplaceFields DEF RunFields, t
  <2> HIDE DEF rep
  <2>2. DOMAIN ask = RunFields /\ ask.trail = t /\ ask.cands = rep.cands /\ ask.pending = Unresolved(c)
    BY <2>1 DEF RunFields
  <2> HIDE DEF ask
  <2> QED
    BY <2>1, <2>2
<1> HIDE DEF draft
<1>13. /\ DOMAIN draft.cands = 1..n /\ Len(draft.cands) = n /\ draft.cands[n] = c
       /\ \A i \in 1..n : i # n => draft.cands[i] = run.cands[i]
  <2>1. draft.cands = [run.cands EXCEPT ![n] = c]
    BY <1>2, <1>12 DEF Replace, RunFields, n
  <2>2. /\ DOMAIN draft.cands = 1..n /\ draft.cands[n] = c
        /\ \A i \in 1..n : i # n => draft.cands[i] = run.cands[i]
    BY <1>2, <2>1
  <2> DEFINE S == {draft.cands[i] : i \in 1..n}
  <2>3. draft.cands = [i \in 1..n |-> draft.cands[i]]
    BY <2>1, <2>2
  <2>4. \A i \in 1..n : draft.cands[i] \in S
    OBVIOUS
  <2> HIDE DEF S
  <2>5. draft.cands \in [1..n -> S]
    BY <2>3, <2>4
  <2>6. Len(draft.cands) = n
    BY <1>2, <2>5, SequenceOf
  <2> QED
    BY <2>2, <2>6
<1> HIDE DEF rep
<1>14. Recorded(draft) = Recorded(run)
  <2>1. \A i \in 1..n : draft.cands[i].batches = run.cands[i].batches
    BY <1>2, <1>7, <1>13
  <2> QED
    BY <1>2, <1>13, <2>1 DEF Recorded
<1>15. \A x \in Recorded(run) : x \in 1..Len(t)
  <2> SUFFICES ASSUME NEW i \in 1..n, NEW b \in run.cands[i].batches
               PROVE  b.closing \in 1..Len(t)
    BY <1>2 DEF Recorded
  <2>1. b.closing \in Ends(t, i)
    BY <1>4 DEF Round
  <2> QED
    BY <2>1 DEF Ends
<1>16. ReviewLast(t) => Len(t) \notin Recorded(run)
  BY <1>4, <1>5
<1>17. /\ DOMAIN r = RunFields /\ r.cands = draft.cands /\ r.pending = draft.pending
       /\ \/ ReviewLast(t) /\ r.trail = t
          \/ ~ReviewLast(t) /\ r.trail = Append(t, "review")
  <2>1. \/ ReviewLast(t) /\ r = draft
        \/ ~ReviewLast(t) /\ r = [draft EXCEPT !.trail = Append(t, "review")]
    BY <1>3, <1>12, <1>14, <1>16 DEF Stamp, ReviewLast
  <2> HIDE DEF r
  <2> QED
    BY <1>12, <2>1 DEF RunFields
<1> HIDE DEF r
<1> DEFINE u == r.trail
           L == Len(u)
           I == Iterations(o)
<1>18. IsFiniteSet(Ends(t, n)) /\ Ends(t, n) \in SUBSET Nat /\ Ends(t, n) \subseteq 1..Len(t)
  BY <1>3, EndsFinite
<1>19. /\ L \in Nat /\ ReviewLast(u) /\ L \notin Recorded(run) /\ Starts(u, L) = n
       /\ \A x \in Ends(t, n) : x <= L
       /\ Ends(u, n) = Ends(t, n) \cup {L} /\ Cardinality(Ends(u, n)) = Cardinality(I \cup {m})
       /\ \A i : i # n => Ends(u, i) = Ends(t, i)
  <2>1. CASE ReviewLast(t)
    <3>1. u = t /\ L = Len(t)
      BY <1>17, <2>1
    <3>2. L \in Ends(t, n)
      BY <1>3, <1>4, <2>1, <3>1 DEF Ends, ReviewLast
    <3>3. Cardinality(Ends(t, n)) = Cardinality(I \cup {m})
      BY <1>4, <1>5, <2>1 DEF Paced
    <3>4. Ends(u, n) = Ends(t, n) \cup {L}
      BY <3>1, <3>2
    <3>5. \A x \in Ends(t, n) : x <= L
      BY <1>3, <1>18, <3>1
    <3> HIDE DEF u, L
    <3> QED
      BY <1>3, <1>4, <1>16, <2>1, <3>1, <3>2, <3>3, <3>4, <3>5
  <2>2. CASE ~ReviewLast(t)
    <3>1. u = Append(t, "review")
      BY <1>17, <2>2
    <3>2. L = Len(t) + 1 /\ u[L] = "review"
      BY <1>3, <3>1
    <3>3. Starts(u, Len(t) + 1) = Starts(t, Len(t)) + (IF "review" = "start" THEN 1 ELSE 0)
      BY <1>3, <3>1, StartsAppended
    <3> HIDE DEF L
    <3>4. Starts(u, L) = n
      BY <1>2, <1>4, <3>2, <3>3
    <3>5. ASSUME NEW i
          PROVE  Ends(u, i) = Ends(t, i) \cup (IF i = n THEN {L} ELSE {})
      <4>1. "review" = "review" => ~ReviewLast(t)
        BY <2>2
      <4>2. Ends(Append(t, "review"), i) =
              Ends(t, i) \cup (IF "review" = "review" /\ Starts(t, Len(t)) = i THEN {Len(t) + 1} ELSE {})
        BY <1>3, <4>1, EndsAppended
      <4> HIDE DEF u
      <4> QED
        BY <1>4, <3>1, <3>2, <4>2
    <3>6. Cardinality(Ends(t, n)) = Cardinality(I) /\ m \notin I
      BY <1>4, <1>5, <2>2 DEF Paced
    <3>7. \A x \in Ends(t, n) : x <= L /\ x # L
      BY <1>3, <1>18, <3>2
    <3>8. Cardinality(Ends(u, n)) = Cardinality(I \cup {m})
      <4>1. Cardinality(I \cup {m}) = Cardinality(I) + 1
        BY <1>8, <3>6, FS_AddElement
      <4>2. Ends(u, n) = Ends(t, n) \cup {L}
        BY <3>5
      <4>3. L \notin Ends(t, n)
        BY <3>7
      <4>4. Cardinality(Ends(t, n) \cup {L}) = Cardinality(Ends(t, n)) + 1
        BY <1>18, <4>3, FS_AddElement
      <4> QED
        BY <3>6, <4>1, <4>2, <4>4
    <3>9. L \notin Recorded(run) /\ L \in Nat /\ L # 0
      BY <1>3, <1>15, <3>2
    <3> HIDE DEF u
    <3>10. ReviewLast(u)
      BY <3>2, <3>9 DEF ReviewLast, L, u
    <3> QED
      BY <3>4, <3>5, <3>7, <3>8, <3>9, <3>10
  <2> QED
    BY <2>1, <2>2
<1>20. PhasesKept(r) /\ \A i : Closings(r, i) = Ends(u, i)
  <2>1. u = run.trail \/ \E x : u = Append(run.trail, x)
    BY <1>17 DEF t
  <2>2. Starts(u, Len(u)) = Len(r.cands)
    BY <1>13, <1>17, <1>19
  <2> QED
    BY <2>1, <2>2, PhasesStay
<1> DEFINE d == Batched(r, n)
<1>21. /\ CandidateProjectable(r, n)
       /\ DOMAIN d = CandidateFields /\ \A f \in CandidateFields \ {"batches"} : d[f] = c[f]
       /\ d.batches = c.batches \cup
             (IF FullBatch(c, m) THEN {[iteration |-> m, axes |-> FreshAxes(c), closing |-> L]} ELSE {})
       /\ Round(u, n, d)
  <2>1. c = r.cands[n] /\ Closings(r, n) = Ends(r.trail, n) /\ Round(t, n, o)
    BY <1>2, <1>4, <1>13, <1>17, <1>20
  <2> HIDE DEF u, L, d, I
  <2>2. /\ L \in Nat /\ (\A x \in Ends(t, n) : x <= L) /\ Ends(r.trail, n) = Ends(t, n) \cup {L}
        /\ Cardinality(Ends(r.trail, n)) = Cardinality(Iterations(o) \cup {m})
    BY <1>19 DEF u, I
  <2>3. Answered(c, o, m) /\ UpTo(Iterations(o), m)
    BY <1>5, <1>7, <1>8, <1>9, <1>10, <1>11 DEF Answered, UpTo
  <2>4. UpTo(Ends(t, n), L)
    BY <1>18, <2>2 DEF UpTo
  <2> HIDE DEF m, new
  <2> QED
    BY <1>7, <2>1, <2>2, <2>3, <2>4, AnsweredRound DEF d, u
<1>22. ASSUME NEW i \in 1..n, i # n
       PROVE  /\ CandidateProjectable(r, i) /\ Round(u, i, run.cands[i])
              /\ \A f \in CandidateFields : Batched(r, i)[f] = run.cands[i][f]
  <2>1. r.cands[i] = run.cands[i] /\ DOMAIN run.cands[i] = CandidateFields
    BY <1>13, <1>17, <1>22 DEF Lasts, Lasting, n
  <2>2. Round(u, i, run.cands[i])
    BY <1>4, <1>19, <1>22, RoundMoved
  <2> QED
    BY <1>20, <2>1, <2>2, RoundFits
<1>23. refused' # "timing" /\ (run' = Projected(r) \/ run' = run)
  <2>1. \A i \in DOMAIN r.cands : CandidateProjectable(r, i)
    BY <1>13, <1>17, <1>21, <1>22
  <2>2. Timed(r)
    BY <1>20, <2>1 DEF Timed
  <2> QED
    BY <1>1, <2>2 DEF Persist, r
<1>24. CASE run' = run
  BY <1>23, <1>24

<1>25. CASE run' = Projected(r)
  <2>1. /\ run'.trail = u /\ run'.pending = draft.pending /\ DOMAIN run'.cands = 1..n /\ Len(run'.cands) = n
        /\ \A i \in 1..n : run'.cands[i] = Batched(r, i)
    <3> DEFINE cands == [i \in DOMAIN r.cands |-> Batched(r, i)]
               S == {Batched(r, i) : i \in 1..n}
    <3>1. run'.trail = u /\ run'.cands = cands /\ run'.pending = r.pending
      BY <1>17, <1>25 DEF Projected, RunFields
    <3>2. cands \in [1..n -> S] /\ \A i \in 1..n : cands[i] = Batched(r, i)
      BY <1>13, <1>17
    <3>3. Len(cands) = n
      BY <1>2, <3>2, SequenceOf
    <3> HIDE DEF cands
    <3> QED
      BY <1>17, <3>1, <3>2, <3>3
  <2> HIDE DEF u, L, d, I
  <2>2. Latest(run') = d
    BY <1>2, <2>1 DEF Latest, d
  <2>3. /\ d.iteration = m /\ d.reviews = c.reviews /\ d.derivation = c.derivation
        /\ d.specialistReviews = c.specialistReviews /\ d.accepted = c.accepted
        /\ d.rejected = c.rejected
    BY <1>7, <1>21 DEF CandidateFields
  <2>4. ASSUME NEW i \in 1..n
        PROVE  Round(u, i, run'.cands[i])
    <3>1. CASE i = n
      BY <1>21, <2>1, <3>1 DEF d
    <3>2. CASE i # n
      <4> DEFINE e == run'.cands[i]
                 f == run.cands[i]
      <4>1. Round(u, i, f) /\ \A x \in CandidateFields : e[x] = f[x]
        BY <1>22, <2>1, <3>2
      <4> HIDE DEF e, f
      <4>2. /\ e.iteration = f.iteration /\ e.reviews = f.reviews /\ e.batches = f.batches
            /\ e.derivation = f.derivation
        BY <4>1 DEF CandidateFields
      <4>3. Round(u, i, e)
        BY <4>1, <4>2, RoundAlike
      <4> QED
        BY <4>3 DEF e
    <3> QED
      BY <3>1, <3>2
  <2>5. BatchOf(d, m) # {} <=> FullBatch(c, m)
    <3>1. BatchOf(c, m) = {}
      BY <1>5, <1>7 DEF BatchOf
    <3>2. CASE FullBatch(c, m)
      <4> DEFINE b == [iteration |-> m, axes |-> FreshAxes(c), closing |-> L]
      <4>1. b \in d.batches /\ b.iteration = m
        BY <1>21, <3>2
      <4> QED
        BY <3>2, <4>1 DEF BatchOf
    <3>3. CASE ~FullBatch(c, m)
      <4>1. d.batches = c.batches
        BY <1>21, <3>3
      <4> QED
        BY <3>1, <3>3, <4>1 DEF BatchOf
    <3> QED
      BY <3>2, <3>3
  <2>6. Asked(d, draft.pending)
    <3>1. missingReviewAxes(d) = missingReviewAxes(c) /\ Unresolved(d) = Unresolved(c)
      BY <1>7, <2>3 DEF missingReviewAxes, RetainedAxes, CurrentAxes, Unresolved, Findings
    <3>2. d.derivation = o.derivation
      BY <1>7, <2>3
    <3> QED
      BY <1>4, <1>12, <3>1, <3>2 DEF Asked
  <2>7. Paced(u, n, d)
    <3>1. Iterations(d) = Iterations(c)
      BY <2>3 DEF Iterations
    <3>2. Iterations(d) \cup {m} = I \cup {m} /\ (FullBatch(c, m) => m \in Iterations(d))
      BY <1>9, <1>11, <3>1 DEF I
    <3>3. Cardinality(Ends(u, n)) = Cardinality(Iterations(d) \cup {m})
      BY <1>19, <3>2
    <3>4. FullBatch(c, m) => Iterations(d) \cup {m} = Iterations(d)
      BY <3>2
    <3> QED
      BY <1>19, <2>3, <2>5, <3>2, <3>3, <3>4 DEF Paced
  <2>8. L \in Recorded(run') <=> BatchOf(d, m) # {}
    <3>1. ASSUME FullBatch(c, m)
          PROVE  L \in Recorded(run')
      <4> DEFINE b == [iteration |-> m, axes |-> FreshAxes(c), closing |-> L]
      <4>1. b \in run'.cands[n].batches /\ b.closing = L
        BY <1>2, <1>21, <2>1, <3>1 DEF d
      <4> HIDE DEF b
      <4> QED
        BY <1>2, <2>1, <4>1 DEF Recorded
    <3>2. ASSUME L \in Recorded(run'), ~FullBatch(c, m)
          PROVE  FALSE
      <4>0. PICK i \in 1..n : \E b \in run'.cands[i].batches : b.closing = L
        BY <2>1, <3>2 DEF Recorded
      <4>1. PICK b \in run'.cands[i].batches : b.closing = L
        BY <4>0
      <4>2. b \in run.cands[i].batches
        <5>1. CASE i = n
          BY <1>2, <1>7, <1>21, <2>1, <3>2, <4>1, <5>1 DEF d
        <5>2. CASE i # n
          BY <1>22, <2>1, <4>1, <5>2 DEF CandidateFields
        <5> QED
          BY <5>1, <5>2
      <4>3. L \in Recorded(run)
        BY <1>2, <4>1, <4>2 DEF Recorded
      <4> QED
        BY <1>19, <4>3
    <3> QED
      BY <2>5, <3>1, <3>2
  <2>9. Starts(u, Len(u)) = n /\ Len(u) = L
    BY <1>19 DEF L
  <2>10. Tidy(run')
    BY <2>1, <2>2, <2>3, <2>4, <2>6, <2>7, <2>8, <2>9 DEF Tidy
  <2> QED
    BY <1>23, <2>10
<1> QED
  BY <1>23, <1>24, <1>25

\* An assessment with a round halfway: the timings allow it, and it is not recorded.
LEMMA AssessmentHalfway ==
    ASSUME TInv, Lasts(run), Tidy(run), ~Crossing, Halfway, NEW fresh, "standards" \in fresh,
           NEW specialists, AdmitImpactAssessment(fresh, specialists)
    PROVE  Tidy(run') /\ refused' # "timing"
<1> DEFINE p == Reobserved
           o == Latest(run)
           n == Len(run.cands)
           t == run.trail
           m == o.iteration
           derivation == [status |-> IF fresh # ReviewAxes \/ specialists # {} THEN "pending"
                                     ELSE "unconfirmed",
                          fresh |-> fresh, specialists |-> specialists, of |-> <<p.iteration, p.exposure>>]
           c == [p EXCEPT !.derivation = derivation]
           draft == Replace(run, c)
           r == Stamp(draft, "other")
           L == Len(t)
<1>1. Steady /\ Persist(draft, "other")
  BY DEF AdmitImpactAssessment
<1>2. /\ run.cands # <<>> /\ n \in Nat /\ n # 0 /\ n \in 1..n /\ DOMAIN run = RunFields
      /\ DOMAIN run.cands = 1..n /\ o = run.cands[n] /\ Lasting(o) /\ DOMAIN p = CandidateFields
      /\ \A f \in CandidateFields \ {"class", "effects", "exposure", "specialists"} : p[f] = o[f]
  BY <1>1, SteadyLasts, ReobservedLasts DEF Lasts, Lasting
<1>3. t \in Seq({"start", "review", "other"}) /\ L \in Nat /\ (t = <<>> <=> L = 0)
  BY RunType DEF TInv, RunTyped
<1>4. ReviewLast(t) /\ L \notin Recorded(run)
  BY <1>3 DEF Halfway, ReviewLast
<1>5. /\ Starts(t, L) = n /\ \A i \in 1..n : Round(t, i, run.cands[i])
      /\ Paced(t, n, o) /\ BatchOf(o, m) = {}
  BY <1>2, <1>4 DEF Tidy
<1>6. Cardinality(Ends(t, n)) = Cardinality(Iterations(o) \cup {m})
  BY <1>4, <1>5 DEF Paced
<1> HIDE DEF p, o, n, t, L, derivation
<1>7. /\ DOMAIN c = CandidateFields /\ c.derivation = derivation
      /\ \A f \in CandidateFields \ {"derivation"} : c[f] = p[f]
  BY <1>2 DEF CandidateFields
<1> HIDE DEF c
<1>8. c.iteration = m /\ c.reviews = o.reviews /\ c.batches = o.batches
  BY <1>2, <1>7 DEF CandidateFields
<1>9. Iterations(c) = Iterations(o) /\ BatchOf(c, m) = {}
  BY <1>5, <1>8 DEF Iterations, BatchOf
<1>10. "standards" \in FreshAxes(c)
  BY <1>7 DEF FreshAxes, derivation, ReviewAxes
<1>11. Answered(c, o, m)
  <2>1. FullBatch(c, m) => m \in Iterations(c)
    BY <1>9, <1>10 DEF FullBatch, Iterations
  <2> QED
    BY <1>5, <1>8, <1>9, <2>1 DEF Answered
<1>12. UpTo(Iterations(o), m)
  BY <1>2, IterationsCounted DEF UpTo, Lasting, Numbered
<1>13. UpTo(Ends(t, n), L) /\ L \in Ends(t, n)
  <2>1. IsFiniteSet(Ends(t, n)) /\ Ends(t, n) \in SUBSET Nat /\ Ends(t, n) \subseteq 1..L
    BY <1>3, EndsFinite DEF L
  <2>2. L \in Ends(t, n)
    BY <1>3, <1>4, <1>5 DEF Ends, ReviewLast, L
  <2> QED
    BY <1>3, <2>1, <2>2 DEF UpTo
<1>14. DOMAIN draft = RunFields /\ draft.trail = t
  BY <1>2, ReplaceFields DEF RunFields, t
<1>15. draft.cands = [run.cands EXCEPT ![n] = c]
  BY <1>2 DEF Replace, RunFields, n
<1> HIDE DEF draft
<1>16. DOMAIN r = RunFields /\ r.cands = draft.cands /\ r.trail = Append(t, "other")
  <2>1. r = [draft EXCEPT !.trail = Append(t, "other")]
    BY <1>3, <1>4, <1>14 DEF Stamp, ReviewLast, L
  <2> HIDE DEF r
  <2> QED
    BY <1>14, <2>1 DEF RunFields
<1> HIDE DEF r
<1>17. /\ DOMAIN r.cands = 1..n /\ Len(r.cands) = n /\ r.cands[n] = c
       /\ \A i \in 1..n : i # n => r.cands[i] = run.cands[i]
  <2>1. /\ DOMAIN r.cands = 1..n /\ r.cands[n] = c
        /\ \A i \in 1..n : i # n => r.cands[i] = run.cands[i]
    BY <1>2, <1>15, <1>16
  <2> DEFINE S == {r.cands[i] : i \in 1..n}
  <2>2. r.cands = [i \in 1..n |-> r.cands[i]]
    BY <1>15, <1>16, <2>1
  <2>3. \A i \in 1..n : r.cands[i] \in S
    OBVIOUS
  <2> HIDE DEF S
  <2>4. r.cands \in [1..n -> S]
    BY <2>2, <2>3
  <2>5. Len(r.cands) = n
    BY <1>2, <2>4, SequenceOf
  <2> QED
    BY <2>1, <2>5
<1>18. Len(r.trail) = L + 1 /\ Starts(r.trail, Len(r.trail)) = n
  <2>1. Len(r.trail) = L + 1
    BY <1>3, <1>16 DEF L
  <2>2. Starts(r.trail, L + 1) = Starts(t, L) + 0
    BY <1>3, <1>16, StartsAppended DEF L
  <2> QED
    BY <1>2, <1>5, <2>1, <2>2
<1>19. \A i : Ends(r.trail, i) = Ends(t, i)
  <2> SUFFICES ASSUME NEW i
               PROVE  Ends(r.trail, i) = Ends(t, i)
    OBVIOUS
  <2>1. "other" = "review" => ~ReviewLast(t)
    OBVIOUS
  <2>2. Ends(Append(t, "other"), i) = Ends(t, i) \cup {}
    BY <1>3, <2>1, EndsAppended
  <2> QED
    BY <1>16, <2>2
<1>20. PhasesKept(r) /\ \A i : Closings(r, i) = Ends(r.trail, i)
  <2>1. r.trail = run.trail \/ \E x : r.trail = Append(run.trail, x)
    BY <1>16 DEF t
  <2> QED
    BY <1>17, <1>18, <2>1, PhasesStay
<1>21. CandidateProjectable(r, n)
  <2>1. Round(t, n, o) /\ Closings(r, n) = Ends(r.trail, n) /\ c = r.cands[n]
    BY <1>2, <1>5, <1>17, <1>20
  <2>2. Ends(r.trail, n) = Ends(t, n) \cup {L}
    BY <1>13, <1>19
  <2>3. Cardinality(Ends(r.trail, n)) = Cardinality(Iterations(o) \cup {m})
    BY <1>6, <1>19
  <2> HIDE DEF m
  <2> QED
    BY <1>7, <1>11, <1>12, <1>13, <2>1, <2>2, <2>3, AnsweredRound
<1>22. ASSUME NEW i \in 1..n, i # n
       PROVE  CandidateProjectable(r, i)
  <2>1. r.cands[i] = run.cands[i] /\ DOMAIN run.cands[i] = CandidateFields
    BY <1>17, <1>22 DEF Lasts, Lasting, n
  <2>2. Round(r.trail, i, run.cands[i])
    BY <1>5, <1>19, RoundMoved
  <2> QED
    BY <1>20, <2>1, <2>2, RoundFits
<1>23. refused' # "timing" /\ (run' = Projected(r) \/ run' = run)
  <2>1. Timed(r)
    BY <1>17, <1>20, <1>21, <1>22 DEF Timed
  <2> QED
    BY <1>1, <2>1 DEF Persist, r
<1>24. run' # Projected(r)
  <2> SUFFICES ASSUME run' = Projected(r)
               PROVE  FALSE
    OBVIOUS
  <2> DEFINE cands == [i \in DOMAIN r.cands |-> Batched(r, i)]
             S == {Batched(r, i) : i \in 1..n}
  <2>1. run'.trail = r.trail /\ run'.cands = cands
    BY <1>16 DEF Projected, RunFields
  <2>2. cands \in [1..n -> S]
    BY <1>17
  <2>3. Len(cands) = n
    BY <1>2, <2>2, SequenceOf
  <2>4. r.trail # t
    <3>1. L + 1 # L
      BY <1>3
    <3> QED
      BY <1>18, <3>1 DEF L
  <2> HIDE DEF cands
  <2> QED
    BY <2>1, <2>3, <2>4 DEF Crossing, n, t
<1> QED
  BY <1>23, <1>24

-------------------------------------------------------------------------------
(* No transition is refused for its timings, unless something crosses a round *)

RInv == KInv /\ Tidy(run) /\ ReviewsClose

\* No timing and no candidate.
LEMMA InitTidy == Init => RInv
<1> SUFFICES ASSUME Init
             PROVE  RInv
  OBVIOUS
<1>1. KInv
  BY InitLasts
<1>2. run.cands = <<>> /\ run.trail = <<>> /\ refused = "none"
  BY DEF Init
<1>3. Len(run.cands) = 0 /\ Len(run.trail) = 0 /\ 1..0 = {}
  BY <1>2
<1>4. Starts(run.trail, 0) = 0
  <2>1. {q \in 1..0 : run.trail[q] = "start"} = {}
    BY <1>3
  <2> QED
    BY <2>1, FS_EmptySet DEF Starts
<1> HIDE DEF Init
<1>5. Tidy(run)
  BY <1>3, <1>4 DEF Tidy
<1> QED
  BY <1>1, <1>2, <1>5 DEF RInv, ReviewsClose

\* Every action that neither loses nor crosses anything, and a stutter.
LEMMA NextTidy == RInv /\ [Next]_vars /\ [~Losing /\ ~Crossing]_vars => RInv'
<1> SUFFICES ASSUME RInv, [Next]_vars, [~Losing /\ ~Crossing]_vars
             PROVE  RInv'
  OBVIOUS
<1>1. TInv /\ Lasts(run) /\ Tidy(run) /\ refused # "timing"
  BY DEF RInv, KInv, ReviewsClose
<1>2. KInv'
  BY NextLasts DEF RInv
<1>3. Tidy(run') /\ refused' # "timing"
  <2>1. CASE run' = run /\ refused' = refused
    <3>1. Tidy(run')
      BY <1>1, <2>1
    <3> QED
      BY <1>1, <2>1, <3>1
  <2>2. CASE UNCHANGED vars
    BY <2>1, <2>2 DEF vars
  <2>3. CASE Next /\ ~Losing /\ ~Crossing
    <3>1. ~Losing /\ ~Crossing
      BY <2>3
    <3>2. CASE RequireBranch \/ ObserveRiskFails
      <4>1. Persist(run, "other")
        BY <3>2 DEF RequireBranch, ObserveRiskFails
      <4> QED
        BY <1>1, <3>1, <4>1, NothingDone
    <3>3. CASE RequireCleanWorkspace \/ ReadinessLost \/ RefuseImpactAssessment
      <4>1. Steady /\ Persist(Replace(run, Reobserved), "other")
        BY <3>3 DEF RequireCleanWorkspace, Reviewed, Plain, ReadinessLost, Settled, RefuseImpactAssessment
      <4> QED
        BY <1>1, <3>1, <4>1, ReobservedRounds
    <3>4. CASE RequestRepair
      BY <1>1, <3>4, RequestRounds
    <3>5. ASSUME NEW outcome \in {"unobserved", "unsandboxed", "focused"}, NewCandidate(outcome)
          PROVE  Tidy(run') /\ refused' # "timing"
      BY <1>1, <3>1, <3>5, StartRounds
    <3>6. CASE Escalate
      BY <1>1, <3>1, <3>6, EscalationRounds
    <3>7. ASSUME NEW axes \in SUBSET ReviewAxes, NEW findings \in SUBSET axes,
                 ExecuteReviews(axes, findings) \/ SupplyReviews(axes, findings)
          PROVE  Tidy(run') /\ refused' # "timing"
      <4> DEFINE c == WithReviews(Reobserved, axes, findings)
      <4>1. Settled /\ Persist(IF missingReviewAxes(c) = {} THEN Asking(c) ELSE Replace(run, c), "review")
        BY <3>7 DEF ExecuteReviews, SupplyReviews, Plain
      <4>2. missingReviewAxes(Reobserved) # {}
        <5>1. CASE ExecuteReviews(axes, findings)
          BY <5>1 DEF ExecuteReviews
        <5>2. CASE SupplyReviews(axes, findings)
          <6>1. run.cands # <<>>
            BY <1>1, <4>1, SteadyLasts DEF Settled
          <6>2. missingReviewAxes(Latest(run)) # {}
            BY <3>1, <5>2, <6>1 DEF Crossing
          <6> QED
            BY <1>1, <6>1, <6>2, ReobservedLasts
        <5> QED
          BY <3>7, <5>1, <5>2
      <4> QED
        BY <1>1, <4>1, <4>2, ReviewRounds
    <3>8. ASSUME NEW bs \in SUBSET Boundaries, NEW findings \in SUBSET bs,
                 ExecuteSpecialists(bs, findings) \/ SupplySpecialists(bs, findings)
          PROVE  Tidy(run') /\ refused' # "timing"
      BY <1>1, <3>1, <3>8, SpecialistsRounds
    <3>9. ASSUME NEW valid, ProveBoundaries(valid)
          PROVE  Tidy(run') /\ refused' # "timing"
      BY <1>1, <3>1, <3>9, ProofsRounds
    <3>10. ASSUME NEW valid, NEW unchanged, Conclude(valid, unchanged)
           PROVE  Tidy(run') /\ refused' # "timing"
      BY <1>1, <3>1, <3>10, ConcludeRounds
    <3>11. ASSUME NEW accepted, NEW class, ApplyRepair(accepted, class)
           PROVE  Tidy(run') /\ refused' # "timing"
      BY <1>1, <3>1, <3>11, AdjudicationRounds
    <3>12. ASSUME NEW fresh \in {{"standards"}, ReviewAxes}, NEW specialists,
                  AdmitImpactAssessment(fresh, specialists)
           PROVE  Tidy(run') /\ refused' # "timing"
      <4>1. "standards" \in fresh
        BY DEF ReviewAxes
      <4> QED
        BY <1>1, <3>1, <3>12, <4>1, AssessmentRounds, AssessmentHalfway
    <3>13. ASSUME NEW accepted \in BOOLEAN, AdmitImpactConfirmation(accepted)
           PROVE  Tidy(run') /\ refused' # "timing"
      BY <1>1, <3>1, <3>13, ConfirmationRounds
    <3>14. CASE CandidateFailsCI
      BY <1>1, <3>1, <3>14, FailureRounds
    <3>15. CASE PlainAdvance
      BY <3>15, <3>2, <3>3, <3>4, <3>5, <3>6, <3>7, <3>8, <3>9, <3>10 DEF PlainAdvance
    <3>16. CASE OtherAdvance
      BY <3>16, <3>2, <3>3, <3>5, <3>7, <3>8, <3>9, <3>10, <3>11, <3>12, <3>13 DEF OtherAdvance
    <3>17. CASE Environment
      <4>1. CandidateFailsCI \/ (run' = run /\ refused' = refused)
        BY <3>17 DEF Environment, Develop, SwitchBranch, TouchWorkspace, Reclassify, UNCHANGEDRun
      <4> QED
        BY <2>1, <3>14, <4>1
    <3> QED
      BY <2>3, <3>15, <3>16, <3>17 DEF Next
  <2> QED
    BY <2>2, <2>3
<1> QED
  BY <1>2, <1>3 DEF RInv, ReviewsClose

\* The timings of the reviews fit their iterations, so that no transition is refused for what
\* earlier ones have recorded: whatever the reviewers answer and in which order, whatever is
\* adjudicated, repaired, escalated or retained.  The steps that Losing and Crossing name are all
\* there is to what may be refused.
THEOREM RoundsClose == Spec /\ [][~Losing /\ ~Crossing]_vars => []ReviewsClose
<1>1. RInv => ReviewsClose
  BY DEF RInv
<1>2. Spec /\ [][~Losing /\ ~Crossing]_vars => []RInv
  BY InitTidy, NextTidy, PTL DEF Spec
<1> QED
  BY <1>1, <1>2, PTL

===============================================================================
