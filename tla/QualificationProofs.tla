-------------------------- MODULE QualificationProofs --------------------------
(***************************************************************************)
(* The safety of qualification, for any issues, questions and callers, and *)
(* for answers of any content in any order.                                *)
(***************************************************************************)
EXTENDS Qualification, FiniteSetTheorems, WellFoundedInduction, TLAPS

-------------------------------------------------------------------------------
(* The inductive invariant *)

\* Each question was decided once, in order: as far as the authority goes.
Traceable(a) ==
    /\ \A d, e \in a.decisions : d.request = e.request => d = e
    /\ \A d \in a.decisions :
          IF d.request = Supply
          THEN a.issue.questions \subseteq Decided(a.decisions) /\ Owned(a.issue, a.decisions) = {}
          ELSE /\ d.request \in a.issue.questions
               /\ \A q \in a.issue.questions :
                     Rank(q) < Rank(d.request) => q \in Decided(a.decisions)

\* A finite sequence, whatever it is of.
IsSequence(s) == s \in Seq({s[i] : i \in DOMAIN s})

Fields == {"id", "authority", "pendingDecision", "state", "matrix", "request", "approved",
           "reviews", "corrections", "candidate", "trail"}

\* The fields of a record, and the ranges of those with one.
Typed(r) ==
    /\ DOMAIN r = Fields
    /\ r.state \in States /\ r.approved \in BOOLEAN /\ r.candidate \in BOOLEAN
    /\ r.pendingDecision \in Questions \cup {Supply, None} /\ r.authority \in Authority
    /\ IsSequence(r.reviews) /\ IsSequence(r.corrections)

\* An authority that still waits for a decision has nothing yet.
Pending(r) ==
    /\ r.state = "needs-decision" /\ r.matrix = None /\ r.request = None
    /\ ~r.approved /\ ~r.candidate /\ r.reviews = <<>> /\ r.corrections = <<>>

\* The matrix is the compiler's until the first correction, and the last correction's then.
MatrixCurrent(r) ==
    /\ r.matrix \in Matrix /\ r.matrix.rows = Rows(r.authority)
    /\ r.corrections = <<>> => r.matrix = CompiledMatrix(r.authority)
    /\ r.corrections # <<>> =>
          /\ r.matrix = r.corrections[Len(r.corrections)].matrix
          /\ r.matrix.class \in {"plain", "bound"}

\* The corrections that answer reviewers come after the one that answers the compiler.
Offset(r) == IF r.corrections # <<>> /\ ByCompiler(r.corrections[1]) THEN 1 ELSE 0
Answered(r) == Len(r.corrections) - Offset(r)

\* Each reviewer's rejection but the last is answered, and the next review is of the answer.
Alternating(r) ==
    /\ \A i \in DOMAIN r.reviews : r.reviews[i].authority = r.authority
    /\ Offset(r) = 1 => validateCompilerQualificationCorrection(r, r.corrections[1])
    /\ \A i \in 1..Answered(r) :
          LET c == r.corrections[i + Offset(r)] IN
          /\ i \in DOMAIN r.reviews /\ c.authority = r.authority /\ c.findings # {}
          /\ c.reviewed = r.reviews[i].matrix /\ c.findings = r.reviews[i].findings
          /\ i < Len(r.reviews) => r.reviews[i + 1].matrix = c.matrix

LastReview(r) == r.reviews[Len(r.reviews)]

\* The compiler's request comes before any answer.
AsksForProse(r) ==
    /\ r.request # None /\ r.request = compilerQualificationCorrectionRequest(r.authority, r.matrix)
    /\ r.state = "needs-decision" /\ ~r.approved /\ r.reviews = <<>> /\ r.corrections = <<>>

\* A reviewer's request is what the last review says of the matrix.
AsksForAnswer(r) ==
    /\ r.request # None /\ r.request = RejectionRequest(LastReview(r)) /\ r.reviews # <<>>
    /\ r.state = "needs-decision" /\ ~r.approved
    /\ LastReview(r).findings # {} /\ LastReview(r).matrix = r.matrix
    /\ Len(r.reviews) = Answered(r) + 1

\* An approval is the last review, of the matrix of the last correction.
HasApproval(r) ==
    /\ r.request = None /\ r.state # "needs-decision" /\ r.approved
    /\ r.corrections # <<>> /\ r.reviews # <<>>
    /\ LastReview(r).findings = {} /\ LastReview(r).matrix = r.matrix
    /\ Len(r.reviews) = Answered(r) + 1

\* With nothing asked and nothing approved every review is answered.
HasAnswers(r) ==
    /\ r.request = None /\ r.state # "needs-decision" /\ ~r.approved
    /\ Len(r.reviews) = Answered(r)

Awaiting(r) == AsksForProse(r) \/ AsksForAnswer(r) \/ HasApproval(r) \/ HasAnswers(r)

RunSafe(r) ==
    /\ Typed(r) /\ Traceable(r.authority)
    /\ r.pendingDecision # None => Pending(r)
    /\ r.pendingDecision = None => MatrixCurrent(r) /\ Alternating(r) /\ Awaiting(r)

\* A loop goes on at most once: what it stopped for was its first deterministic pause.
LoopSafe(l) ==
    \/ l = Idle
    \/ l.status = "again" /\ l.declared \in Profiles /\ \E signature : l.seen = {signature}

IInv ==
    /\ issue \in Issues /\ edits \in 0..MaxEdits /\ developed \in BOOLEAN
    /\ DOMAIN loop = Callers /\ \A c \in Callers : LoopSafe(loop[c])
    /\ run # None => RunSafe(run)

-------------------------------------------------------------------------------
(* Sequences *)

\* A finite sequence has its length, and is not empty when that is not zero.
LEMMA SequenceFacts ==
    ASSUME NEW s, IsSequence(s)
    PROVE  /\ Len(s) \in Nat /\ DOMAIN s = 1..Len(s)
           /\ s = <<>> <=> Len(s) = 0
  BY DEF IsSequence

\* Appending keeps what there is.
LEMMA AppendedFacts ==
    ASSUME NEW s, IsSequence(s), NEW e
    PROVE  LET t == Append(s, e) IN
           /\ IsSequence(t) /\ t # <<>> /\ Len(t) = Len(s) + 1 /\ t[Len(s) + 1] = e
           /\ \A i \in 1..Len(s) : t[i] = s[i]
<1> DEFINE S == {s[i] : i \in DOMAIN s} \cup {e}
           t == Append(s, e)
<1>1. s \in Seq(S) /\ e \in S
  BY DEF IsSequence
<1> HIDE DEF S
<1>2. /\ t \in Seq(S) /\ t # <<>> /\ Len(t) = Len(s) + 1 /\ t[Len(s) + 1] = e
      /\ \A i \in 1..Len(s) : t[i] = s[i]
  BY <1>1
<1> HIDE DEF t
<1>3. t \in Seq({t[i] : i \in DOMAIN t})
  BY <1>2
<1> QED
  BY <1>2, <1>3 DEF IsSequence, t

-------------------------------------------------------------------------------
(* The authority *)

\* A question has a place in the order, and no two have the same.
LEMMA RankFacts ==
    ASSUME NEW q \in Questions
    PROVE  Rank(q) \in Nat /\ QuestionOrder[Rank(q)] = q
<1>1. \E i \in DOMAIN QuestionOrder : QuestionOrder[i] = q
  BY DEF Questions
<1>2. Rank(q) \in DOMAIN QuestionOrder /\ QuestionOrder[Rank(q)] = q
  BY <1>1 DEF Rank
<1> QED
  BY <1>2, QualificationAssumption

\* Of some questions one comes first.
LEMMA FirstQuestion ==
    ASSUME NEW S \in SUBSET Questions, S # {}
    PROVE  \E q \in S : \A p \in S : Rank(q) <= Rank(p)
<1> DEFINE N == {Rank(q) : q \in S}
<1>1. N \subseteq Nat /\ N # {}
  BY RankFacts
<1>2. \E n \in N : \A m \in N : ~(m < n)
  <2>1. PICK n \in N : \A m \in N : <<m, n>> \notin OpToRel(<, Nat)
    BY <1>1, NatLessThanWellFounded, WFMin
  <2> QED
    BY <1>1, <2>1, Zenon DEF OpToRel
<1>3. PICK q \in S : \A m \in N : ~(m < Rank(q))
  BY <1>2
<1>4. \A p \in S : Rank(q) <= Rank(p)
  BY <1>3, RankFacts
<1> QED
  BY <1>4

\* The next decision is the first open question; without one it is that for a criterion, when
\* nothing is owned and it was not taken, or none.
LEMMA NextRequest ==
    ASSUME NEW i \in Issues, NEW decisions
    PROVE  LET open == i.questions \ Decided(decisions)
               next == nextDecisionRequest(i, decisions)
           IN  /\ next \in Questions \cup {Supply, None}
               /\ open # {} => next \in open /\ next \in Questions /\ \A p \in open : Rank(next) <= Rank(p)
               /\ open = {} => next \notin Questions
               /\ (open = {} /\ next # None) => (next = Supply /\ Supply \notin Decided(decisions))
<1> DEFINE open == i.questions \ Decided(decisions)
           next == nextDecisionRequest(i, decisions)
<1>1. open \in SUBSET Questions
  BY QualificationAssumption
<1>2. CASE open # {}
  <2>1. \E q \in open : \A p \in open : Rank(q) <= Rank(p)
    BY <1>1, <1>2, FirstQuestion
  <2>2. next = CHOOSE q \in open : \A p \in open : Rank(q) <= Rank(p)
    BY <1>2 DEF nextDecisionRequest
  <2> HIDE DEF open, next
  <2>3. next \in open /\ \A p \in open : Rank(next) <= Rank(p)
    BY <2>1, <2>2
  <2> QED
    BY <1>1, <1>2, <2>3 DEF open, next
<1>3. CASE open = {}
  <2>1. next = IF Owned(i, decisions) = {} /\ Supply \notin Decided(decisions) THEN Supply ELSE None
    BY <1>3 DEF nextDecisionRequest
  <2> HIDE DEF open, next
  <2>2. next = None \/ (next = Supply /\ Supply \notin Decided(decisions))
    BY <2>1
  <2> QED
    BY <1>3, <2>2, PlaceholderAssumption DEF open, next
<1> QED
  BY <1>2, <1>3

\* No question is decided twice.
Unambiguous(decisions) == \A d, e \in decisions : d.request = e.request => d = e

\* An authority takes over decisions only as far as its questions were reached, in order.
LEMMA AppliedTraceable ==
    ASSUME NEW i \in Issues, NEW decisions \in SUBSET Decision, Unambiguous(decisions)
    PROVE  authorityDigest(i, decisions) \in Authority /\ Traceable(authorityDigest(i, decisions))
<1> DEFINE next == nextDecisionRequest(i, decisions)
           open == i.questions \ Decided(decisions)
           reached == {q \in i.questions : next \in Questions => Rank(q) < Rank(next)}
           supplied == IF next = None /\ Owned(i, decisions) = {} THEN {Supply} ELSE {}
           applied == Applied(i, decisions)
           a == authorityDigest(i, decisions)
<1>1. a = [issue |-> i, decisions |-> applied]
  BY DEF authorityDigest
<1>2. applied = {d \in decisions : d.request \in reached \cup supplied}
  BY DEF Applied
<1>3. i.questions \subseteq Questions
  BY QualificationAssumption
<1>4. /\ open # {} => next \in open /\ next \in Questions /\ \A p \in open : Rank(next) <= Rank(p)
      /\ open = {} => next \notin Questions
  BY NextRequest
<1>5. next # None \/ open = {}
  BY <1>4, PlaceholderAssumption
<1>6. reached \subseteq i.questions /\ Supply \notin reached
  BY <1>3, PlaceholderAssumption
<1>7. ASSUME NEW q \in reached PROVE q \in Decided(applied)
  <2>1. q \notin open
    <3> SUFFICES ASSUME q \in open PROVE FALSE
      OBVIOUS
    <3>1. next \in Questions /\ Rank(next) <= Rank(q)
      BY <1>4
    <3>2. Rank(q) < Rank(next) /\ q \in Questions
      BY <1>3, <3>1
    <3>3. Rank(q) \in Nat /\ Rank(next) \in Nat
      BY <3>1, <3>2, RankFacts
    <3> HIDE DEF next
    <3> QED
      BY <3>1, <3>2, <3>3
  <2>2. q \in Decided(decisions)
    BY <1>6, <2>1
  <2>3. PICK d \in decisions : d.request = q
    BY <2>2 DEF Decided
  <2>4. d \in applied
    BY <1>2, <2>3
  <2> QED
    BY <2>3, <2>4 DEF Decided
<1> HIDE DEF next, applied
<1>8. ASSUME NEW d \in applied, d.request = Supply
      PROVE  i.questions \subseteq Decided(applied) /\ Owned(i, applied) = {}
  <2>1. next = None /\ Owned(i, decisions) = {}
    BY <1>2, <1>6, <1>8
  <2>2. reached = i.questions
    BY <1>4, <1>5, <2>1
  <2>3. Owned(i, applied) = {}
    BY <1>2, <2>1 DEF Owned
  <2> QED
    BY <1>7, <2>2, <2>3
<1>9. ASSUME NEW d \in applied, d.request # Supply
      PROVE  /\ d.request \in i.questions
             /\ \A q \in i.questions : Rank(q) < Rank(d.request) => q \in Decided(applied)
  <2>1. d.request \in reached
    BY <1>2, <1>9
  <2>2. ASSUME NEW q \in i.questions, Rank(q) < Rank(d.request) PROVE q \in reached
    <3>1. d.request \in Questions /\ q \in Questions
      BY <1>3, <2>1
    <3>2. Rank(q) \in Nat /\ Rank(d.request) \in Nat /\ (next \in Questions => Rank(next) \in Nat)
      BY <3>1, RankFacts
    <3>3. next \in Questions => Rank(d.request) < Rank(next)
      BY <2>1
    <3>4. next \in Questions => Rank(q) < Rank(next)
      BY <2>2, <3>2, <3>3
    <3> QED
      BY <3>4
  <2> QED
    BY <1>7, <2>1, <2>2
<1>10. applied \subseteq decisions
  BY <1>2
<1>11. a \in Authority
  BY <1>1, <1>10 DEF Authority
<1>12. a.issue = i /\ a.decisions = applied
  BY <1>1
<1>13. \A d, e \in applied : d.request = e.request => d = e
  BY <1>10 DEF Unambiguous
<1> HIDE DEF a
<1>14. Traceable(a)
  BY <1>8, <1>9, <1>12, <1>13 DEF Traceable
<1> QED
  BY <1>11, <1>14 DEF a

\* What is compiled from the decisions taken so far and at most one more, when it is asked for.
LEMMA Compiled ==
    ASSUME NEW i \in Issues, NEW prior \in SUBSET Decision, Unambiguous(prior),
           NEW offered \in Decision \cup {None}, compileAuthority(i, prior, offered) # None
    PROVE  LET c == compileAuthority(i, prior, offered) IN
           /\ c.authority \in Authority /\ Traceable(c.authority) /\ c.authority.issue = i
           /\ c.pending \in Questions \cup {Supply, None}
<1> DEFINE asked == nextDecisionRequest(i, prior)
           taken == IF offered = None THEN prior ELSE prior \cup {offered}
           c == compileAuthority(i, prior, offered)
<1>1. /\ offered = None \/ (asked # None /\ offered.request = asked)
      /\ c = [authority |-> authorityDigest(i, taken), pending |-> nextDecisionRequest(i, taken)]
  BY DEF compileAuthority
<1>2. offered # None => offered.request \notin Decided(prior)
  <2> SUFFICES ASSUME offered # None PROVE asked \notin Decided(prior)
    BY <1>1
  <2>1. asked # None
    BY <1>1
  <2> QED
    BY <2>1, NextRequest
<1>3. taken \in SUBSET Decision /\ Unambiguous(taken)
  <2>1. \A d \in prior : d.request \in Decided(prior)
    BY DEF Decided
  <2> QED
    BY <1>2, <2>1 DEF Unambiguous
<1> HIDE DEF taken, asked, c
<1>4. /\ authorityDigest(i, taken) \in Authority /\ Traceable(authorityDigest(i, taken))
      /\ nextDecisionRequest(i, taken) \in Questions \cup {Supply, None}
  BY <1>3, AppliedTraceable, NextRequest
<1>5. authorityDigest(i, taken).issue = i
  BY DEF authorityDigest
<1> QED
  BY <1>1, <1>4, <1>5 DEF c

-------------------------------------------------------------------------------
(* Records *)

\* An authority asks for something that can be stated.
LEMMA RowsFacts ==
    ASSUME NEW a \in Authority
    PROVE  /\ Rows(a) # {} /\ Rows(a) \subseteq a.issue.criteria \cup Questions \cup {Supply}
           /\ Rows(a) \in SUBSET Stated
<1>1. a.issue \in Issues
  BY DEF Authority
<1>2. a.issue.questions \subseteq Questions
  BY <1>1, QualificationAssumption
<1>3. Owned(a.issue, a.decisions) \subseteq a.issue.criteria \cup Questions
  BY <1>2 DEF Owned
<1>4. a.issue.criteria \subseteq Stated /\ Questions \cup {Supply} \subseteq Stated
  BY <1>1 DEF Stated
<1> QED
  BY <1>3, <1>4 DEF Rows

\* What the compiler writes and asks of it.
LEMMA CompiledFacts ==
    ASSUME NEW a \in Authority
    PROVE  LET m == CompiledMatrix(a)
               q == compilerQualificationCorrectionRequest(a, m)
           IN  /\ m \in Matrix /\ m.rows = Rows(a) /\ m.class = "marker"
               /\ q \in Request /\ q # None
<1> DEFINE m == CompiledMatrix(a)
           q == compilerQualificationCorrectionRequest(a, m)
<1>1. m = [rows |-> Rows(a), class |-> "marker", text |-> None]
  BY DEF CompiledMatrix
<1> HIDE DEF m
<1>2. m \in Matrix /\ m.rows = Rows(a) /\ m.class = "marker"
  BY <1>1, RowsFacts DEF Matrix, Classes
<1>3. q = [by |-> "compiler", authority |-> a, matrix |-> m, findings |-> m.rows]
  BY DEF compilerQualificationCorrectionRequest
<1> HIDE DEF q
<1>4. q \in Request
  BY <1>2, <1>3, RowsFacts DEF Request
<1>5. q # None
  BY <1>4, PlaceholderAssumption
<1> QED
  BY <1>2, <1>4, <1>5 DEF m, q

\* A matrix is not absent.
LEMMA MatrixPresent == \A m \in Matrix : m # None
  BY PlaceholderAssumption

\* Settling changes the state and the trail.
LEMMA Settled ==
    ASSUME NEW r, DOMAIN r = Fields, NEW state
    PROVE  LET t == Settle(r, state) IN
           /\ DOMAIN t = Fields /\ t.state = state
           /\ t.authority = r.authority /\ t.pendingDecision = r.pendingDecision
           /\ t.matrix = r.matrix /\ t.request = r.request /\ t.approved = r.approved
           /\ t.reviews = r.reviews /\ t.corrections = r.corrections /\ t.candidate = r.candidate
  BY DEF Settle, Fields

\* A new run waits for a decision, for what the compiler asks, or for a dependency.
LEMMA NewRunSafe ==
    ASSUME issue \in Issues, NEW c, c.authority \in Authority, Traceable(c.authority),
           c.pending \in Questions \cup {Supply, None}
    PROVE  RunSafe(NewRun(c)) /\ NewRun(c).state \in {"needs-decision", "blocked"}
<1> DEFINE n == NewRun(c)
           m == CompiledMatrix(c.authority)
           q == compilerQualificationCorrectionRequest(c.authority, m)
<1>1. /\ DOMAIN n = Fields /\ n.authority = c.authority /\ n.pendingDecision = c.pending
      /\ n.approved = FALSE /\ n.candidate = FALSE /\ n.reviews = <<>> /\ n.corrections = <<>>
  BY DEF NewRun, Fields
<1>2. /\ n.matrix = IF c.pending # None THEN None ELSE m
      /\ n.request = IF c.pending # None \/ issue.blocking THEN None ELSE q
  BY DEF NewRun
<1>3. n.state = IF c.pending = None /\ issue.blocking THEN "blocked" ELSE "needs-decision"
  BY DEF NewRun
<1>4. IsSequence(n.reviews) /\ IsSequence(n.corrections)
  BY <1>1 DEF IsSequence
<1>5. /\ m \in Matrix /\ m.rows = Rows(c.authority) /\ q # None
  BY CompiledFacts
<1> HIDE DEF n, m, q
<1>6. n.approved \in BOOLEAN /\ n.candidate \in BOOLEAN
  BY <1>1, Zenon
<1>7. n.state \in {"needs-decision", "blocked"}
  BY <1>3
<1>8. Typed(n)
  BY <1>1, <1>4, <1>6, <1>7 DEF Typed, States
<1>9. ~n.approved /\ ~n.candidate
  BY <1>1, Zenon
<1>10. n.pendingDecision # None => Pending(n)
  BY <1>1, <1>2, <1>3, <1>9 DEF Pending
<1>11. ASSUME n.pendingDecision = None
       PROVE  MatrixCurrent(n) /\ Alternating(n) /\ Awaiting(n)
  <2>1. n.matrix = m /\ m = CompiledMatrix(n.authority)
    BY <1>1, <1>2, <1>11 DEF m
  <2>2. MatrixCurrent(n)
    BY <1>1, <1>5, <2>1 DEF MatrixCurrent
  <2>3. Offset(n) = 0 /\ Len(n.corrections) = 0 /\ Len(n.reviews) = 0 /\ DOMAIN n.reviews = {}
    BY <1>1 DEF Offset
  <2>4. Answered(n) = 0
    BY <2>3 DEF Answered
  <2>5. Alternating(n)
    BY <2>3, <2>4 DEF Alternating
  <2>6. CASE issue.blocking
    <3>1. HasAnswers(n)
      BY <1>1, <1>2, <1>3, <1>11, <1>9, <2>3, <2>4, <2>6 DEF HasAnswers
    <3> QED
      BY <2>2, <2>5, <3>1 DEF Awaiting
  <2>7. CASE ~issue.blocking
    <3>1. n.request = q /\ n.state = "needs-decision"
      BY <1>1, <1>2, <1>3, <1>11, <2>7
    <3>2. q = compilerQualificationCorrectionRequest(n.authority, n.matrix)
      BY <1>1, <2>1 DEF q
    <3>3. AsksForProse(n)
      BY <1>1, <1>5, <1>9, <3>1, <3>2 DEF AsksForProse
    <3> QED
      BY <2>2, <2>5, <3>3 DEF Awaiting
  <2> QED
    BY <2>6, <2>7
<1> QED
  BY <1>1, <1>7, <1>8, <1>10, <1>11 DEF RunSafe, n

\* The history is judged by the authority, the reviews and the corrections alone.
LEMMA SameHistory ==
    ASSUME NEW r, NEW t, t.authority = r.authority, t.reviews = r.reviews,
           t.corrections = r.corrections
    PROVE  Offset(t) = Offset(r) /\ Answered(t) = Answered(r) /\ (Alternating(r) => Alternating(t))
<1>1. Offset(t) = Offset(r) /\ Answered(t) = Answered(r)
  BY DEF Offset, Answered
<1> QED
  BY <1>1 DEF Alternating, validateCompilerQualificationCorrection, validateQualificationMatrixShape

\* The numbers of answers and of corrections.
LEMMA AnsweredFacts ==
    ASSUME NEW r, Typed(r)
    PROVE  /\ Offset(r) \in {0, 1} /\ Answered(r) \in Nat
           /\ Len(r.corrections) \in Nat /\ Len(r.reviews) \in Nat
           /\ Answered(r) + Offset(r) = Len(r.corrections)
           /\ DOMAIN r.reviews = 1..Len(r.reviews) /\ DOMAIN r.corrections = 1..Len(r.corrections)
           /\ (r.reviews = <<>> <=> Len(r.reviews) = 0)
           /\ (r.corrections = <<>> <=> Len(r.corrections) = 0)
<1>1. /\ Len(r.corrections) \in Nat /\ Len(r.reviews) \in Nat
      /\ DOMAIN r.reviews = 1..Len(r.reviews) /\ DOMAIN r.corrections = 1..Len(r.corrections)
      /\ (r.reviews = <<>> <=> Len(r.reviews) = 0)
      /\ (r.corrections = <<>> <=> Len(r.corrections) = 0)
  BY SequenceFacts DEF Typed
<1>2. Offset(r) \in {0, 1} /\ (Offset(r) = 1 => r.corrections # <<>>)
  BY DEF Offset
<1>3. Offset(r) <= Len(r.corrections)
  BY <1>1, <1>2
<1> QED
  BY <1>1, <1>2, <1>3 DEF Answered

-------------------------------------------------------------------------------
(* Answers *)

\* A matrix that an operator wrote has rows, a class and a text.
Written(m) ==
    /\ m = [rows |-> m.rows, class |-> m.class, text |-> m.text]
    /\ m.class \in Classes /\ m.text \in Texts \cup {None}

\* A correction that is accepted answers what was asked, in kind, with a matrix of its own.
LEMMA CorrectSafe ==
    ASSUME NEW r, RunSafe(r), r.request # None, NEW c, Written(c.matrix),
           validateQualificationCorrection(r, c), ~requiresQualificationCorrection(c.matrix)
    PROVE  RunSafe(Settle([r EXCEPT !.matrix = c.matrix, !.corrections = Append(@, c),
                                    !.request = None, !.approved = FALSE], "needs-review"))
<1> DEFINE u == [r EXCEPT !.matrix = c.matrix, !.corrections = Append(@, c),
                          !.request = None, !.approved = FALSE]
           t == Settle(u, "needs-review")
           n == Len(r.corrections)
           last == LastReview(r)
<1>1. Typed(r) /\ Traceable(r.authority) /\ r.pendingDecision = None
  BY DEF RunSafe, Pending
<1>2. /\ MatrixCurrent(r) /\ Alternating(r) /\ (AsksForProse(r) \/ AsksForAnswer(r))
  BY <1>1 DEF RunSafe, Awaiting, HasApproval, HasAnswers
<1>3. /\ DOMAIN u = Fields /\ u.matrix = c.matrix /\ u.corrections = Append(r.corrections, c)
      /\ u.request = None /\ u.approved = FALSE /\ u.reviews = r.reviews
      /\ u.authority = r.authority /\ u.pendingDecision = r.pendingDecision
      /\ u.candidate = r.candidate
  BY <1>1 DEF Typed, Fields
<1> HIDE DEF u
<1>4. /\ DOMAIN t = Fields /\ t.state = "needs-review"
      /\ t.matrix = c.matrix /\ t.corrections = Append(r.corrections, c)
      /\ t.request = None /\ t.approved = FALSE /\ t.reviews = r.reviews
      /\ t.authority = r.authority /\ t.pendingDecision = r.pendingDecision
      /\ t.candidate = r.candidate
  BY <1>3, Settled
<1> HIDE DEF t
<1>5. /\ IsSequence(t.corrections) /\ t.corrections # <<>> /\ Len(t.corrections) = n + 1
      /\ t.corrections[n + 1] = c /\ \A i \in 1..n : t.corrections[i] = r.corrections[i]
  BY <1>1, <1>4, AppendedFacts DEF Typed
<1>6. Typed(t)
  <2>1. t.approved \in BOOLEAN
    BY <1>4, Zenon
  <2> QED
    BY <1>1, <1>4, <1>5, <2>1 DEF Typed, States
<1>7. /\ c.id = RequestId(r.request) /\ c.authority = r.request.authority
      /\ c.reviewed = r.request.matrix /\ c.findings = r.request.findings
      /\ c.matrix.rows = Rows(r.authority)
  BY DEF validateQualificationCorrection, validateQualificationMatrixShape
<1>8. c.matrix.class \in {"plain", "bound"}
  BY DEF validateQualificationCorrection, specificQualificationText,
         validateCompilerQualificationBindings
<1>9. MatrixCurrent(t)
  <2>1. r.authority \in Authority
    BY <1>1 DEF Typed
  <2>2. c.matrix \in Matrix
    BY <1>7, <2>1, RowsFacts DEF Written, Matrix
  <2> QED
    BY <1>4, <1>5, <1>7, <1>8, <2>2, AnsweredFacts, <1>1 DEF MatrixCurrent
<1>10. /\ Offset(r) \in {0, 1} /\ Answered(r) \in Nat /\ n \in Nat /\ Len(r.reviews) \in Nat
       /\ Answered(r) + Offset(r) = n /\ DOMAIN r.reviews = 1..Len(r.reviews)
       /\ (r.reviews = <<>> <=> Len(r.reviews) = 0) /\ (r.corrections = <<>> <=> n = 0)
  BY <1>1, AnsweredFacts
<1>11. ASSUME AsksForProse(r) PROVE Alternating(t) /\ HasAnswers(t)
  <2>1. /\ r.request = compilerQualificationCorrectionRequest(r.authority, r.matrix)
        /\ r.matrix = CompiledMatrix(r.authority) /\ n = 0 /\ Len(r.reviews) = 0
    BY <1>2, <1>10, <1>11 DEF AsksForProse, MatrixCurrent
  <2>2. c.id = <<r.request.authority, r.request.matrix, r.request.findings>> /\ r.request.by = "compiler"
    BY <1>7, <2>1 DEF RequestId, compilerQualificationCorrectionRequest
  <2>3. t.corrections[1] = c /\ ByCompiler(c)
    BY <1>5, <2>1, <2>2 DEF ByCompiler
  <2>4. Offset(t) = 1 /\ Answered(t) = 0
    BY <1>5, <2>1, <2>3 DEF Offset, Answered
  <2>5. validateCompilerQualificationCorrection(t, c)
    <3>1. validateCompilerQualificationBindings(c)
      BY <2>2 DEF validateQualificationCorrection
    <3> QED
      BY <1>4, <1>7, <2>1, <3>1
      DEF validateCompilerQualificationCorrection, validateQualificationMatrixShape
  <2>6. Alternating(t)
    BY <1>2, <1>4, <2>3, <2>4, <2>5 DEF Alternating
  <2>7. ~t.approved
    BY <1>4, Zenon
  <2> QED
    BY <1>4, <2>1, <2>4, <2>6, <2>7 DEF HasAnswers
<1>12. ASSUME AsksForAnswer(r) PROVE Alternating(t) /\ HasAnswers(t)
  <2>1. /\ r.request = RejectionRequest(last) /\ last.findings # {} /\ last.matrix = r.matrix
        /\ Len(r.reviews) = Answered(r) + 1 /\ last = r.reviews[Len(r.reviews)]
    BY <1>12 DEF AsksForAnswer, LastReview
  <2>2. last.authority = r.authority
    BY <1>2, <1>10, <2>1 DEF Alternating
  <2>3. /\ c.authority = r.authority /\ c.findings = last.findings /\ c.reviewed = last.matrix
        /\ c.id = <<>>
    BY <1>7, <2>1, <2>2 DEF RejectionRequest, RequestId
  <2>4. Offset(t) = Offset(r)
    <3>1. ~ByCompiler(c)
      BY <2>3 DEF ByCompiler
    <3>2. CASE n = 0
      BY <1>5, <1>10, <3>1, <3>2 DEF Offset
    <3>3. CASE n # 0
      BY <1>5, <1>10, <3>3 DEF Offset
    <3> QED
      BY <3>2, <3>3
  <2>5. Answered(t) = Answered(r) + 1
    BY <1>5, <1>10, <2>4 DEF Answered
  <2>6. Offset(t) = 1 => validateCompilerQualificationCorrection(t, t.corrections[1])
    <3>1. Offset(r) = 1 => validateCompilerQualificationCorrection(r, r.corrections[1]) /\ n >= 1
      BY <1>2, <1>10 DEF Alternating
    <3>2. Offset(r) = 1 => t.corrections[1] = r.corrections[1]
      BY <1>5, <1>10, <3>1
    <3> QED
      BY <1>4, <2>4, <3>1, <3>2
      DEF validateCompilerQualificationCorrection, validateQualificationMatrixShape
  <2>7. ASSUME NEW i \in 1..Answered(t)
        PROVE  LET d == t.corrections[i + Offset(t)] IN
               /\ i \in DOMAIN t.reviews /\ d.authority = t.authority /\ d.findings # {}
               /\ d.reviewed = t.reviews[i].matrix /\ d.findings = t.reviews[i].findings
               /\ i < Len(t.reviews) => t.reviews[i + 1].matrix = d.matrix
    <3>1. CASE i <= Answered(r)
      <4>1. i \in 1..Answered(r) /\ i + Offset(r) \in 1..n
        BY <1>10, <2>5, <3>1
      <4>2. t.corrections[i + Offset(t)] = r.corrections[i + Offset(r)]
        BY <1>5, <2>4, <4>1
      <4> QED
        BY <1>2, <1>4, <4>1, <4>2 DEF Alternating
    <3>2. CASE ~(i <= Answered(r))
      <4>1. i = Answered(r) + 1 /\ i = Len(r.reviews) /\ i + Offset(r) = n + 1
        BY <1>10, <2>1, <2>5, <3>2
      <4>2. t.corrections[i + Offset(t)] = c
        BY <1>5, <2>4, <4>1
      <4>3. i \in DOMAIN t.reviews /\ t.reviews[i] = last /\ ~(i < Len(t.reviews))
        BY <1>4, <1>10, <2>1, <4>1
      <4> QED
        BY <1>4, <2>1, <2>3, <4>2, <4>3
    <3> QED
      BY <3>1, <3>2
  <2>8. Alternating(t)
    BY <1>2, <1>4, <2>6, <2>7 DEF Alternating
  <2>9. ~t.approved
    BY <1>4, Zenon
  <2> QED
    BY <1>4, <2>1, <2>5, <2>8, <2>9 DEF HasAnswers
<1>13. Alternating(t) /\ Awaiting(t)
  BY <1>2, <1>11, <1>12 DEF Awaiting
<1> QED
  BY <1>1, <1>4, <1>6, <1>9, <1>13 DEF RunSafe, t, u

\* With nothing asked, a matrix there and no approval, every review is answered.
LEMMA Unasked ==
    ASSUME NEW r, RunSafe(r), r.request = None, r.matrix # None
    PROVE  /\ Typed(r) /\ Traceable(r.authority) /\ r.pendingDecision = None
           /\ MatrixCurrent(r) /\ Alternating(r) /\ (HasApproval(r) \/ HasAnswers(r))
           /\ r.state # "needs-decision"
  BY DEF RunSafe, Pending, Awaiting, AsksForProse, AsksForAnswer, HasApproval, HasAnswers

\* A review that is taken is of the matrix, and the rejections before it were answered by it.
LEMMA Reviewed ==
    ASSUME NEW r, RunSafe(r), r.request = None, ~r.approved, NEW review,
           validateQualificationReview(r, review), NEW t, DOMAIN t = Fields,
           t.reviews = Append(r.reviews, review), t.corrections = r.corrections,
           t.authority = r.authority
    PROVE  /\ IsSequence(t.reviews) /\ t.reviews # <<>> /\ LastReview(t) = review
           /\ Len(t.reviews) = Answered(t) + 1 /\ Alternating(t)
<1> DEFINE n == Len(r.reviews)
<1>1. /\ Typed(r) /\ MatrixCurrent(r) /\ Alternating(r) /\ HasAnswers(r)
  BY Unasked DEF validateQualificationReview, HasApproval
<1>2. /\ Offset(r) \in {0, 1} /\ Answered(r) \in Nat /\ n \in Nat
      /\ Answered(r) + Offset(r) = Len(r.corrections) /\ DOMAIN r.reviews = 1..n
      /\ (r.corrections = <<>> <=> Len(r.corrections) = 0)
  BY <1>1, AnsweredFacts
<1>3. n = Answered(r)
  BY <1>1 DEF HasAnswers
<1>4. /\ IsSequence(t.reviews) /\ t.reviews # <<>> /\ Len(t.reviews) = n + 1
      /\ t.reviews[n + 1] = review /\ \A i \in 1..n : t.reviews[i] = r.reviews[i]
  BY <1>1, AppendedFacts DEF Typed
<1>5. Offset(t) = Offset(r) /\ Answered(t) = Answered(r)
  BY DEF Offset, Answered
<1>6. /\ review.matrix = r.matrix /\ review.authority = r.authority
  BY DEF validateQualificationReview
<1>7. DOMAIN t.reviews = 1..(n + 1)
  BY <1>4, SequenceFacts
<1>8. \A i \in DOMAIN t.reviews : t.reviews[i].authority = t.authority
  <2> SUFFICES ASSUME NEW i \in 1..(n + 1) PROVE t.reviews[i].authority = r.authority
    BY <1>7
  <2>1. CASE i \in 1..n
    BY <1>1, <1>2, <1>4, <2>1 DEF Alternating
  <2>2. CASE i = n + 1
    BY <1>4, <1>6, <2>2
  <2> QED
    BY <1>2, <2>1, <2>2
<1>9. Offset(t) = 1 => validateCompilerQualificationCorrection(t, t.corrections[1])
  BY <1>1, <1>5
  DEF Alternating, validateCompilerQualificationCorrection, validateQualificationMatrixShape
<1>10. ASSUME NEW i \in 1..Answered(t)
       PROVE  LET c == t.corrections[i + Offset(t)] IN
              /\ i \in DOMAIN t.reviews /\ c.authority = t.authority /\ c.findings # {}
              /\ c.reviewed = t.reviews[i].matrix /\ c.findings = t.reviews[i].findings
              /\ i < Len(t.reviews) => t.reviews[i + 1].matrix = c.matrix
  <2> DEFINE c == r.corrections[i + Offset(r)]
  <2>1. i \in 1..n /\ i \in 1..Answered(r) /\ i \in DOMAIN t.reviews
    BY <1>2, <1>3, <1>5, <1>7
  <2>2. /\ c.authority = r.authority /\ c.findings # {}
        /\ c.reviewed = r.reviews[i].matrix /\ c.findings = r.reviews[i].findings
        /\ i < n => r.reviews[i + 1].matrix = c.matrix
    BY <1>1, <2>1 DEF Alternating
  <2>3. t.reviews[i] = r.reviews[i]
    BY <1>4, <2>1
  <2>4. t.reviews[i + 1].matrix = c.matrix
    <3>1. CASE i < n
      <4>1. i + 1 \in 1..n
        BY <1>2, <2>1, <3>1
      <4> QED
        BY <1>4, <2>2, <3>1, <4>1
    <3>2. CASE i = n
      <4>1. i + Offset(r) = Len(r.corrections) /\ r.corrections # <<>>
        BY <1>2, <1>3, <2>1, <3>2
      <4>2. r.matrix = c.matrix
        BY <1>1, <4>1 DEF MatrixCurrent
      <4> QED
        BY <1>4, <1>6, <3>2, <4>2
    <3> QED
      BY <1>2, <2>1, <3>1, <3>2
  <2>5. t.corrections[i + Offset(t)] = c
    BY <1>5
  <2> HIDE DEF c
  <2> QED
    BY <2>1, <2>2, <2>3, <2>4, <2>5
<1>11. Alternating(t)
  BY <1>8, <1>9, <1>10 DEF Alternating
<1> QED
  BY <1>3, <1>4, <1>5, <1>11 DEF LastReview

\* A review of the matrix rejects it, which asks for answers, or approves one that is not the
\* compiler's.
LEMMA JudgeSafe ==
    ASSUME NEW r, RunSafe(r), r.request = None, NEW review,
           Judge(r, review).kind \in {"unchanged", "persisted"}
    PROVE  RunSafe(Judge(r, review).run)
<1> DEFINE s == [r EXCEPT !.reviews = Append(@, review)]
           a == [s EXCEPT !.approved = TRUE]
           q == [s EXCEPT !.request = RejectionRequest(review), !.approved = FALSE]
<1>1. ~r.approved /\ validateQualificationReview(r, review)
  BY DEF Judge, Refused
<1>2. /\ Typed(r) /\ Traceable(r.authority) /\ r.pendingDecision = None
      /\ MatrixCurrent(r) /\ r.state # "needs-decision"
  BY <1>1, Unasked DEF validateQualificationReview
<1>3. /\ DOMAIN s = Fields /\ s.reviews = Append(r.reviews, review)
      /\ s.corrections = r.corrections /\ s.authority = r.authority
      /\ s.pendingDecision = r.pendingDecision /\ s.matrix = r.matrix
      /\ s.candidate = r.candidate /\ s.request = r.request /\ s.state = r.state
  BY <1>2 DEF Typed, Fields
<1> HIDE DEF s
<1>4. CASE review.findings = {}
  <2> DEFINE t == Settle(a, "needs-review")
  <2>1. Judge(r, review).run = t /\ ~requiresQualificationCorrection(r.matrix)
    BY <1>1, <1>4 DEF Judge, Refused, Persisted, s
  <2>2. /\ DOMAIN a = Fields /\ a.approved = TRUE /\ a.reviews = s.reviews
        /\ a.corrections = s.corrections /\ a.authority = s.authority
        /\ a.pendingDecision = s.pendingDecision /\ a.matrix = s.matrix
        /\ a.candidate = s.candidate /\ a.request = s.request
    BY <1>3 DEF Fields
  <2> HIDE DEF a
  <2>3. /\ DOMAIN t = Fields /\ t.state = "needs-review" /\ t.approved = TRUE
        /\ t.reviews = Append(r.reviews, review) /\ t.corrections = r.corrections
        /\ t.authority = r.authority /\ t.pendingDecision = r.pendingDecision
        /\ t.matrix = r.matrix /\ t.candidate = r.candidate /\ t.request = r.request
    BY <1>3, <2>2, Settled
  <2> HIDE DEF t
  <2>4. /\ IsSequence(t.reviews) /\ t.reviews # <<>> /\ LastReview(t) = review
        /\ Len(t.reviews) = Answered(t) + 1 /\ Alternating(t)
    BY <1>1, <2>3, Reviewed
  <2>5. t.approved \in BOOLEAN /\ t.approved
    BY <2>3, Zenon
  <2>6. Typed(t)
    BY <1>2, <2>3, <2>4, <2>5 DEF Typed, States
  <2>7. MatrixCurrent(t)
    BY <1>2, <2>3 DEF MatrixCurrent
  <2>8. t.corrections # <<>>
    <3>1. r.corrections = <<>> => r.matrix.class = "marker" /\ r.matrix # None
      BY <1>2, MatrixPresent DEF MatrixCurrent, CompiledMatrix
    <3> QED
      BY <2>1, <2>3, <3>1 DEF requiresQualificationCorrection
  <2>9. HasApproval(t)
    BY <1>1, <1>4, <2>3, <2>4, <2>5, <2>8 DEF HasApproval, validateQualificationReview
  <2> QED
    BY <1>2, <2>1, <2>3, <2>4, <2>6, <2>7, <2>9 DEF RunSafe, Awaiting
<1>5. CASE review.findings # {}
  <2> DEFINE t == Settle(q, "needs-decision")
  <2>1. Judge(r, review).run = t
    BY <1>1, <1>5 DEF Judge, Persisted, s
  <2>2. /\ DOMAIN q = Fields /\ q.approved = FALSE /\ q.reviews = s.reviews
        /\ q.corrections = s.corrections /\ q.authority = s.authority
        /\ q.pendingDecision = s.pendingDecision /\ q.matrix = s.matrix
        /\ q.candidate = s.candidate /\ q.request = RejectionRequest(review)
    BY <1>3 DEF Fields
  <2> HIDE DEF q
  <2>3. /\ DOMAIN t = Fields /\ t.state = "needs-decision" /\ t.approved = FALSE
        /\ t.reviews = Append(r.reviews, review) /\ t.corrections = r.corrections
        /\ t.authority = r.authority /\ t.pendingDecision = r.pendingDecision
        /\ t.matrix = r.matrix /\ t.candidate = r.candidate /\ t.request = RejectionRequest(review)
    BY <1>3, <2>2, Settled
  <2> HIDE DEF t
  <2>4. /\ IsSequence(t.reviews) /\ t.reviews # <<>> /\ LastReview(t) = review
        /\ Len(t.reviews) = Answered(t) + 1 /\ Alternating(t)
    BY <1>1, <2>3, Reviewed
  <2>5. t.approved \in BOOLEAN /\ ~t.approved
    BY <2>3, Zenon
  <2>6. Typed(t)
    BY <1>2, <2>3, <2>4, <2>5 DEF Typed, States
  <2>7. MatrixCurrent(t)
    BY <1>2, <2>3 DEF MatrixCurrent
  <2>8. RejectionRequest(review) # None
    <3>1. review.authority \in Authority /\ review.matrix \in Matrix /\ review.findings \in SUBSET Stated
      BY <1>1, <1>2, RowsFacts DEF validateQualificationReview, Typed, MatrixCurrent
    <3>2. RejectionRequest(review) \in Request
      BY <3>1 DEF RejectionRequest, Request
    <3> QED
      BY <3>2, PlaceholderAssumption
  <2>9. AsksForAnswer(t)
    BY <1>1, <1>5, <2>3, <2>4, <2>5, <2>8 DEF AsksForAnswer, validateQualificationReview
  <2> QED
    BY <1>2, <2>1, <2>3, <2>4, <2>6, <2>7, <2>9 DEF RunSafe, Awaiting
<1> QED
  BY <1>4, <1>5

\* The compiler asks for prose as long as the matrix is its own.
LEMMA RecompiledSafe ==
    ASSUME NEW r, RunSafe(r), r.request = None, ~r.approved, requiresQualificationCorrection(r.matrix)
    PROVE  RunSafe(Settle([r EXCEPT !.request =
                      compilerQualificationCorrectionRequest(r.authority, r.matrix)], "needs-decision"))
<1> DEFINE q == compilerQualificationCorrectionRequest(r.authority, r.matrix)
           u == [r EXCEPT !.request = q]
           t == Settle(u, "needs-decision")
<1>1. r.matrix # None /\ r.matrix.class = "marker"
  BY DEF requiresQualificationCorrection
<1>2. /\ Typed(r) /\ Traceable(r.authority) /\ r.pendingDecision = None
      /\ MatrixCurrent(r) /\ Alternating(r) /\ HasAnswers(r)
  BY <1>1, Unasked DEF HasApproval
<1>3. r.corrections = <<>> /\ r.matrix = CompiledMatrix(r.authority)
  BY <1>1, <1>2 DEF MatrixCurrent
<1>4. r.reviews = <<>>
  BY <1>2, <1>3, AnsweredFacts DEF HasAnswers
<1>5. q # None
  BY <1>2, <1>3, CompiledFacts DEF Typed
<1> HIDE DEF q
<1>6. /\ DOMAIN u = Fields /\ u.request = q /\ u.reviews = r.reviews /\ u.approved = r.approved
      /\ u.corrections = r.corrections /\ u.authority = r.authority
      /\ u.pendingDecision = r.pendingDecision /\ u.matrix = r.matrix /\ u.candidate = r.candidate
  BY <1>2 DEF Typed, Fields
<1> HIDE DEF u
<1>7. /\ DOMAIN t = Fields /\ t.state = "needs-decision" /\ t.request = q
      /\ t.reviews = r.reviews /\ t.approved = r.approved
      /\ t.corrections = r.corrections /\ t.authority = r.authority
      /\ t.pendingDecision = r.pendingDecision /\ t.matrix = r.matrix /\ t.candidate = r.candidate
  BY <1>6, Settled
<1> HIDE DEF t
<1>8. Typed(t)
  BY <1>2, <1>7 DEF Typed, States
<1>9. MatrixCurrent(t)
  BY <1>2, <1>7 DEF MatrixCurrent
<1>10. Alternating(t)
  BY <1>2, <1>7, SameHistory
<1>11. AsksForProse(t)
  BY <1>3, <1>4, <1>5, <1>7 DEF AsksForProse, q
<1> QED
  BY <1>2, <1>7, <1>8, <1>9, <1>10, <1>11 DEF RunSafe, Awaiting, t, u, q

\* Waiting for development, and taking its candidate, change neither the matrix nor its history.
LEMMA HandedOver ==
    ASSUME NEW r, RunSafe(r), r.request = None, advanceAssurance(r).kind \in {"unchanged", "persisted"}
    PROVE  /\ RunSafe(advanceAssurance(r).run)
           /\ \/ advanceAssurance(r).run.candidate
              \/ advanceAssurance(r).run.state = "waiting"
<1> DEFINE a == advanceAssurance(r)
           m == IF r.corrections = <<>> THEN r.matrix ELSE r.corrections[Len(r.corrections)].matrix
           u == [r EXCEPT !.candidate = TRUE,
                          !.matrix = IF r.corrections = <<>> THEN @
                                     ELSE r.corrections[Len(r.corrections)].matrix]
<1>1. CASE r.candidate
  BY <1>1 DEF advanceAssurance, Unchanged
<1>2. CASE ~r.candidate
  <2>1. r.matrix # None
    BY <1>2 DEF advanceAssurance, Died
  <2>2. /\ Typed(r) /\ Traceable(r.authority) /\ r.pendingDecision = None
        /\ MatrixCurrent(r) /\ Alternating(r) /\ (HasApproval(r) \/ HasAnswers(r))
    BY <2>1, Unasked
  <2>3. ASSUME NEW t, DOMAIN t = Fields, t.candidate \in BOOLEAN, t.matrix = r.matrix,
               t.state \in {"waiting", "needs-review"},
               t.request = r.request, t.reviews = r.reviews, t.approved = r.approved,
               t.corrections = r.corrections, t.authority = r.authority,
               t.pendingDecision = r.pendingDecision
        PROVE  RunSafe(t)
    <3>1. Typed(t)
      BY <2>2, <2>3 DEF Typed, States
    <3>2. MatrixCurrent(t)
      BY <2>2, <2>3 DEF MatrixCurrent
    <3>3. Alternating(t) /\ Answered(t) = Answered(r)
      BY <2>2, <2>3, SameHistory
    <3>4. HasApproval(t) \/ HasAnswers(t)
      BY <2>2, <2>3, <3>3 DEF HasApproval, HasAnswers, LastReview
    <3> QED
      BY <2>2, <2>3, <3>1, <3>2, <3>3, <3>4 DEF RunSafe, Awaiting
  <2>4. CASE ~developed /\ r.state = "waiting"
    BY <1>2, <2>1, <2>4 DEF advanceAssurance, Unchanged
  <2>5. CASE ~developed /\ r.state # "waiting"
    <3> DEFINE t == Settle(r, "waiting")
    <3>1. a.run = t
      BY <1>2, <2>1, <2>5 DEF advanceAssurance, Persisted
    <3>2. DOMAIN r = Fields /\ r.candidate \in BOOLEAN
      BY <2>2 DEF Typed
    <3>3. /\ DOMAIN t = Fields /\ t.state = "waiting" /\ t.matrix = r.matrix
          /\ t.request = r.request /\ t.reviews = r.reviews /\ t.approved = r.approved
          /\ t.corrections = r.corrections /\ t.authority = r.authority
          /\ t.pendingDecision = r.pendingDecision /\ t.candidate = r.candidate
      BY <3>2, Settled
    <3> HIDE DEF t
    <3>4. RunSafe(t)
      BY <2>3, <3>2, <3>3
    <3> QED
      BY <3>1, <3>3, <3>4
  <2>6. CASE developed
    <3> DEFINE t == Settle(u, "needs-review")
    <3>1. a.run = t
      BY <1>2, <2>1, <2>6 DEF advanceAssurance, Persisted
    <3>2. m = r.matrix
      BY <2>2 DEF MatrixCurrent
    <3>3. /\ DOMAIN u = Fields /\ u.candidate = TRUE /\ u.matrix = m
          /\ u.request = r.request /\ u.reviews = r.reviews /\ u.approved = r.approved
          /\ u.corrections = r.corrections /\ u.authority = r.authority
          /\ u.pendingDecision = r.pendingDecision
      BY <2>2 DEF Typed, Fields
    <3> HIDE DEF u, m
    <3>4. /\ DOMAIN t = Fields /\ t.state = "needs-review" /\ t.matrix = r.matrix
          /\ t.request = r.request /\ t.reviews = r.reviews /\ t.approved = r.approved
          /\ t.corrections = r.corrections /\ t.authority = r.authority
          /\ t.pendingDecision = r.pendingDecision /\ t.candidate = TRUE
      BY <3>2, <3>3, Settled
    <3> HIDE DEF t
    <3>5. t.candidate \in BOOLEAN /\ t.candidate
      BY <3>4, Zenon
    <3>6. RunSafe(t)
      BY <2>3, <3>4, <3>5
    <3> QED
      BY <3>1, <3>5, <3>6
  <2> QED
    BY <2>4, <2>5, <2>6
<1> QED
  BY <1>1, <1>2

-------------------------------------------------------------------------------
(* Advance *)

\* Whatever answers come in: the record stays safe, and no word on the matter means that
\* nothing was asked.  Without an answer, what is left is asked.
LEMMA QualificationSafe ==
    ASSUME NEW r, RunSafe(r), NEW review, NEW correction, correction # None => Written(correction.matrix)
    PROVE  LET a == advanceQualification(r, review, correction) IN
           /\ a = Unhandled => r.request = None
           /\ a # Unhandled /\ a.kind \in {"unchanged", "persisted"} =>
                 /\ RunSafe(a.run)
                 /\ review = None /\ correction = None =>
                       a.run.request # None \/ a.run.state = "needs-decision"
<1> DEFINE a == advanceQualification(r, review, correction)
           again == \/ review # None /\ LastOf(r.reviews, review)
                    \/ correction # None /\ LastOf(r.corrections, correction)
           compiles == r.state # "blocked" /\ ~r.approved /\ requiresQualificationCorrection(r.matrix)
<1>1. CASE review # None /\ correction # None
  BY <1>1 DEF advanceQualification, Refused, Unhandled
<1>2. CASE ~(review # None /\ correction # None) /\ again
  BY <1>2 DEF advanceQualification, Unchanged, Unhandled
<1>3. CASE ~(review # None /\ correction # None) /\ ~again /\ r.request # None
  <2>1. CASE correction # None
    <3>1. a = Correct(r, correction)
      BY <1>3, <2>1 DEF advanceQualification
    <3>2. CASE ~validateQualificationCorrection(r, correction)
               \/ requiresQualificationCorrection(correction.matrix)
      <4>1. a = Refused
        BY <3>1, <3>2 DEF Correct
      <4> HIDE DEF a
      <4> QED
        BY <4>1 DEF a, Refused, Unhandled
    <3>3. CASE ~(~validateQualificationCorrection(r, correction)
                 \/ requiresQualificationCorrection(correction.matrix))
      <4> DEFINE t == Settle([r EXCEPT !.matrix = correction.matrix, !.corrections = Append(@, correction),
                                       !.request = None, !.approved = FALSE], "needs-review")
      <4>1. a = Persisted(t)
        BY <3>1, <3>3 DEF Correct
      <4>2. RunSafe(t)
        BY <1>3, <2>1, <3>3, CorrectSafe
      <4> HIDE DEF a, t
      <4> QED
        BY <2>1, <4>1, <4>2 DEF a, Persisted, Unhandled
    <3> QED
      BY <3>2, <3>3
  <2>2. CASE correction = None /\ review # None
    BY <1>3, <2>2 DEF advanceQualification, Refused, Unhandled
  <2>3. CASE correction = None /\ review = None
    <3>1. a = Unchanged(r)
      BY <1>3, <2>3 DEF advanceQualification
    <3> HIDE DEF a
    <3> QED
      BY <1>3, <3>1 DEF a, Unchanged, Unhandled
  <2> QED
    BY <2>1, <2>2, <2>3
<1>4. CASE ~(review # None /\ correction # None) /\ ~again /\ r.request = None /\ correction # None
  BY <1>4 DEF advanceQualification, Refused, Unhandled
<1>5. CASE ~again /\ r.request = None /\ correction = None /\ compiles
  <2> DEFINE t == Settle([r EXCEPT !.request =
                             compilerQualificationCorrectionRequest(r.authority, r.matrix)], "needs-decision")
  <2>1. a = Persisted(t)
    BY <1>5 DEF advanceQualification
  <2>2. RunSafe(t)
    BY <1>5, RecompiledSafe
  <2>3. t.state = "needs-decision"
    BY DEF RunSafe, Typed, Settle, Fields, Pending
  <2> HIDE DEF a, t
  <2> QED
    BY <2>1, <2>2, <2>3 DEF a, Persisted, Unhandled
<1>6. CASE ~again /\ r.request = None /\ correction = None /\ ~compiles /\ review = None
  <2>1. a = Unhandled
    BY <1>6 DEF advanceQualification
  <2> QED
    BY <1>6, <2>1
<1>7. CASE ~again /\ r.request = None /\ correction = None /\ ~compiles /\ review # None
  <2>1. a = Judge(r, review)
    BY <1>7 DEF advanceQualification
  <2>2. Judge(r, review).kind \in {"unchanged", "persisted"} => RunSafe(Judge(r, review).run)
    BY <1>7, JudgeSafe
  <2> HIDE DEF a
  <2> QED
    BY <1>7, <2>1, <2>2 DEF a
<1> QED
  BY <1>1, <1>2, <1>3, <1>4, <1>5, <1>6, <1>7

\* A deterministic pause is an approved review without a candidate.
LEMMA Deterministic ==
    ASSUME NEW r, r.state \in States, PauseCause(r) = "deterministic-advance"
    PROVE  r.state = "needs-review" /\ r.request = None /\ ~r.candidate /\ r.approved
<1>1. CASE r.state = "blocked"
  BY <1>1 DEF PauseCause
<1>2. CASE r.state # "blocked" /\ (r.request # None \/ r.state = "needs-decision")
  BY <1>2 DEF PauseCause
<1>3. CASE r.state = "needs-review" /\ r.request = None /\ (r.candidate \/ ~r.approved)
  BY <1>3 DEF PauseCause
<1>4. CASE r.state = "waiting" /\ r.request = None
  BY <1>4 DEF PauseCause
<1> QED
  BY <1>1, <1>2, <1>3, <1>4 DEF States

\* One call of Advance, whatever it is given: the record it leaves is safe; given nothing, it
\* does not end in a deterministic pause.
LEMMA AdvanceSafe ==
    ASSUME issue \in Issues, run # None => RunSafe(run), NEW declared,
           NEW decision \in Decision \cup {None}, NEW review, NEW correction,
           correction # None => Written(correction.matrix),
           Advance(declared, decision, review, correction).kind \in {"unchanged", "persisted"}
    PROVE  LET result == Advance(declared, decision, review, correction) IN
           /\ RunSafe(result.run)
           /\ review = None /\ correction = None => PauseCause(result.run) # "deterministic-advance"
<1> DEFINE prior == IF run = None THEN {} ELSE run.authority.decisions
           c == compileAuthority(issue, prior, decision)
           result == Advance(declared, decision, review, correction)
           a == advanceQualification(run, review, correction)
<1>1. prior \in SUBSET Decision /\ Unambiguous(prior)
  BY DEF RunSafe, Typed, Authority, Traceable, Unambiguous
<1>2. c # None /\ (SameAuthority(c) => decision = None)
  BY DEF Advance, Refused
<1>3. /\ c.authority \in Authority /\ Traceable(c.authority)
      /\ c.pending \in Questions \cup {Supply, None}
  BY <1>1, <1>2, Compiled
<1>4. validateObservations /\ qualifyDeliveryProfile(declared)
  BY DEF Advance, Refused
<1> HIDE DEF c
<1>5. CASE ~SameAuthority(c)
  <2>1. result.run = NewRun(c)
    BY <1>2, <1>4, <1>5 DEF Advance, Persisted, c
  <2>2. RunSafe(NewRun(c)) /\ NewRun(c).state \in {"needs-decision", "blocked"}
    BY <1>3, NewRunSafe
  <2> HIDE DEF result
  <2>3. PauseCause(result.run) # "deterministic-advance"
    BY <2>1, <2>2, Deterministic DEF States
  <2> QED
    BY <2>1, <2>2, <2>3 DEF result
<1>6. CASE SameAuthority(c)
  <2>1. run # None /\ RunSafe(run)
    BY <1>6 DEF SameAuthority
  <2>2. result = IF a = Unhandled THEN advanceAssurance(run) ELSE a
    BY <1>2, <1>4, <1>6 DEF Advance, c
  <2>3. /\ a = Unhandled => run.request = None
        /\ a # Unhandled /\ a.kind \in {"unchanged", "persisted"} =>
              /\ RunSafe(a.run)
              /\ review = None /\ correction = None =>
                    a.run.request # None \/ a.run.state = "needs-decision"
    BY <2>1, QualificationSafe
  <2>4. result.kind \in {"unchanged", "persisted"}
    OBVIOUS
  <2> HIDE DEF a, result
  <2>5. CASE a = Unhandled
    <3>1. /\ RunSafe(result.run)
          /\ result.run.candidate \/ result.run.state = "waiting"
      BY <2>1, <2>2, <2>3, <2>4, <2>5, HandedOver
    <3>2. result.run.state \in States
      BY <3>1 DEF RunSafe, Typed
    <3>3. PauseCause(result.run) # "deterministic-advance"
      BY <3>1, <3>2, Deterministic
    <3> QED
      BY <3>1, <3>3 DEF result
  <2>6. CASE a # Unhandled
    <3>1. /\ RunSafe(result.run)
          /\ review = None /\ correction = None =>
                result.run.request # None \/ result.run.state = "needs-decision"
      BY <2>2, <2>3, <2>4, <2>6
    <3>2. result.run.state \in States
      BY <3>1 DEF RunSafe, Typed
    <3>3. review = None /\ correction = None => PauseCause(result.run) # "deterministic-advance"
      BY <3>1, <3>2, Deterministic
    <3> QED
      BY <3>1, <3>3 DEF result
  <2> QED
    BY <2>5, <2>6
<1> QED
  BY <1>5, <1>6

\* What operators answer with is a matrix they wrote.
LEMMA AnswersWritten ==
    ASSUME NEW request, NEW c \in Answers(request)
    PROVE  Written(c.matrix)
<1> DEFINE Matching(text) == [rows |-> request.matrix.rows, class |-> "bound", text |-> text]
           exact == {Correction(request, request.findings, "bound", Matching(text)) : text \in Texts}
<1> DEFINE partial == {[x EXCEPT !.findings = some] : x \in exact, some \in SUBSET request.findings}
           classed == {[x EXCEPT !.matrix.class = class] : x \in exact, class \in Classes}
           emptied == {[x EXCEPT !.matrix.rows = {}] : x \in exact}
           generic == {[x EXCEPT !.evidence = "generic"] : x \in exact}
<1>1. c \in exact \cup partial \cup classed \cup emptied \cup generic
  <2>1. Answers(request) = exact \cup partial \cup classed \cup emptied \cup generic
    BY DEF Answers
  <2> HIDE DEF exact, partial, classed, emptied, generic
  <2> QED
    BY <2>1
<1>2. ASSUME NEW x \in exact
      PROVE  /\ DOMAIN x = {"id", "authority", "reviewed", "findings", "evidence", "matrix"}
             /\ \E text \in Texts : x.matrix = Matching(text)
  BY DEF Correction
<1>3. "bound" \in Classes
  BY DEF Classes
<1> HIDE DEF exact
<1>4. ASSUME NEW m, NEW text \in Texts, NEW class \in Classes, NEW rows,
             m = [rows |-> rows, class |-> class, text |-> text]
      PROVE  Written(m)
  BY <1>4 DEF Written
<1>5. CASE c \in exact
  BY <1>2, <1>3, <1>4, <1>5
<1>6. CASE c \in partial
  <2>1. PICK x \in exact, some \in SUBSET request.findings : c = [x EXCEPT !.findings = some]
    BY <1>6
  <2>2. c.matrix = x.matrix
    BY <1>2, <2>1
  <2> QED
    BY <1>2, <1>3, <1>4, <2>2
<1>7. CASE c \in classed
  <2>1. PICK x \in exact, class \in Classes : c = [x EXCEPT !.matrix.class = class]
    BY <1>7
  <2>2. PICK text \in Texts : x.matrix = Matching(text)
    BY <1>2
  <2>3. c.matrix = [rows |-> request.matrix.rows, class |-> class, text |-> text]
    BY <1>2, <2>1, <2>2
  <2> QED
    BY <1>4, <2>3
<1>8. CASE c \in emptied
  <2>1. PICK x \in exact : c = [x EXCEPT !.matrix.rows = {}]
    BY <1>8, Zenon
  <2>2. PICK text \in Texts : x.matrix = Matching(text)
    BY <1>2
  <2>3. c.matrix = [rows |-> {}, class |-> "bound", text |-> text]
    BY <1>2, <2>1, <2>2
  <2> QED
    BY <1>3, <1>4, <2>3
<1>9. CASE c \in generic
  <2>1. PICK x \in exact : c = [x EXCEPT !.evidence = "generic"]
    BY <1>9, Zenon
  <2>2. c.matrix = x.matrix
    BY <1>2, <2>1
  <2> QED
    BY <1>2, <1>3, <1>4, <2>2
<1> HIDE DEF partial, classed, emptied, generic
<1> QED
  BY <1>1, <1>5, <1>6, <1>7, <1>8, <1>9

-------------------------------------------------------------------------------
(* The loop of the command *)

\* The first turn cannot find its own signature, and is allowed one more.
LEMMA ConvergeOnce ==
    ASSUME NEW r, NEW declared \in Profiles
    PROVE  LoopSafe(Converge(r, declared, {}))
<1> DEFINE signature == advanceOutcomeSignature(r)
           all == {} \cup {signature}
<1>1. CASE PauseCause(r) # "deterministic-advance"
  BY <1>1 DEF Converge, LoopSafe
<1>2. CASE PauseCause(r) = "deterministic-advance"
  <2>1. all = {signature} /\ Cardinality({signature}) = 1
    BY FS_Singleton
  <2>2. ~(1 >= MaxTransitions)
    BY QualificationAssumption
  <2> HIDE DEF signature
  <2>3. Converge(r, declared, {}) = [status |-> "again", declared |-> declared, seen |-> {signature}]
    BY <1>2, <2>1, <2>2 DEF Converge, signature
  <2> QED
    BY <2>3 DEF LoopSafe
<1> QED
  BY <1>1, <1>2

\* A pause of any other cause ends the loop.
LEMMA ConvergeQuiet ==
    ASSUME NEW r, NEW declared, NEW seen, PauseCause(r) # "deterministic-advance"
    PROVE  LoopSafe(Converge(r, declared, seen))
  BY DEF Converge, LoopSafe

-------------------------------------------------------------------------------
(* The steps *)

\* Taking a safe record with a safe loop keeps the invariant.
LEMMA Taken ==
    ASSUME IInv, NEW caller \in Callers, NEW result, NEW declared, NEW seen,
           Take(caller, result, declared, seen), RunSafe(result.run),
           LoopSafe(Converge(result.run, declared, seen))
    PROVE  IInv'
<1> DEFINE l == Converge(result.run, declared, seen)
<1>1. /\ run' = result.run /\ loop' = [loop EXCEPT ![caller] = l]
      /\ issue' = issue /\ edits' = edits /\ developed' = developed
  BY DEF Take
<1> HIDE DEF l
<1>2. DOMAIN loop' = Callers /\ \A c \in Callers : loop'[c] = IF c = caller THEN l ELSE loop[c]
  BY <1>1 DEF IInv
<1>3. \A c \in Callers : LoopSafe(loop'[c])
  BY <1>2 DEF IInv, l
<1>4. RunSafe(run')
  BY <1>1
<1> QED
  BY <1>1, <1>2, <1>3, <1>4 DEF IInv

\* A call keeps it, whatever it carries.
LEMMA Called ==
    ASSUME IInv, NEW caller \in Callers, NEW declared \in Profiles,
           NEW decision \in Decision \cup {None}, NEW review, NEW correction,
           correction # None => Written(correction.matrix),
           Call(caller, declared, decision, review, correction)
    PROVE  IInv'
<1> DEFINE result == Advance(declared, decision, review, correction)
<1>1. result.kind \in {"unchanged", "persisted"} /\ Take(caller, result, declared, {})
  BY DEF Call, Bounded
<1>2. RunSafe(result.run)
  BY <1>1, AdvanceSafe DEF IInv
<1>3. LoopSafe(Converge(result.run, declared, {}))
  BY ConvergeOnce
<1> HIDE DEF result
<1> QED
  BY <1>1, <1>2, <1>3, Taken

\* At the start there is no record and no loop has begun.
LEMMA InitSafe == Init => IInv
<1> SUFFICES ASSUME Init
             PROVE  IInv
  OBVIOUS
<1>1. DOMAIN loop = Callers /\ \A c \in Callers : loop[c] = Idle
  BY DEF Init
<1>2. issue \in Issues /\ edits = 0 /\ developed = FALSE /\ run = None
  BY DEF Init
<1>3. edits \in 0..MaxEdits
  BY <1>2, QualificationAssumption
<1>4. developed \in BOOLEAN
  BY <1>2, Zenon
<1> QED
  BY <1>1, <1>2, <1>3, <1>4 DEF IInv, LoopSafe

\* Every action, and a stutter.
LEMMA NextSafe == IInv /\ [Next]_vars => IInv'
<1> SUFFICES ASSUME IInv, [Next]_vars
             PROVE  IInv'
  OBVIOUS
<1>1. ASSUME NEW c \in Callers, Plain(c)
      PROVE  IInv'
  <2>1. PICK declared \in Profiles : Call(c, declared, None, None, None)
    BY <1>1 DEF Plain
  <2> QED
    BY <2>1, Called
<1>2. ASSUME NEW c \in Callers, Decide(c)
      PROVE  IInv'
  <2>1. PICK declared \in Profiles, d \in Decision : Call(c, declared, d, None, None)
    BY <1>2 DEF Decide
  <2> QED
    BY <2>1, Called
<1>3. ASSUME NEW c \in Callers, SubmitCorrection(c)
      PROVE  IInv'
  <2>1. PICK declared \in Profiles, request \in {s \in shown : s.by # "packet"} :
          \E correction \in Answers(request) : Call(c, declared, None, None, correction)
    BY <1>3, Zenon DEF SubmitCorrection
  <2>2. PICK correction \in Answers(request) : Call(c, declared, None, None, correction)
    BY <2>1
  <2>3. Written(correction.matrix)
    BY AnswersWritten
  <2> QED
    BY <2>2, <2>3, Called
<1>4. ASSUME NEW c \in Callers, SubmitReview(c)
      PROVE  IInv'
  <2>1. PICK declared \in Profiles : \E review : Call(c, declared, None, review, None)
    BY <1>4, Zenon DEF SubmitReview
  <2>2. PICK review : Call(c, declared, None, review, None)
    BY <2>1
  <2> QED
    BY <2>2, Called
<1>5. ASSUME NEW c \in Callers, Continue(c)
      PROVE  IInv'
  <2> DEFINE declared == loop[c].declared
             result == Advance(declared, None, None, None)
  <2>1. CASE result.kind \in {"unchanged", "persisted"}
    <3>1. Take(c, result, declared, loop[c].seen)
      BY <1>5, <2>1 DEF Continue
    <3>2. RunSafe(result.run) /\ PauseCause(result.run) # "deterministic-advance"
      BY <2>1, AdvanceSafe DEF IInv
    <3> HIDE DEF result, declared
    <3>3. LoopSafe(Converge(result.run, declared, loop[c].seen))
      BY <3>2, ConvergeQuiet
    <3> QED
      BY <3>1, <3>2, <3>3, Taken
  <2>2. CASE result.kind \notin {"unchanged", "persisted"}
    <3>1. loop' = [loop EXCEPT ![c] = Idle] /\ UNCHANGED <<issue, edits, developed, run, shown>>
      BY <1>5, <2>2 DEF Continue
    <3>2. DOMAIN loop' = Callers /\ \A d \in Callers : loop'[d] = Idle \/ loop'[d] = loop[d]
      BY <3>1 DEF IInv
    <3>3. \A d \in Callers : LoopSafe(loop'[d])
      BY <3>2 DEF IInv, LoopSafe
    <3> QED
      BY <3>1, <3>2, <3>3 DEF IInv
  <2> QED
    BY <2>1, <2>2
<1>6. CASE Edit
  BY <1>6, QualificationAssumption DEF IInv, Edit
<1>7. CASE Develop
  BY <1>7 DEF IInv, Develop
<1>8. CASE UNCHANGED vars
  BY <1>8 DEF IInv, vars
<1> QED
  BY <1>1, <1>2, <1>3, <1>4, <1>5, <1>6, <1>7, <1>8 DEF Next

\* The phases of a record, its history and the loops keep in step in every reachable state.
THEOREM Invariance == Spec => []IInv
  BY InitSafe, NextSafe, PTL DEF Spec

-------------------------------------------------------------------------------
(* The properties *)

\* The record is one of the codec's, and what it says of requests goes with its phase.
LEMMA PhaseLoads ==
    ASSUME NEW r, RunSafe(r)
    PROVE  IF r.state = "needs-decision"
           THEN \/ r.pendingDecision # None /\ r.matrix = None
                \/ r.pendingDecision = None /\ r.request # None /\ r.matrix # None
           ELSE r.pendingDecision = None /\ r.request = None /\ r.matrix # None
<1>1. CASE r.pendingDecision # None
  BY <1>1 DEF RunSafe, Pending
<1>2. CASE r.pendingDecision = None
  <2>1. r.matrix # None
    BY <1>2, MatrixPresent DEF RunSafe, MatrixCurrent
  <2>2. Awaiting(r)
    BY <1>2 DEF RunSafe
  <2> QED
    BY <1>2, <2>1, <2>2 DEF Awaiting, AsksForProse, AsksForAnswer, HasApproval, HasAnswers
<1> QED
  BY <1>1, <1>2

\* Without a pending decision the history is one of the codec's.
LEMMA HistoryLoads ==
    ASSUME NEW r, RunSafe(r), r.pendingDecision = None
    PROVE  validateQualificationHistory(r)
<1> DEFINE offset == Offset(r)
           answers == Len(r.corrections) - offset
           settled == r.corrections # <<>> => r.matrix = r.corrections[Len(r.corrections)].matrix
<1>1. Typed(r) /\ MatrixCurrent(r) /\ Alternating(r) /\ Awaiting(r)
  BY DEF RunSafe
<1>2. /\ offset \in {0, 1} /\ answers = Answered(r) /\ answers \in Nat
      /\ Len(r.corrections) \in Nat /\ Len(r.reviews) \in Nat
      /\ answers + offset = Len(r.corrections)
      /\ (r.reviews = <<>> <=> Len(r.reviews) = 0)
      /\ (r.corrections = <<>> <=> Len(r.corrections) = 0)
  BY <1>1, AnsweredFacts DEF Answered
<1>3. r.matrix # None /\ settled
  BY <1>1, MatrixPresent DEF MatrixCurrent
<1>4. offset = 1 => validateCompilerQualificationCorrection(r, r.corrections[1])
  BY <1>1 DEF Alternating
<1>5. CASE r.reviews = <<>>
  <2>1. AsksForProse(r) \/ HasAnswers(r)
    BY <1>1, <1>2, <1>5 DEF Awaiting, AsksForAnswer, HasApproval
  <2>2. ~r.approved
    BY <2>1 DEF AsksForProse, HasAnswers
  <2>3. answers = 0
    BY <1>2, <1>5, <2>1 DEF AsksForProse, HasAnswers
  <2>4. r.request # None =>
           /\ requiresQualificationCorrection(r.matrix)
           /\ r.request = compilerQualificationCorrectionRequest(r.authority, r.matrix)
    <3>1. CASE AsksForProse(r)
      <4>1. r.matrix = CompiledMatrix(r.authority)
        BY <1>1, <3>1 DEF AsksForProse, MatrixCurrent
      <4>2. requiresQualificationCorrection(r.matrix)
        BY <1>3, <4>1 DEF requiresQualificationCorrection, CompiledMatrix
      <4> QED
        BY <3>1, <4>2 DEF AsksForProse
    <3>2. CASE HasAnswers(r)
      BY <3>2 DEF HasAnswers
    <3> QED
      BY <2>1, <3>1, <3>2
  <2> QED
    BY <1>4, <1>5, <2>2, <2>3, <2>4 DEF validateQualificationHistory, Offset
<1>6. CASE r.reviews # <<>>
  <2> DEFINE Answer(i) == r.corrections[i + offset]
             last == r.reviews[Len(r.reviews)]
  <2>1. answers <= Len(r.reviews)
    BY <1>1, <1>2, <1>6 DEF Awaiting, AsksForProse, AsksForAnswer, HasApproval, HasAnswers
  <2>2. \A i \in DOMAIN r.reviews : r.reviews[i].authority = r.authority
    BY <1>1 DEF Alternating
  <2>3. \A i \in 1..answers :
           /\ Answer(i).authority = r.authority /\ Answer(i).findings # {}
           /\ Answer(i).reviewed = r.reviews[i].matrix
           /\ Answer(i).findings = r.reviews[i].findings
           /\ i < Len(r.reviews) => r.reviews[i + 1].matrix = Answer(i).matrix
    BY <1>1, <1>2 DEF Alternating
  <2>4. \/ /\ r.request # None /\ ~r.approved /\ r.request.by = "reviewer"
           /\ last.findings # {} /\ Len(r.reviews) = answers + 1
           /\ r.request.matrix = r.matrix /\ r.request.matrix = last.matrix
        \/ /\ r.request = None /\ r.approved /\ r.corrections # <<>>
           /\ last.findings = {} /\ Len(r.reviews) = answers + 1
           /\ last.matrix = r.corrections[Len(r.corrections)].matrix /\ settled
        \/ r.request = None /\ ~r.approved /\ Len(r.reviews) = answers /\ settled
    <3>1. CASE AsksForAnswer(r)
      BY <1>2, <3>1 DEF AsksForAnswer, LastReview, RejectionRequest
    <3>2. CASE HasApproval(r)
      BY <1>2, <1>3, <3>2 DEF HasApproval, LastReview
    <3>3. CASE HasAnswers(r)
      BY <1>2, <1>3, <3>3 DEF HasAnswers
    <3> QED
      BY <1>1, <1>6, <3>1, <3>2, <3>3 DEF Awaiting, AsksForProse
  <2> QED
    BY <1>3, <1>4, <1>6, <2>1, <2>2, <2>3, <2>4 DEF validateQualificationHistory, Offset
<1> QED
  BY <1>5, <1>6

\* A record that waits for a decision has no history.
LEMMA NoHistoryLoads ==
    ASSUME NEW r, Pending(r)
    PROVE  validateQualificationHistory(r)
<1>1. r.reviews = <<>> /\ r.corrections = <<>> /\ ~r.approved /\ r.request = None
  BY DEF Pending
<1>2. Len(r.corrections) = 0
  BY <1>1
<1> QED
  BY <1>1, <1>2 DEF validateQualificationHistory

\* The rows of the matrix are what the issue or a decision states, and there is one.
LEMMA MatrixTyped ==
    ASSUME NEW r, RunSafe(r), r.matrix # None
    PROVE  /\ r.matrix.class \in Classes /\ r.matrix.rows # {}
           /\ r.matrix.rows \subseteq r.authority.issue.criteria \cup Questions \cup {Supply}
<1>1. Typed(r) /\ MatrixCurrent(r)
  BY DEF RunSafe, Pending
<1>2. r.authority \in Authority /\ r.matrix \in Matrix /\ r.matrix.rows = Rows(r.authority)
  BY <1>1 DEF Typed, MatrixCurrent
<1>3. r.matrix.class \in Classes
  BY <1>2 DEF Matrix
<1> QED
  BY <1>2, <1>3, RowsFacts

\* The types that TLC checks follow from the fields and phases of the record.
LEMMA TypesKept == IInv => TypeOK
<1> SUFFICES ASSUME IInv
             PROVE  TypeOK
  OBVIOUS
<1>1. ASSUME NEW c \in Callers
      PROVE  /\ loop[c].status \in {"idle", "again", "stalled", "spent"}
             /\ loop[c].declared \in Profiles \cup {None}
             /\ Cardinality(loop[c].seen) <= MaxTransitions
  <2>1. LoopSafe(loop[c])
    BY DEF IInv
  <2>2. CASE loop[c] = Idle
    <3>1. Cardinality({}) = 0
      BY FS_EmptySet
    <3> QED
      BY <2>2, <3>1, QualificationAssumption DEF Idle
  <2>3. CASE loop[c] # Idle
    <3>1. loop[c].status = "again" /\ loop[c].declared \in Profiles
      BY <2>1, <2>3 DEF LoopSafe
    <3>2. PICK signature : loop[c].seen = {signature}
      BY <2>1, <2>3 DEF LoopSafe
    <3>3. Cardinality({signature}) = 1
      BY FS_Singleton
    <3> QED
      BY <3>1, <3>2, <3>3, QualificationAssumption
  <2> QED
    BY <2>2, <2>3
<1>2. ASSUME run # None
      PROVE  /\ run.state \in States /\ run.approved \in BOOLEAN /\ run.candidate \in BOOLEAN
             /\ run.pendingDecision \in Questions \cup {Supply, None}
             /\ run.authority.issue \in Issues /\ run.authority.decisions \subseteq Decision
  <2>1. Typed(run)
    BY <1>2 DEF IInv, RunSafe
  <2>2. run.authority \in Authority
    BY <2>1 DEF Typed
  <2>3. run.authority.issue \in Issues /\ run.authority.decisions \subseteq Decision
    BY <2>2 DEF Authority
  <2> QED
    BY <2>1, <2>3 DEF Typed
<1>3. ASSUME run # None, run.matrix # None
      PROVE  /\ run.matrix.class \in Classes /\ run.matrix.rows # {}
             /\ run.matrix.rows \subseteq run.authority.issue.criteria \cup Questions \cup {Supply}
  BY <1>3, MatrixTyped DEF IInv
<1> QED
  BY <1>1, <1>2, <1>3 DEF IInv, TypeOK

\* Whatever comes late, twice or for a run that has gone, the record that a step leaves behind
\* is one that validateRun accepts when it is read again.
THEOREM RecordAlwaysLoads == Spec => []RecordLoads
<1>1. ASSUME IInv
      PROVE  RecordLoads
  <2>1. ASSUME run # None
        PROVE  validateRun(run)
    <3>1. RunSafe(run)
      BY <1>1, <2>1 DEF IInv
    <3>2. validateQualificationHistory(run)
      BY <3>1, HistoryLoads, NoHistoryLoads DEF RunSafe
    <3> QED
      BY <3>1, <3>2, PhaseLoads DEF validateRun
  <2> QED
    BY <1>1, <2>1, TypesKept DEF RecordLoads
<1> QED
  BY <1>1, Invariance, PTL

\* An approval is of the matrix the run holds, and each rejection before it was answered in full.
LEMMA Backed ==
    ASSUME NEW r, RunSafe(r), r.approved
    PROVE  LET last == r.reviews[Len(r.reviews)]
           IN  /\ last.findings = {} /\ last.authority = r.authority /\ last.matrix = r.matrix
               /\ r.matrix.rows = Rows(r.authority) /\ r.matrix.class \in {"plain", "bound"}
               /\ \A i \in DOMAIN r.reviews : r.reviews[i].findings # {} =>
                     \E k \in DOMAIN r.corrections :
                        /\ r.corrections[k].reviewed = r.reviews[i].matrix
                        /\ r.corrections[k].findings = r.reviews[i].findings
<1>1. Typed(r) /\ MatrixCurrent(r) /\ Alternating(r) /\ HasApproval(r)
  BY DEF RunSafe, Pending, Awaiting, AsksForProse, AsksForAnswer, HasAnswers
<1>2. /\ Offset(r) \in {0, 1} /\ Answered(r) \in Nat /\ Answered(r) + Offset(r) = Len(r.corrections)
      /\ Len(r.corrections) \in Nat /\ Len(r.reviews) \in Nat
      /\ DOMAIN r.reviews = 1..Len(r.reviews) /\ DOMAIN r.corrections = 1..Len(r.corrections)
      /\ (r.reviews = <<>> <=> Len(r.reviews) = 0)
  BY <1>1, AnsweredFacts
<1>3. /\ LastReview(r).findings = {} /\ LastReview(r).matrix = r.matrix
      /\ r.corrections # <<>> /\ Len(r.reviews) = Answered(r) + 1
  BY <1>1 DEF HasApproval
<1>4. LastReview(r).authority = r.authority
  BY <1>1, <1>2, <1>3 DEF Alternating, LastReview
<1>5. r.matrix.rows = Rows(r.authority) /\ r.matrix.class \in {"plain", "bound"}
  BY <1>1, <1>3 DEF MatrixCurrent
<1>6. ASSUME NEW i \in DOMAIN r.reviews, r.reviews[i].findings # {}
      PROVE  \E k \in DOMAIN r.corrections :
                /\ r.corrections[k].reviewed = r.reviews[i].matrix
                /\ r.corrections[k].findings = r.reviews[i].findings
  <2>1. i \in 1..Answered(r)
    BY <1>2, <1>3, <1>6 DEF LastReview
  <2>2. i + Offset(r) \in DOMAIN r.corrections
    BY <1>2, <2>1
  <2>3. /\ r.corrections[i + Offset(r)].reviewed = r.reviews[i].matrix
        /\ r.corrections[i + Offset(r)].findings = r.reviews[i].findings
    BY <1>1, <2>1 DEF Alternating
  <2> QED
    BY <2>2, <2>3
<1> QED
  BY <1>3, <1>4, <1>5, <1>6 DEF LastReview

\* No late or partial answer, and no answer for another matrix, gets a matrix approved.
THEOREM ApprovalsBacked == Spec => []ApprovalBacked
<1>1. ASSUME IInv
      PROVE  ApprovalBacked
  <2> SUFFICES ASSUME run # None, run.approved
               PROVE  ApprovalBacked
    BY DEF ApprovalBacked
  <2>1. RunSafe(run)
    BY <1>1 DEF IInv
  <2> QED
    BY <2>1, Backed DEF ApprovalBacked
<1> QED
  BY <1>1, Invariance, PTL

\* However the issue is edited, the decisions of the run are those its questions lead to.
THEOREM DecisionsFollowIssue == Spec => []DecisionsTraceable
<1>1. ASSUME IInv
      PROVE  DecisionsTraceable
  <2> SUFFICES ASSUME run # None
               PROVE  DecisionsTraceable
    BY DEF DecisionsTraceable
  <2>1. Traceable(run.authority)
    BY <1>1 DEF IInv, RunSafe
  <2> QED
    BY <2>1 DEF Traceable, DecisionsTraceable
<1> QED
  BY <1>1, Invariance, PTL

\* No caller's loop finds its own pause again or runs out of turns, whatever the others do.
THEOREM NeverStalls == Spec => []NoStall
<1>1. ASSUME IInv
      PROVE  NoStall
  BY <1>1 DEF IInv, NoStall, LoopSafe, Idle
<1> QED
  BY <1>1, Invariance, PTL

===============================================================================
