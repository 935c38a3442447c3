---------------------------- MODULE Qualification ----------------------------
(***************************************************************************)
(* From an approved issue to an approved acceptance matrix: the authority  *)
(* compiler (internal/issuedelivery/compiler.go), the review and the       *)
(* correction of what it compiles (qualification.go), the part of Advance  *)
(* that chooses between them (advance.go), and the loop of the command     *)
(* that calls Advance again after a deterministic pause                    *)
(* (cmd/packy-deliver/advance_command.go).                                 *)
(*                                                                         *)
(* Several callers run the command.  Advance itself is one step, because   *)
(* it holds the lock of the issue (IssueStore has its inside); what can    *)
(* happen between two steps is everything else: another caller's Advance,  *)
(* an edit of the issue, a commit.  Answers are made from anything that    *)
(* was ever asked, so they come late, twice, and for a run that has gone.  *)
(*                                                                         *)
(* Texts are classes: a matrix still has the compiler's marker, is         *)
(* generic, is plain specific prose, or is bound to its request by the     *)
(* compiler's grammar.  A digest is the thing it digests.                  *)
(***************************************************************************)
EXTENDS Naturals, Sequences, FiniteSets

CONSTANTS
    Callers,
    Issues,           \* the versions the issue can have
    QuestionOrder,    \* the ambiguities an issue can state, in normalized order
    Profiles,         \* delivery profiles, as labels and as declarations
    Texts,            \* versions of a matrix that an operator can write
    None,
    MaxEdits, MaxRejections,    \* bounds of the instance
    MaxTransitions    \* maxConvergentAdvanceTransitions

Questions == {QuestionOrder[i] : i \in DOMAIN QuestionOrder}

ASSUME QualificationAssumption ==
    /\ MaxEdits \in Nat /\ MaxRejections \in Nat /\ MaxTransitions \in Nat \ {0, 1}
    /\ QuestionOrder \in Seq(Questions)
    /\ \A i \in Issues : i.approved \in BOOLEAN /\ i.blocking \in BOOLEAN
                         /\ i.profile \in Profiles /\ i.questions \subseteq Questions

VARIABLES
    issue,            \* what the tracker shows
    edits,
    developed,        \* HEAD has left the starting base, on a delivery branch
    run,              \* the active record, or None
    shown,            \* correction requests and review packets handed out so far
    loop              \* each caller's convergeAdvance

vars == <<issue, edits, developed, run, shown, loop>>

-----------------------------------------------------------------------------
(* The authority: the issue, and the decisions that complete it.            *)

Supply == "supply-criterion"

Decision == [request: Questions \cup {Supply}, disposition: {"owned-now", "forbidden"}]

Decided(decisions) == {d.request : d \in decisions}
Rank(q) == CHOOSE i \in DOMAIN QuestionOrder : QuestionOrder[i] = q

Owned(i, decisions) ==
    i.criteria \cup {q \in i.questions :
                        [request |-> q, disposition |-> "owned-now"] \in decisions}

nextDecisionRequest(i, decisions) ==
    LET open == i.questions \ Decided(decisions)
    IN  IF open # {} THEN CHOOSE q \in open : \A p \in open : Rank(q) <= Rank(p)
        ELSE IF Owned(i, decisions) = {} /\ Supply \notin Decided(decisions) THEN Supply
        ELSE None

EveryApplied(i, decisions) == decisions

\* The loop takes a decision when its question is reached, and stops at the
\* first question without one: later decisions are not part of the authority.
Applied(i, decisions) ==
    LET next == nextDecisionRequest(i, decisions)
        reached == {q \in i.questions :
                       next \in Questions => Rank(q) < Rank(next)}
        supplied == IF next = None /\ Owned(i, decisions) = {} THEN {Supply} ELSE {}
    IN  {d \in decisions : d.request \in reached \cup supplied}

applyDecision(d) == d.request = Supply => d.disposition = "owned-now"

authorityDigest(i, decisions) == [issue |-> i, decisions |-> Applied(i, decisions)]

validateObservations == issue.approved
qualifyDeliveryProfile(declared) == declared = issue.profile

\* None without an authority: the offered decision is not the one asked for.
compileAuthority(i, prior, offered) ==
    LET asked == nextDecisionRequest(i, prior)
        taken == IF offered = None THEN prior ELSE prior \cup {offered}
    IN  IF offered # None /\ (asked = None \/ offered.request # asked \/ ~applyDecision(offered))
        THEN None
        ELSE [authority |-> authorityDigest(i, taken),
              pending |-> nextDecisionRequest(i, taken)]

Rows(authority) ==
    LET owned == Owned(authority.issue, authority.decisions)
    IN  IF owned = {} THEN {Supply} ELSE owned

-----------------------------------------------------------------------------
(* The acceptance matrix, what is asked about it and what is answered.      *)

Classes == {"marker", "generic", "plain", "bound"}

\* What can be stated, and what authorities, matrices and requests are made of.
Stated == (UNION {i.criteria : i \in Issues}) \cup Questions \cup {Supply}
Authority == [issue: Issues, decisions: SUBSET Decision]
Matrix == [rows: SUBSET Stated, class: Classes, text: Texts \cup {None}]
Request == [by: {"compiler", "reviewer"}, authority: Authority, matrix: Matrix,
            findings: SUBSET Stated]

\* An absent value is told from any other, and supplying a criterion is no question.
ASSUME PlaceholderAssumption ==
    Supply \notin Questions /\ None \notin Questions \cup {Supply} \cup Matrix \cup Request

CompiledMatrix(authority) == [rows |-> Rows(authority), class |-> "marker", text |-> None]

requiresQualificationCorrection(matrix) ==
    matrix # None /\ matrix.class = "marker"

compilerQualificationCorrectionRequest(authority, matrix) ==
    [by |-> "compiler", authority |-> authority, matrix |-> matrix, findings |-> matrix.rows]

RejectionRequest(review) ==
    [by |-> "reviewer", authority |-> review.authority, matrix |-> review.matrix,
     findings |-> review.findings]

\* The identity a correction echoes; a reviewer's request has none.
RequestId(request) ==
    IF request.by = "compiler" THEN <<request.authority, request.matrix, request.findings>> ELSE <<>>

Correction(request, findings, evidence, matrix) ==
    [id |-> RequestId(request), authority |-> request.authority, reviewed |-> request.matrix,
     findings |-> findings, evidence |-> evidence, matrix |-> matrix]

Packet(r) == [by |-> "packet", run |-> r.id, authority |-> r.authority, matrix |-> r.matrix,
              generation |-> Len(r.reviews) + 1]

\* With or without the identity of the packet it was written from.
Review(packet, bound, findings) ==
    [packet |-> IF bound THEN packet ELSE None, authority |-> packet.authority,
     matrix |-> packet.matrix, findings |-> findings]

-----------------------------------------------------------------------------
(* The record. *)

States == {"needs-decision", "needs-review", "waiting", "blocked"}

NewRun(c) ==
    [id |-> IF run = None THEN <<c.authority>> ELSE Append(run.id, c.authority),
     authority |-> c.authority, pendingDecision |-> c.pending,
     state |-> CASE c.pending # None -> "needs-decision"
                 [] c.pending = None /\ issue.blocking -> "blocked"
                 [] OTHER -> "needs-decision",
     matrix |-> IF c.pending # None THEN None ELSE CompiledMatrix(c.authority),
     request |-> IF c.pending # None \/ issue.blocking THEN None
                 ELSE compilerQualificationCorrectionRequest(c.authority, CompiledMatrix(c.authority)),
     approved |-> FALSE, reviews |-> <<>>, corrections |-> <<>>,
     candidate |-> FALSE, trail |-> 1]

Settle(r, state) == [r EXCEPT !.state = state, !.trail = r.trail + 1]

\* What an Advance can come to: a refusal, the record as it is, another record,
\* no word on the matter, or a dereference of evidence that is not there.
Refused == [kind |-> "refused", run |-> None]
Unchanged(r) == [kind |-> "unchanged", run |-> r]
Persisted(r) == [kind |-> "persisted", run |-> r]
Unhandled == [kind |-> "unhandled", run |-> None]
Died == [kind |-> "died", run |-> None]

packetRequired(r) ==
    /\ r.matrix # None /\ r.state \in {"needs-review", "waiting"}
    /\ r.request = None /\ r.pendingDecision = None
    /\ ~r.approved /\ ~r.candidate

StaleQualificationReview(r, review) ==
    /\ r.matrix # None /\ review.authority = r.authority
    /\ review.packet # None => packetRequired(r) /\ review.packet = Packet(r)
    /\ review.findings \subseteq Rows(r.authority)

validateQualificationReview(r, review) ==
    /\ r.matrix # None
    /\ review.authority = r.authority /\ review.matrix = r.matrix
    /\ review.packet # None => packetRequired(r) /\ review.packet = Packet(r)
    /\ review.findings \subseteq Rows(r.authority)

validateQualificationMatrixShape(r, matrix) == matrix.rows = Rows(r.authority)

specificQualificationText(class) == class \in {"plain", "bound"}

validateCompilerQualificationBindings(c) == c.evidence = "bound" /\ c.matrix.class = "bound"

PartialQualificationCorrection(r, c) ==
    /\ c.id = RequestId(r.request)
    /\ c.authority = r.request.authority /\ c.reviewed = r.request.matrix
    /\ c.findings \subseteq r.request.findings
    /\ IF r.request.by = "compiler" THEN validateCompilerQualificationBindings(c)
       ELSE specificQualificationText(c.evidence) /\ specificQualificationText(c.matrix.class)
    /\ validateQualificationMatrixShape(r, c.matrix)

validateQualificationCorrection(r, c) ==
    /\ c.id = RequestId(r.request)
    /\ c.authority = r.request.authority /\ c.reviewed = r.request.matrix
    /\ c.findings = r.request.findings
    /\ IF r.request.by = "compiler" THEN validateCompilerQualificationBindings(c)
       ELSE specificQualificationText(c.evidence) /\ specificQualificationText(c.matrix.class)
    /\ validateQualificationMatrixShape(r, c.matrix)

LastOf(s, value) == s # <<>> /\ s[Len(s)] = value

AskingCorrect(r, c) ==
    IF ~validateQualificationCorrection(r, c) \/ requiresQualificationCorrection(c.matrix)
    THEN Refused
    ELSE Persisted(Settle([r EXCEPT !.matrix = c.matrix, !.corrections = Append(@, c),
                                    !.approved = FALSE], "needs-review"))

Correct(r, c) ==
    IF ~validateQualificationCorrection(r, c) \/ requiresQualificationCorrection(c.matrix)
    THEN Refused
    ELSE Persisted(Settle([r EXCEPT !.matrix = c.matrix, !.corrections = Append(@, c),
                                    !.request = None, !.approved = FALSE], "needs-review"))

Judge(r, review) ==
    LET stored == [r EXCEPT !.reviews = Append(@, review)]
    IN  IF r.approved \/ ~validateQualificationReview(r, review) THEN Refused
        ELSE IF review.findings = {}
             THEN IF requiresQualificationCorrection(r.matrix) THEN Refused
                  ELSE Persisted(Settle([stored EXCEPT !.approved = TRUE], "needs-review"))
             ELSE Persisted(Settle([stored EXCEPT !.request = RejectionRequest(review),
                                                  !.approved = FALSE], "needs-decision"))

advanceQualification(r, review, correction) ==
    IF review # None /\ correction # None THEN Refused
    ELSE IF \/ review # None /\ LastOf(r.reviews, review)
            \/ correction # None /\ LastOf(r.corrections, correction) THEN Unchanged(r)
    ELSE IF r.request # None
         THEN IF correction # None THEN Correct(r, correction)
              ELSE IF review # None THEN Refused ELSE Unchanged(r)
    ELSE IF correction # None THEN Refused
    ELSE IF r.state # "blocked" /\ ~r.approved /\ requiresQualificationCorrection(r.matrix)
         THEN Persisted(Settle([r EXCEPT !.request =
                  compilerQualificationCorrectionRequest(r.authority, r.matrix)], "needs-decision"))
    ELSE IF review = None THEN Unhandled
    ELSE Judge(r, review)

\* As far as a run without a candidate goes; Assurance has the rest.  The
\* hand-over to development does not look at approved.
advanceAssurance(r) ==
    IF r.candidate THEN Unchanged(r)
    ELSE IF r.matrix = None THEN Died
    ELSE IF ~developed THEN IF r.state = "waiting" THEN Unchanged(r) ELSE Persisted(Settle(r, "waiting"))
    ELSE Persisted(Settle([r EXCEPT !.candidate = TRUE,
                                    !.matrix = IF r.corrections = <<>> THEN @
                                               ELSE r.corrections[Len(r.corrections)].matrix],
                          "needs-review"))

SameAuthority(c) == run # None /\ run.authority = c.authority

\* One call of Advance: the declared profile, and at most one input of each kind.  That
\* the new run may be one which a call that died had written already is in IssueStore.
Advance(declared, decision, review, correction) ==
    LET prior == IF run = None THEN {} ELSE run.authority.decisions
        c == compileAuthority(issue, prior, decision)
    IN  IF ~validateObservations \/ ~qualifyDeliveryProfile(declared) \/ c = None THEN Refused
        ELSE IF ~SameAuthority(c) THEN Persisted(NewRun(c))
        ELSE IF decision # None THEN Refused
        ELSE LET answer == advanceQualification(run, review, correction)
             IN  IF answer = Unhandled THEN advanceAssurance(run) ELSE answer

-----------------------------------------------------------------------------
(* What the operator is told, and the loop of the command. *)

EagerPauseCause(r) ==
    CASE r.state = "blocked" -> "invariant-block"
      [] r.state # "blocked" /\ (r.request # None \/ r.state = "needs-decision") -> "semantic-input"
      [] r.state = "needs-review" /\ (r.candidate \/ ~r.approved) -> "independent-review"
      [] OTHER -> "deterministic-advance"

PauseCause(r) ==
    CASE r.state = "blocked" -> "invariant-block"
      [] r.state # "blocked" /\ (r.request # None \/ r.state = "needs-decision") -> "semantic-input"
      [] r.state = "needs-review" /\ r.request = None /\ ~r.candidate /\ r.approved -> "deterministic-advance"
      [] r.state = "needs-review" /\ r.request = None /\ (r.candidate \/ ~r.approved) -> "independent-review"
      [] OTHER -> "external-result"

advanceOutcomeSignature(r) == <<r.id, r.state, r.candidate, r.trail>>

Idle == [status |-> "idle", declared |-> None, seen |-> {}]

\* What convergeAdvance does with an outcome: every deterministic transition
\* has left its own signature, so there are as many as signatures.
Converge(r, declared, seen) ==
    LET signature == advanceOutcomeSignature(r)
        all == seen \cup {signature}
        status == IF signature \in seen THEN "stalled"
                  ELSE IF Cardinality(all) >= MaxTransitions THEN "spent" ELSE "again"
    IN  IF PauseCause(r) # "deterministic-advance" THEN Idle
        ELSE [status |-> status, declared |-> declared, seen |-> all]

\* Requests come with the outcome, packets with the review-packets command.
Handed(r) ==
    (IF r.request # None THEN {r.request} ELSE {}) \cup
    (IF packetRequired(r) THEN {Packet(r)} ELSE {})

Take(caller, result, declared, seen) ==
    /\ run' = result.run
    /\ shown' = shown \cup Handed(result.run)
    /\ loop' = [loop EXCEPT ![caller] = Converge(result.run, declared, seen)]
    /\ UNCHANGED <<issue, edits, developed>>

Rejections(r) == Cardinality({i \in DOMAIN r.reviews : r.reviews[i].findings # {}})

Bounded(result) ==
    result.kind \in {"unchanged", "persisted"} /\ Rejections(result.run) <= MaxRejections

-----------------------------------------------------------------------------
(* Actions. *)

Free(caller) == loop[caller].status # "again"

Call(caller, declared, decision, review, correction) ==
    /\ Free(caller)
    /\ \E result \in {Advance(declared, decision, review, correction)} :
          Bounded(result) /\ Take(caller, result, declared, {})

Plain(caller) == \E declared \in Profiles : Call(caller, declared, None, None, None)

Decide(caller) ==
    \E declared \in Profiles, d \in Decision : Call(caller, declared, d, None, None)

\* The answer a request wants, and answers that miss it in one respect.
Answers(request) ==
    LET exact == {Correction(request, request.findings, "bound",
                             [rows |-> request.matrix.rows, class |-> "bound", text |-> text]) :
                     text \in Texts}
    IN  exact \cup {[c EXCEPT !.findings = some] : c \in exact, some \in SUBSET request.findings}
              \cup {[c EXCEPT !.matrix.class = class] : c \in exact, class \in Classes}
              \cup {[c EXCEPT !.matrix.rows = {}] : c \in exact}
              \cup {[c EXCEPT !.evidence = "generic"] : c \in exact}

SubmitCorrection(caller) ==
    \E declared \in Profiles, request \in {s \in shown : s.by # "packet"} :
      \E correction \in Answers(request) : Call(caller, declared, None, None, correction)

SubmitReview(caller) ==
    \E declared \in Profiles, packet \in {s \in shown : s.by = "packet"}, bound \in BOOLEAN :
      \E findings \in SUBSET packet.matrix.rows :
         Call(caller, declared, None, Review(packet, bound, findings), None)

\* The next turn of the loop carries no input any more.
Continue(caller) ==
    /\ loop[caller].status = "again"
    /\ \E result \in {Advance(loop[caller].declared, None, None, None)} :
          IF result.kind \in {"unchanged", "persisted"}
          THEN Take(caller, result, loop[caller].declared, loop[caller].seen)
          ELSE /\ loop' = [loop EXCEPT ![caller] = Idle]
               /\ UNCHANGED <<issue, edits, developed, run, shown>>

Edit ==
    /\ edits < MaxEdits /\ edits' = edits + 1
    /\ \E i \in Issues \ {issue} : issue' = i
    /\ UNCHANGED <<developed, run, shown, loop>>

Develop ==
    /\ ~developed /\ developed' = TRUE
    /\ UNCHANGED <<issue, edits, run, shown, loop>>

Init ==
    /\ issue \in Issues /\ edits = 0 /\ developed = FALSE
    /\ run = None /\ shown = {} /\ loop = [c \in Callers |-> Idle]

Next ==
    \/ \E c \in Callers : \/ Plain(c) \/ Decide(c) \/ SubmitCorrection(c)
                          \/ SubmitReview(c) \/ Continue(c)
    \/ Edit \/ Develop

-----------------------------------------------------------------------------
(* What the codec accepts when the record is read again. *)

ByCompiler(correction) == correction.id # <<>>

\* It answered, in full, what the compiler asks of this authority.
validateCompilerQualificationCorrection(r, c) ==
    LET request == compilerQualificationCorrectionRequest(r.authority, CompiledMatrix(r.authority))
    IN  /\ c.id = RequestId(request) /\ c.findings = request.findings
        /\ validateCompilerQualificationBindings(c) /\ validateQualificationMatrixShape(r, c.matrix)

\* Reviews and corrections alternate, after at most one compiler correction.
validateQualificationHistory(r) ==
    LET offset == IF r.corrections # <<>> /\ ByCompiler(r.corrections[1]) THEN 1 ELSE 0
        answers == Len(r.corrections) - offset
        Answer(i) == r.corrections[i + offset]
        last == r.reviews[Len(r.reviews)]
        settled == r.corrections # <<>> => r.matrix = r.corrections[Len(r.corrections)].matrix
    IN  /\ offset = 1 => validateCompilerQualificationCorrection(r, r.corrections[1])
        /\ IF r.reviews = <<>>
           THEN /\ ~r.approved /\ answers = 0
                /\ r.request # None =>
                      /\ requiresQualificationCorrection(r.matrix)
                      /\ r.request = compilerQualificationCorrectionRequest(r.authority, r.matrix)
           ELSE /\ r.matrix # None /\ answers <= Len(r.reviews)
                /\ \A i \in DOMAIN r.reviews : r.reviews[i].authority = r.authority
                /\ \A i \in 1..answers :
                      /\ Answer(i).authority = r.authority /\ Answer(i).findings # {}
                      /\ Answer(i).reviewed = r.reviews[i].matrix
                      /\ Answer(i).findings = r.reviews[i].findings
                      /\ i < Len(r.reviews) => r.reviews[i + 1].matrix = Answer(i).matrix
                /\ \/ /\ r.request # None /\ ~r.approved /\ r.request.by = "reviewer"
                      /\ last.findings # {} /\ Len(r.reviews) = answers + 1
                      /\ r.request.matrix = r.matrix /\ r.request.matrix = last.matrix
                   \/ /\ r.request = None /\ r.approved /\ r.corrections # <<>>
                      /\ last.findings = {} /\ Len(r.reviews) = answers + 1
                      /\ last.matrix = r.corrections[Len(r.corrections)].matrix /\ settled
                   \/ r.request = None /\ ~r.approved /\ Len(r.reviews) = answers /\ settled

validateRun(r) ==
    /\ IF r.state = "needs-decision"
       THEN \/ r.pendingDecision # None /\ r.matrix = None
            \/ r.pendingDecision = None /\ r.request # None /\ r.matrix # None
       ELSE r.pendingDecision = None /\ r.request = None /\ r.matrix # None
    /\ validateQualificationHistory(r)

-----------------------------------------------------------------------------
(* Fairness: a caller goes on doing what the outcome it reads asks for, with *)
(* the profile of the issue and an answer in the grammar the request wants;  *)
(* a loop that is to advance again does.                                     *)

Diligent(caller) ==
    LET asked == issue.profile
        current == run # None /\ run.authority.issue = issue
    IN  \/ /\ current => run.pendingDecision = None /\ run.request = None /\ ~packetRequired(run)
           /\ Call(caller, asked, None, None, None)
        \/ /\ current /\ run.pendingDecision # None
           /\ Call(caller, asked, [request |-> run.pendingDecision, disposition |-> "owned-now"], None, None)
        \/ /\ current /\ run.request # None
           /\ \E text \in Texts :
                 Call(caller, asked, None, None,
                      Correction(run.request, run.request.findings, "bound",
                                 [rows |-> Rows(run.authority), class |-> "bound", text |-> text]))
        \/ /\ current /\ packetRequired(run)
           /\ Call(caller, asked, None, Review(Packet(run), TRUE, {}), None)

Spec == Init /\ [][Next]_vars

Fairness == WF_vars(\E c \in Callers : Diligent(c) \/ Continue(c))

FairSpec == Spec /\ Fairness

-----------------------------------------------------------------------------
(* Properties. *)

\* The run is a record or None, its matrix has a row for something the issue
\* or a decision states, and no loop has seen more than it may.
TypeOK ==
    /\ issue \in Issues /\ edits \in 0..MaxEdits /\ developed \in BOOLEAN
    /\ \A c \in Callers :
          /\ loop[c].status \in {"idle", "again", "stalled", "spent"}
          /\ loop[c].declared \in Profiles \cup {None}
          /\ Cardinality(loop[c].seen) <= MaxTransitions
    /\ run # None =>
          /\ run.state \in States /\ run.approved \in BOOLEAN /\ run.candidate \in BOOLEAN
          /\ run.pendingDecision \in Questions \cup {Supply, None}
          /\ run.authority.issue \in Issues /\ run.authority.decisions \subseteq Decision
          /\ run.matrix # None =>
                /\ run.matrix.class \in Classes /\ run.matrix.rows # {}
                /\ run.matrix.rows \subseteq run.authority.issue.criteria \cup Questions \cup {Supply}

\* Whatever order requests, late answers and edits come in, the record that a
\* step leaves behind is one the codec reads again (record.go, validateRun).
RecordLoads == TypeOK /\ (run # None => validateRun(run))

\* An approved run has an exact review of the matrix it now holds, and that
\* matrix answers the compiler and, finding by finding, every reviewer who
\* ever rejected one.
ApprovalBacked ==
    run # None /\ run.approved =>
        LET last == run.reviews[Len(run.reviews)]
        IN  /\ last.findings = {} /\ last.authority = run.authority /\ last.matrix = run.matrix
            /\ run.matrix.rows = Rows(run.authority) /\ run.matrix.class \in {"plain", "bound"}
            /\ \A i \in DOMAIN run.reviews : run.reviews[i].findings # {} =>
                  \E k \in DOMAIN run.corrections :
                     /\ run.corrections[k].reviewed = run.reviews[i].matrix
                     /\ run.corrections[k].findings = run.reviews[i].findings

\* A decision outlives an edit of the issue only while the issue still asks
\* its question, after all the questions before it, and without another answer.
DecisionsTraceable ==
    run # None =>
        LET i == run.authority.issue
            decisions == run.authority.decisions
        IN  \A d \in decisions :
              /\ \A e \in decisions : e.request = d.request => e = d
              /\ IF d.request = Supply
                 THEN i.questions \subseteq Decided(decisions) /\ Owned(i, decisions) = {}
                 ELSE /\ d.request \in i.questions
                      /\ \A q \in i.questions : Rank(q) < Rank(d.request) => q \in Decided(decisions)

\* The loop never gives up: what it takes for a deterministic pause is always
\* followed by another state, whatever the other callers do in between.
NoStall == \A c \in Callers : loop[c].status \notin {"stalled", "spent"}

\* With diligent callers and an issue that settles, approved and with no open
\* dependency, its authority gets an approved matrix, unless development
\* began without one.
EventuallyQualified ==
    <>[](issue.approved /\ ~issue.blocking) =>
        <>[](run # None /\ run.authority.issue = issue /\ (run.approved \/ run.candidate))

\* What the guide says of a pause: an Advance without input that meets it
\* again, under an unchanged authority, finds it as it was.
PauseStable ==
    run # None /\ issue.approved /\ PauseCause(run) \in {"invariant-block", "semantic-input", "independent-review"} =>
        LET c == compileAuthority(issue, run.authority.decisions, None)
        IN  SameAuthority(c) => Advance(issue.profile, None, None, None) = Unchanged(run)

=============================================================================
