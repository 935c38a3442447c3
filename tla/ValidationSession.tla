--------------------------- MODULE ValidationSession ---------------------------
(***************************************************************************)
(* The validation sessions of a run (internal/issuedelivery/               *)
(* validation_session.go) and the two artifacts a session yields, the      *)
(* boundary proofs and the exhaustive proof (assurance.go).  An Advance    *)
(* journals a session before it executes the validator and journals the    *)
(* outcome afterwards; the proofs are taken from the journalled session by *)
(* later Advances, so time, crashes and other invocations come between.    *)
(* A derived candidate may adopt the session of its parent.                *)
(*                                                                         *)
(* A session is its position in the journal; the completion digest names   *)
(* it just as well.  A day is the 24 hours a validator identity is valid.  *)
(***************************************************************************)
EXTENDS Naturals, Sequences, FiniteSets, FiniteSetsExt

CONSTANTS
    Boundaries,       \* the sensitive boundaries
    Places,           \* checkouts with their sandbox roots, where Advance can be run
    Principals,       \* who can be authenticated, or "none": no impact packet is given
    Confirmer,        \* the principal that confirmed the impact assessment
    MaxCandidates,
    MaxDisturbances   \* bound: crashes, failures, changes of the surroundings

ASSUME ValidationAssumption ==
    /\ "exhaustive" \notin Boundaries /\ Confirmer \in Principals
    /\ MaxCandidates \in Nat /\ MaxDisturbances \in Nat

VARIABLES
    sessions,         \* the journal of validation sessions
    invalidations,    \* why a session does not serve a candidate
    cands,            \* the candidates of the run, the last one current
    ready,            \* the run has its local readiness
    phase,            \* where the invocation under way is
    place, principal, \* of the next invocation
    clock, disturbances,
    panicked          \* the process died of a nil authority

record == <<sessions, invalidations, cands, ready>>
surroundings == <<place, principal, clock>>
vars == <<record, phase, surroundings, disturbances, panicked>>

Obligations == Boundaries \cup {"exhaustive"}
Latest == Len(sessions)
Current == Len(cands)

Session == [cand: Nat, place: Places, covered: SUBSET Boundaries, expires: Nat,
            state: {"started", "completed", "failed"}]
Proof == [obligation: Obligations, session: Nat, derived: BOOLEAN]
Candidate == [boundaries: SUBSET Boundaries, derivable: BOOLEAN,
              receipts: SUBSET [obligation: Obligations, session: Nat], proofs: SUBSET Proof]

Init ==
    /\ sessions = <<>> /\ invalidations = {} /\ ready = FALSE /\ phase = "idle"
    /\ \E bs \in SUBSET Boundaries :
          cands = <<[boundaries |-> bs, derivable |-> FALSE, receipts |-> {}, proofs |-> {}]>>
    /\ place \in Places /\ principal \in Principals
    /\ clock = 0 /\ disturbances = 0 /\ panicked = FALSE

missingBoundaryProofs(c) == c.boundaries \ {p.obligation : p \in c.proofs}

-----------------------------------------------------------------------------
(* Does a session serve a candidate? *)

\* ObserveValidationSession: what an execution would run on, here and now; it offers the
\* boundaries that the candidate requires.
Observation(c, clean) == [place |-> place, clean |-> clean, boundaries |-> cands[c].boundaries]

\* The order in which validationSessionMismatch asks.
Precedence == <<"candidate", "checkout", "instrumentation", "boundary-requirement",
                "workspace", "expiry", "failed-execution">>

\* In what a session differs from what the candidate requires here and now.  Whether the
\* instrumentation covers operator state depends on there being a boundary at all.
Apart(s, c, o, expired) ==
    {k \in {Precedence[i] : i \in DOMAIN Precedence} :
        \/ k = "candidate" /\ s.cand # c
        \/ k = "checkout" /\ s.place # o.place
        \/ k = "instrumentation" /\ s.covered = {} /\ o.boundaries # {}
        \/ k = "boundary-requirement" /\ ~(o.boundaries \subseteq s.covered)
        \/ k = "workspace" /\ ~o.clean
        \/ k = "expiry" /\ expired
        \/ k = "failed-execution" /\ s.state = "failed"}

Differences(s, c, clean) == Apart(s, c, Observation(c, clean), clock >= s.expires)

validationSessionMismatch(s, c, clean) ==
    IF Differences(s, c, clean) = {} THEN "none"
    ELSE Precedence[Min({i \in DOMAIN Precedence : Precedence[i] \in Differences(s, c, clean)})]

-----------------------------------------------------------------------------
(* Adoption of the parent's session. *)

\* The completed sessions of the parent; the last of them is the source.
ParentSessions(states) ==
    {i \in DOMAIN sessions : sessions[i].cand = Current - 1 /\ sessions[i].state \in states}

\* Why EvaluateValidationCompatibility refuses; the covered boundaries must be equal.
Refusals(s, clean) ==
    LET o == Observation(Current, clean) IN
    {k \in {"candidate", "checkout", "instrumentation", "boundary-requirement", "workspace",
            "expiry", "impact-assessment"} :
        \/ k = "candidate" /\ o.boundaries # cands[Current - 1].boundaries
        \/ k = "checkout" /\ s.place # o.place
        \/ k = "instrumentation" /\ (s.covered = {}) # (o.boundaries = {})
        \/ k = "boundary-requirement" /\ s.covered # o.boundaries
        \/ k = "workspace" /\ ~o.clean
        \/ k = "expiry" /\ clock >= s.expires
        \/ k = "impact-assessment" /\ principal # Confirmer}

Adoption(i, reasons, cleared, session) ==
    [added |-> {[session |-> i, cand |-> Current, class |-> k] : k \in reasons},
     cleared |-> cleared, session |-> session]

\* The session to adopt, 0 for none, and what asking for it leaves in the record.
reusableDerivedValidationSession(clean) ==
    LET completed == ParentSessions({"completed"})
        tried == ParentSessions({"started", "completed", "failed"})
        source == Max(completed)
        refused == Refusals(sessions[source], clean)
    IN  IF ~cands[Current].derivable \/ tried = {} THEN Adoption(0, {}, FALSE, 0)
        ELSE IF completed = {} THEN Adoption(Max(tried), {"failed-execution"}, FALSE, 0)
        ELSE Adoption(source, refused, refused # {}, IF refused = {} THEN source ELSE 0)

\* Evaluating the tuple asks an authority that only an invocation with an impact packet has.
Unauthorized ==
    cands[Current].derivable /\ ParentSessions({"completed"}) # {} /\ principal = "none"

Admitted(c, adoption) ==
    [c EXCEPT !.receipts = [obligation: c.boundaries \cup {"exhaustive"}, session: {adoption.session}]]

\* Variant: only the derived boundary proofs are dropped.
PartlyCleared(c, adoption) ==
    IF adoption.cleared
    THEN [c EXCEPT !.receipts = {}, !.proofs = {p \in @ : ~p.derived \/ p.obligation = "exhaustive"}]
    ELSE IF adoption.session # 0 THEN Admitted(c, adoption) ELSE c

\* What the candidate holds once adoption was asked for (clearValidationDerivation, or a
\* receipt per obligation).
Cleared(c, adoption) ==
    IF adoption.cleared THEN [c EXCEPT !.receipts = {}, !.proofs = {p \in @ : ~p.derived}]
    ELSE IF adoption.session # 0 THEN Admitted(c, adoption) ELSE c

-----------------------------------------------------------------------------
(* One Advance on a candidate whose reviews are done. *)

Disturb == disturbances < MaxDisturbances /\ disturbances' = disturbances + 1
Calm == UNCHANGED disturbances

Asks == phase = "idle" /\ ~ready /\ ~panicked

Serves(i) ==
    i # 0 /\ sessions[i].state = "completed" /\ validationSessionMismatch(sessions[i], Current, TRUE) = "none"

\* Variant: each kind of proof gets an execution of its own.
UnsharedInForce ==
    LET adopted == reusableDerivedValidationSession(TRUE).session IN
    IF adopted # 0 THEN adopted
    ELSE IF Serves(Latest) /\ \A p \in cands[Current].proofs : p.session # Latest THEN Latest ELSE 0

\* The session whose proofs this Advance may take: an adopted one, or the latest when it
\* completed and still serves.
InForce ==
    LET adopted == reusableDerivedValidationSession(TRUE).session IN
    IF adopted # 0 THEN adopted ELSE IF Serves(Latest) THEN Latest ELSE 0

\* The candidate with the proofs of these obligations taken from the session in force.
Proved(obligations) ==
    LET adoption == reusableDerivedValidationSession(TRUE)
        c == Cleared(cands[Current], adoption)
    IN  [c EXCEPT !.proofs = @ \cup [obligation: obligations, session: {InForce},
                                     derived: {adoption.session # 0}]]

Asked == Cleared(cands[Current], reusableDerivedValidationSession(TRUE))

ProveBoundaries ==
    /\ Asks /\ ~Unauthorized /\ InForce # 0 /\ missingBoundaryProofs(Asked) # {}
    /\ cands' = [cands EXCEPT ![Current] = Proved(missingBoundaryProofs(Asked))]
    /\ invalidations' = invalidations \cup reusableDerivedValidationSession(TRUE).added
    /\ Calm /\ UNCHANGED <<sessions, ready, phase, surroundings, panicked>>

\* Variant: once everything is proved no session is asked for.
UnaskedConclude(stable) ==
    /\ Asks /\ ~Unauthorized /\ missingBoundaryProofs(Asked) = {}
    /\ InForce # 0 \/ \E p \in Asked.proofs : p.obligation = "exhaustive"
    /\ cands' = [cands EXCEPT ![Current] =
          Proved({"exhaustive"} \ {p.obligation : p \in Asked.proofs})]
    /\ invalidations' = invalidations \cup reusableDerivedValidationSession(TRUE).added
    /\ ready' = stable
    /\ IF stable THEN Calm ELSE Disturb
    /\ UNCHANGED <<sessions, phase, surroundings, panicked>>

\* The exhaustive proof, unless there is one, and readiness unless the authority or HEAD
\* changed meanwhile.
Conclude(stable) ==
    /\ Asks /\ ~Unauthorized /\ InForce # 0 /\ missingBoundaryProofs(Asked) = {}
    /\ cands' = [cands EXCEPT ![Current] =
          Proved({"exhaustive"} \ {p.obligation : p \in Asked.proofs})]
    /\ invalidations' = invalidations \cup reusableDerivedValidationSession(TRUE).added
    /\ ready' = stable
    /\ IF stable THEN Calm ELSE Disturb
    /\ UNCHANGED <<sessions, phase, surroundings, panicked>>

NewSession ==
    [cand |-> Current, place |-> place, covered |-> cands[Current].boundaries,
     expires |-> clock + 1, state |-> "started"]

Invalidation(class) == {[session |-> Latest, cand |-> Current, class |-> class]}

\* Why the latest session is set aside; one that has not ended failed.
SetAside ==
    LET class == validationSessionMismatch(sessions[Latest], Current, TRUE) IN
    Invalidation(IF class = "none" THEN "failed-execution" ELSE class)

\* What is persisted when a session starts.
Journal ==
    LET adoption == reusableDerivedValidationSession(TRUE) IN
    /\ cands' = [cands EXCEPT ![Current] = Cleared(@, adoption)]
    /\ invalidations' = invalidations \cup adoption.added \cup (IF Latest = 0 THEN {} ELSE SetAside)
    /\ sessions' = Append([i \in DOMAIN sessions |->
          IF i = Latest /\ sessions[i].state = "started"
          THEN [sessions[i] EXCEPT !.state = "failed"] ELSE sessions[i]], NewSession)

\* Variant: the start of a session that has not ended is taken up again.
AdoptingStartSession ==
    /\ Asks /\ ~Unauthorized /\ InForce = 0
    /\ IF Latest # 0 /\ sessions[Latest].state = "started"
             /\ validationSessionMismatch(sessions[Latest], Current, TRUE) = "none"
       THEN UNCHANGED <<sessions, invalidations, cands>>
       ELSE Journal
    /\ phase' = "journalled"
    /\ Calm /\ UNCHANGED <<ready, surroundings, panicked>>

\* Variant: nothing starts while a session has not ended.
CautiousStartSession ==
    /\ Asks /\ ~Unauthorized /\ InForce = 0 /\ (Latest # 0 => sessions[Latest].state # "started")
    /\ Journal /\ phase' = "journalled"
    /\ Calm /\ UNCHANGED <<ready, surroundings, panicked>>

\* advanceValidationSession journals a new session before anything is executed.
StartSession ==
    /\ Asks /\ ~Unauthorized /\ InForce = 0
    /\ Journal /\ phase' = "journalled"
    /\ Calm /\ UNCHANGED <<ready, surroundings, panicked>>

\* observationInvalidationClass: the latest session is compared with the commit that was
\* observed under the candidate that the session names, so that of an earlier candidate
\* is set aside for its commit.
observationInvalidationClass ==
    IF sessions[Latest].cand # Current THEN "commit"
    ELSE validationSessionMismatch(sessions[Latest], Current, FALSE)

\* The workspace is not clean when the session is observed: nothing is started.
RefuseObservation ==
    /\ Asks /\ ~Unauthorized /\ Disturb
    /\ LET adoption == reusableDerivedValidationSession(FALSE) IN
       /\ adoption.session = 0
       /\ cands' = [cands EXCEPT ![Current] = Cleared(@, adoption)]
       /\ invalidations' = invalidations \cup adoption.added \cup
             (IF Latest = 0 THEN {} ELSE Invalidation(observationInvalidationClass))
    /\ UNCHANGED <<sessions, ready, phase, surroundings, panicked>>

\* The start was read back from the journal; now the validator runs.
BeginExecution ==
    /\ phase = "journalled" /\ sessions[Latest].state = "started"
    /\ phase' = "executing"
    /\ Calm /\ UNCHANGED <<record, surroundings, panicked>>

\* ExecuteValidationSession: the validator passes, and neither the candidate nor the state
\* of the operator has changed under it.
ExecuteValidationSession(passed, untouched) == IF passed /\ untouched THEN "completed" ELSE "failed"

\* executeStartedValidationSession journals how the execution ended; an interrupted one
\* that still gets to write records a failure.
EndExecution(passed, untouched) ==
    /\ phase = "executing"
    /\ sessions' = [sessions EXCEPT ![Latest].state = ExecuteValidationSession(passed, untouched)]
    /\ IF ExecuteValidationSession(passed, untouched) = "failed"
       THEN Disturb /\ invalidations' = invalidations \cup
              {[session |-> Latest, cand |-> sessions[Latest].cand, class |-> "failed-execution"]}
       ELSE Calm /\ UNCHANGED invalidations
    /\ phase' = "idle"
    /\ UNCHANGED <<cands, ready, surroundings, panicked>>

\* The process dies, or cannot write what it has to.
Crash ==
    /\ phase # "idle" /\ Disturb
    /\ phase' = "idle"
    /\ UNCHANGED <<record, surroundings, panicked>>

\* The embedded interface of persistedImpactAuthorAuthority is nil.
Panic ==
    /\ Asks /\ Unauthorized
    /\ panicked' = TRUE
    /\ Calm /\ UNCHANGED <<record, phase, surroundings>>

-----------------------------------------------------------------------------
(* What loading the record checks. *)

\* A proof belongs to a session of its candidate, or to one of the parent by a receipt
\* for that very obligation.
validValidationProofOwner(c, p) ==
    IF sessions[p.session].cand = c THEN ~p.derived
    ELSE /\ p.derived /\ sessions[p.session].cand = c - 1
         /\ [obligation |-> p.obligation, session |-> p.session] \in cands[c].receipts

validateValidationSessions(c) ==
    \A p \in cands[c].proofs :
        /\ p.session \in DOMAIN sessions /\ sessions[p.session].state = "completed"
        /\ validValidationProofOwner(c, p)
        /\ p.obligation \in Boundaries => p.obligation \in sessions[p.session].covered

-----------------------------------------------------------------------------
(* The rest of the run, and the surroundings. *)

\* The candidate is found to touch more boundaries: its exhaustive proof goes.
Escalate(bs) ==
    /\ phase = "idle" /\ Disturb /\ ~(bs \subseteq cands[Current].boundaries)
    /\ cands' = [cands EXCEPT ![Current].boundaries = @ \cup bs,
                              ![Current].proofs = {p \in @ : p.obligation # "exhaustive"}]
    /\ ready' = FALSE
    /\ UNCHANGED <<sessions, invalidations, phase, surroundings, panicked>>

\* A new commit; exposure only grows, and a derivation that needs no fresh validation
\* was admitted and confirmed, or not.
NewCandidate(bs, derivable) ==
    /\ phase = "idle" /\ Disturb /\ Current < MaxCandidates
    /\ derivable => bs \subseteq cands[Current].boundaries
    /\ cands' = Append(cands, [boundaries |-> cands[Current].boundaries \cup bs,
                               derivable |-> derivable, receipts |-> {}, proofs |-> {}])
    /\ ready' = FALSE
    /\ UNCHANGED <<sessions, invalidations, phase, surroundings, panicked>>

\* The next invocation runs elsewhere, or as somebody else, or a day later.
Move ==
    /\ phase = "idle" /\ Disturb
    /\ \/ place' \in Places \ {place} /\ UNCHANGED <<principal, clock>>
       \/ principal' \in Principals \ {principal} /\ UNCHANGED <<place, clock>>
       \/ clock' = clock + 1 /\ UNCHANGED <<place, principal>>
    /\ UNCHANGED <<record, phase, panicked>>

Progress ==
    \/ ProveBoundaries \/ Conclude(TRUE) \/ StartSession \/ BeginExecution \/ EndExecution(TRUE, TRUE)
    \/ Panic

Next ==
    \/ Progress
    \/ Conclude(FALSE) \/ RefuseObservation \/ Crash
    \/ \E passed \in BOOLEAN : EndExecution(passed, FALSE) \/ EndExecution(FALSE, TRUE)
    \/ \E bs \in SUBSET Boundaries : Escalate(bs) \/ \E d \in BOOLEAN : NewCandidate(bs, d)
    \/ Move

Spec == Init /\ [][Next]_vars

\* Somebody runs Advance again, and a validator that is neither interrupted nor failing ends.
FairSpec == Spec /\ WF_vars(Progress)

-----------------------------------------------------------------------------
(* Properties *)

TypeOK ==
    /\ sessions \in Seq(Session) /\ cands \in Seq(Candidate) /\ cands # <<>>
    /\ invalidations \subseteq [session: DOMAIN sessions, cand: DOMAIN cands,
          class: {Precedence[i] : i \in DOMAIN Precedence} \cup {"commit", "impact-assessment"}]
    /\ \A i \in DOMAIN sessions : sessions[i].cand \in DOMAIN cands
    /\ ready \in BOOLEAN /\ panicked \in BOOLEAN /\ phase \in {"idle", "journalled", "executing"}
    /\ place \in Places /\ principal \in Principals /\ clock \in Nat /\ disturbances \in Nat
    /\ phase # "idle" => Latest # 0 /\ sessions[Latest].state = "started"

\* What is stored keeps its types and can be loaded again: validateValidationSessions
\* accepts it for every candidate.
RecordLoads == TypeOK /\ \A c \in DOMAIN cands : validateValidationSessions(c)

\* An outcome is final, only the last session can be open, and one whose invocation is
\* gone can only be declared failed: what a crash left behind never counts as a success.
SessionsSettle ==
    [][\A i \in DOMAIN sessions :
          /\ i \in DOMAIN sessions'
          /\ sessions[i].state # "started" => sessions'[i] = sessions[i]
          /\ sessions'[i].state = "completed" => sessions[i].state = "completed" \/ phase = "executing"
          /\ sessions'[i].state = "started" => i = Len(sessions')
          /\ phase = "idle" /\ sessions[i].state = "started" /\ phase' # "idle"
                => sessions'[i].state = "failed"]_vars

\* A session that completed where this invocation runs and that has not expired.
Valid(s) == s.state = "completed" /\ s.place = place /\ clock < s.expires

\* A proof is only taken under a valid session.  Readiness is only given while there is
\* one for every boundary, the candidate's own, or the parent's while the principal that
\* confirmed the assessment asks; when every obligation is proved; and when no adopted
\* proof rests on any other session.  An adopted proof is dropped when its session can no
\* longer be adopted; a proof from the candidate's own session is kept.
AdmittedInForce ==
    [][ /\ \A c \in DOMAIN cands : \A p \in cands'[c].proofs \ cands[c].proofs :
              Valid(sessions[p.session])
        /\ ~ready /\ ready' =>
              LET held == cands'[Current].proofs IN
              /\ cands'[Current].boundaries \cup {"exhaustive"} \subseteq {p.obligation : p \in held}
              /\ \E i \in DOMAIN sessions :
                    /\ Valid(sessions[i])
                    /\ cands'[Current].boundaries \subseteq sessions[i].covered
                    /\ \/ sessions[i].cand = Current
                       \/ sessions[i].cand = Current - 1 /\ principal = Confirmer
                    /\ \A p \in held : p.derived => p.session = i ]_vars

\* The validator runs once, and once more for each thing that went wrong or changed.
BoundedExecutions == Len(sessions) <= disturbances + 1

\* Interrupted, failing and moved validation comes to its end once it is left alone,
\* unless the process dies each time it asks for an authority it was not given.
EventuallyReady == <>[](ready \/ panicked)

\* An invocation without an impact packet goes on with what was admitted before.
ResumesUnaided == ~panicked
===============================================================================
