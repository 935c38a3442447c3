------------------------ MODULE ValidationSessionProofs ------------------------
(***************************************************************************)
(* The safety of validation sessions, for any boundaries, checkouts,       *)
(* principals and bounds.                                                  *)
(***************************************************************************)
EXTENDS ValidationSession, WellFoundedInduction, TLAPS

-------------------------------------------------------------------------------
(* Least and greatest numbers *)

\* A set of numbers has a least one.
LEMMA LeastNumber ==
    ASSUME NEW S, S \subseteq Nat, S # {}
    PROVE  Min(S) \in S /\ \A n \in S : Min(S) <= n
<1>1. \E n \in S : \A m \in S : ~(m < n)
  <2>1. PICK n \in S : \A m \in S : <<m, n>> \notin OpToRel(<, Nat)
    BY NatLessThanWellFounded, WFMin
  <2> QED
    BY <2>1, Zenon DEF OpToRel
<1>2. PICK n \in S : \A m \in S : n <= m
  BY <1>1
<1> QED
  BY <1>2 DEF Min

\* A bounded set of numbers has a greatest one.
LEMMA GreatestNumber ==
    ASSUME NEW bound \in Nat, NEW S, S \subseteq 0..bound, S # {}
    PROVE  Max(S) \in S /\ \A n \in S : n <= Max(S)
<1> DEFINE T == {m \in Nat : \E n \in S : m + n = bound}
<1>1. \A n \in S : n \in 0..bound /\ n \in Nat /\ bound - n \in Nat /\ (bound - n) + n = bound
  OBVIOUS
<1>2. T \subseteq Nat /\ T # {}
  BY <1>1
<1>3. Min(T) \in T /\ \A m \in T : Min(T) <= m
  BY <1>2, LeastNumber
<1>4. PICK n \in S : Min(T) + n = bound
  BY <1>3
<1>5. \A m \in S : bound - m \in T
  BY <1>1
<1>6. \A m \in S : m <= n
  <2> SUFFICES ASSUME NEW m \in S PROVE m <= n
    OBVIOUS
  <2>1. Min(T) <= bound - m
    BY <1>3, <1>5
  <2>2. Min(T) \in Nat
    BY <1>3
  <2>3. m \in Nat /\ n \in Nat
    BY <1>1
  <2> HIDE DEF T
  <2>4. \A k \in Nat : k <= bound - m /\ k + n = bound => m <= n
    BY <2>3
  <2> QED
    BY <1>4, <2>1, <2>2, <2>4
<1> QED
  BY <1>6 DEF Max

-------------------------------------------------------------------------------
(* The inductive invariant *)

Classes == {"candidate", "checkout", "instrumentation", "boundary-requirement", "workspace",
            "expiry", "failed-execution"}

Typed ==
    /\ sessions \in Seq(Session) /\ cands \in Seq(Candidate) /\ Current \in DOMAIN cands
    /\ invalidations \subseteq [session: DOMAIN sessions, cand: DOMAIN cands,
                                class: Classes \cup {"commit", "impact-assessment"}]
    /\ ready \in BOOLEAN /\ panicked \in BOOLEAN /\ phase \in {"idle", "journalled", "executing"}
    /\ place \in Places /\ principal \in Principals /\ clock \in Nat /\ disturbances \in Nat

\* What a session was started for and where, as far as it is needed to prove it.
Fits(s, c) ==
    /\ s.cand = c /\ s.place = place /\ s.covered = cands[c].boundaries
    /\ clock < s.expires

\* The session of the invocation under way is the last one, and serves once it has ended.
InFlight ==
    phase # "idle" => Latest # 0 /\ sessions[Latest].state = "started" /\ Fits(sessions[Latest], Current)

\* Sessions are of candidates there are, and only the last one can be open.
Journalled ==
    \A i \in DOMAIN sessions :
        /\ sessions[i].cand \in DOMAIN cands
        /\ sessions[i].state = "started" => i = Latest

\* A proof p of the candidate number c, which holds d, stems from a session of the journal ss
\* that completed: one of its candidate, or, by receipt, the last one of the parent.
Owned(ss, p, c, d) ==
    /\ p.session \in DOMAIN ss /\ ss[p.session].state = "completed"
    /\ p.obligation \in d.boundaries \cup {"exhaustive"}
    /\ p.obligation \in Boundaries => p.obligation \in ss[p.session].covered
    /\ IF p.derived
       THEN /\ d.derivable /\ ss[p.session].cand = c - 1
            /\ [obligation |-> p.obligation, session |-> p.session] \in d.receipts
            /\ \A i \in DOMAIN ss :
                  ss[i].cand = c - 1 /\ ss[i].state = "completed" => i <= p.session
       ELSE ss[p.session].cand = c

ProofsOwned == \A c \in DOMAIN cands : \A p \in cands[c].proofs : Owned(sessions, p, c, cands[c])

\* Each session but one, that in force or under way, was answered by a disturbance.
Counted ==
    /\ Latest <= disturbances + 1
    /\ phase = "idle" /\ ~Serves(Latest) => Latest <= disturbances

IInv == Typed /\ InFlight /\ Journalled /\ ProofsOwned /\ Counted

-------------------------------------------------------------------------------
(* In what a session differs *)

\* The classes of an invalidation, in the order in which they are asked for.
LEMMA PrecedenceClasses ==
    /\ DOMAIN Precedence = 1..7
    /\ \A i \in DOMAIN Precedence : Precedence[i] \in Classes
    /\ {Precedence[i] : i \in DOMAIN Precedence} = Classes
<1>1. DOMAIN Precedence = 1..7
  BY DEF Precedence
<1>2. /\ Precedence[1] = "candidate" /\ Precedence[2] = "checkout" /\ Precedence[3] = "instrumentation"
      /\ Precedence[4] = "boundary-requirement" /\ Precedence[5] = "workspace"
      /\ Precedence[6] = "expiry" /\ Precedence[7] = "failed-execution"
  BY DEF Precedence
<1>3. \A i \in 1..7 : i = 1 \/ i = 2 \/ i = 3 \/ i = 4 \/ i = 5 \/ i = 6 \/ i = 7
  OBVIOUS
<1>4. \A i \in 1..7 : Precedence[i] \in Classes
  BY <1>2, <1>3 DEF Classes
<1>5. \A k \in Classes : \E i \in 1..7 : Precedence[i] = k
  BY <1>2 DEF Classes
<1> QED
  BY <1>1, <1>4, <1>5

\* The first class of some is one of them, hence never "none".
LEMMA FirstClass ==
    ASSUME NEW D, D \subseteq Classes
    PROVE  /\ D # {} => Precedence[Min({i \in DOMAIN Precedence : Precedence[i] \in D})] \in D
           /\ "none" \notin D
<1> DEFINE S == {i \in DOMAIN Precedence : Precedence[i] \in D}
<1>1. D # {} => S # {}
  BY PrecedenceClasses
<1>2. S \subseteq Nat
  BY PrecedenceClasses
<1> HIDE DEF S
<1>3. D # {} => Min(S) \in S
  BY <1>1, <1>2, LeastNumber
<1>4. D # {} => Precedence[Min(S)] \in D
  BY <1>3 DEF S
<1>5. "none" \notin D
  BY DEF Classes
<1> QED
  BY <1>4, <1>5 DEF S

\* In what a session of the journal differs are classes; in nothing exactly when it is of the
\* candidate, was started here, covers the boundaries, has not expired and has not failed.
LEMMA DifferencesDef ==
    ASSUME NEW s, NEW c
    PROVE  /\ Differences(s, c, TRUE) \subseteq Classes
           /\ Differences(s, c, TRUE) = {} <=>
                 /\ s.cand = c /\ s.place = place /\ cands[c].boundaries \subseteq s.covered
                 /\ ~(clock >= s.expires) /\ s.state # "failed"
<1>1. Differences(s, c, TRUE) = {k \in Classes :
        \/ k = "candidate" /\ s.cand # c
        \/ k = "checkout" /\ s.place # place
        \/ k = "instrumentation" /\ s.covered = {} /\ cands[c].boundaries # {}
        \/ k = "boundary-requirement" /\ ~(cands[c].boundaries \subseteq s.covered)
        \/ k = "expiry" /\ clock >= s.expires
        \/ k = "failed-execution" /\ s.state = "failed"}
  BY PrecedenceClasses DEF Differences, Apart, Observation
<1>2. ASSUME Differences(s, c, TRUE) = {}
      PROVE  /\ s.cand = c /\ s.place = place /\ cands[c].boundaries \subseteq s.covered
             /\ ~(clock >= s.expires) /\ s.state # "failed"
  BY <1>1, <1>2 DEF Classes
<1>3. ASSUME s.cand = c, s.place = place, cands[c].boundaries \subseteq s.covered,
             ~(clock >= s.expires), s.state # "failed"
      PROVE  Differences(s, c, TRUE) = {}
  BY <1>1, <1>3
<1> QED
  BY <1>1, <1>2, <1>3

\* The same of the next state.
LEMMA DifferencesDefNext ==
    ASSUME NEW s, NEW c
    PROVE  /\ Differences(s, c, TRUE)' \subseteq Classes
           /\ Differences(s, c, TRUE)' = {} <=>
                 /\ s.cand = c /\ s.place = place' /\ cands'[c].boundaries \subseteq s.covered
                 /\ ~(clock' >= s.expires) /\ s.state # "failed"
<1>1. Differences(s, c, TRUE)' = {k \in Classes :
        \/ k = "candidate" /\ s.cand # c
        \/ k = "checkout" /\ s.place # place'
        \/ k = "instrumentation" /\ s.covered = {} /\ cands'[c].boundaries # {}
        \/ k = "boundary-requirement" /\ ~(cands'[c].boundaries \subseteq s.covered)
        \/ k = "expiry" /\ clock' >= s.expires
        \/ k = "failed-execution" /\ s.state = "failed"}
  BY PrecedenceClasses DEF Differences, Apart, Observation
<1>2. ASSUME Differences(s, c, TRUE)' = {}
      PROVE  /\ s.cand = c /\ s.place = place' /\ cands'[c].boundaries \subseteq s.covered
             /\ ~(clock' >= s.expires) /\ s.state # "failed"
  BY <1>1, <1>2 DEF Classes
<1>3. ASSUME s.cand = c, s.place = place', cands'[c].boundaries \subseteq s.covered,
             ~(clock' >= s.expires), s.state # "failed"
      PROVE  Differences(s, c, TRUE)' = {}
  BY <1>1, <1>3
<1> QED
  BY <1>1, <1>2, <1>3

\* What a session is set aside for is one of the classes.
LEMMA MismatchClass ==
    ASSUME NEW s, NEW c
    PROVE  validationSessionMismatch(s, c, TRUE) \in Classes \cup {"none"}
<1> DEFINE D == Differences(s, c, TRUE)
<1>1. D \subseteq Classes
  BY DifferencesDef
<1>2. D # {} => Precedence[Min({i \in DOMAIN Precedence : Precedence[i] \in D})] \in D
  BY <1>1, FirstClass
<1>3. validationSessionMismatch(s, c, TRUE) =
         IF D = {} THEN "none" ELSE Precedence[Min({i \in DOMAIN Precedence : Precedence[i] \in D})]
  BY DEF validationSessionMismatch
<1> HIDE DEF D
<1> QED
  BY <1>1, <1>2, <1>3

\* What a session is refused for in an unclean workspace is one of the classes.
LEMMA UncleanClass ==
    ASSUME NEW s, NEW c
    PROVE  validationSessionMismatch(s, c, FALSE) \in Classes
<1> DEFINE D == Differences(s, c, FALSE)
<1>1. D \subseteq Classes /\ "workspace" \in D
  BY PrecedenceClasses DEF Differences, Apart, Observation, Classes
<1>2. D # {} => Precedence[Min({i \in DOMAIN Precedence : Precedence[i] \in D})] \in D
  BY <1>1, FirstClass
<1>3. validationSessionMismatch(s, c, FALSE) =
         IF D = {} THEN "none" ELSE Precedence[Min({i \in DOMAIN Precedence : Precedence[i] \in D})]
  BY DEF validationSessionMismatch
<1> HIDE DEF D
<1> QED
  BY <1>1, <1>2, <1>3

-------------------------------------------------------------------------------
(* What adoption yields *)

\* The session i can be adopted for the current candidate: the last that completed for the
\* parent, of the same boundaries and place, unexpired, while its confirmer asks.
Source(i) ==
    /\ i \in DOMAIN sessions /\ sessions[i].state = "completed" /\ sessions[i].cand = Current - 1
    /\ sessions[i].covered = cands[Current].boundaries
    /\ sessions[i].place = place /\ clock < sessions[i].expires
    /\ principal = Confirmer
    /\ \A j \in DOMAIN sessions :
          sessions[j].cand = Current - 1 /\ sessions[j].state = "completed" => j <= i

InvalidationSet ==
    [session: DOMAIN sessions, cand: DOMAIN cands, class: Classes \cup {"commit", "impact-assessment"}]

\* What Typed says of the numbers of the sessions and of the candidates.
LEMMA Numbers ==
    ASSUME Typed
    PROVE  /\ Latest \in Nat /\ DOMAIN sessions = 1..Latest
           /\ Current \in Nat \ {0} /\ DOMAIN cands = 1..Current
           /\ \A i \in DOMAIN sessions : sessions[i] \in Session
           /\ \A c \in DOMAIN cands : cands[c] \in Candidate
           /\ cands[Current] \in Candidate
  BY DEF Typed, Latest, Current

\* A source that no refusal speaks against has the boundaries and the place, unexpired.
LEMMA NoRefusal ==
    ASSUME NEW s \in Session, NEW clean, clock \in Nat, Refusals(s, clean) = {}
    PROVE  /\ s.place = place /\ s.covered = cands[Current].boundaries /\ clock < s.expires
           /\ principal = Confirmer
<1>1. /\ "checkout" \notin Refusals(s, clean) /\ "expiry" \notin Refusals(s, clean)
      /\ "boundary-requirement" \notin Refusals(s, clean)
      /\ "impact-assessment" \notin Refusals(s, clean)
  OBVIOUS
<1>2. /\ ~(clock >= s.expires) /\ s.place = place /\ s.covered = cands[Current].boundaries
      /\ principal = Confirmer
  BY <1>1 DEF Refusals, Observation
<1>3. s.expires \in Nat
  BY DEF Session
<1> QED
  BY <1>2, <1>3

\* Asking for adoption invalidates existing sessions, for known reasons, and yields none or
\* a source; nothing is cleared when it yields one.
LEMMA AdoptionOutcome ==
    ASSUME Typed, NEW clean
    PROVE  LET a == reusableDerivedValidationSession(clean) IN
           /\ a.added \subseteq InvalidationSet
           /\ a.session \in Nat
           /\ a.session # 0 =>
                 ~a.cleared /\ cands[Current].derivable /\ Source(a.session)
<1> DEFINE completed == ParentSessions({"completed"})
           tried == ParentSessions({"started", "completed", "failed"})
           refused == Refusals(sessions[Max(completed)], clean)
           a == reusableDerivedValidationSession(clean)
<1>1. completed \subseteq 1..Latest /\ tried \subseteq 1..Latest
  BY Numbers DEF ParentSessions
<1>2. \A i \in DOMAIN sessions, R \in SUBSET (Classes \cup {"commit", "impact-assessment"}) :
         {[session |-> i, cand |-> Current, class |-> k] : k \in R} \subseteq InvalidationSet
  BY Numbers DEF InvalidationSet
<1>3. CASE ~cands[Current].derivable \/ tried = {}
  <2>1. a = Adoption(0, {}, FALSE, 0)
    BY <1>3 DEF reusableDerivedValidationSession
  <2> QED
    BY <2>1 DEF Adoption
<1>4. CASE ~(~cands[Current].derivable \/ tried = {}) /\ completed = {}
  <2>1. a = Adoption(Max(tried), {"failed-execution"}, FALSE, 0)
    BY <1>4 DEF reusableDerivedValidationSession
  <2>2. Max(tried) \in DOMAIN sessions
    BY <1>1, <1>4, Numbers, GreatestNumber
  <2>3. {"failed-execution"} \in SUBSET (Classes \cup {"commit", "impact-assessment"})
    BY DEF Classes
  <2> HIDE DEF tried, completed, a
  <2>4. {[session |-> Max(tried), cand |-> Current, class |-> k] : k \in {"failed-execution"}}
           \subseteq InvalidationSet
    BY <1>2, <2>2, <2>3
  <2> QED
    BY <2>1, <2>4 DEF Adoption, a
<1>5. CASE ~(~cands[Current].derivable \/ tried = {}) /\ completed # {}
  <2>1. a = Adoption(Max(completed), refused, refused # {},
                     IF refused = {} THEN Max(completed) ELSE 0)
    BY <1>5 DEF reusableDerivedValidationSession
  <2>2. Max(completed) \in completed /\ \A j \in completed : j <= Max(completed)
    BY <1>1, <1>5, Numbers, GreatestNumber
  <2>3. /\ Max(completed) \in DOMAIN sessions /\ sessions[Max(completed)].cand = Current - 1
        /\ sessions[Max(completed)].state = "completed"
    BY <2>2 DEF ParentSessions
  <2>4. \A j \in DOMAIN sessions :
           sessions[j].cand = Current - 1 /\ sessions[j].state = "completed" => j <= Max(completed)
    BY <2>2 DEF ParentSessions
  <2>5. refused \in SUBSET (Classes \cup {"commit", "impact-assessment"})
    BY DEF Refusals, Classes
  <2>6. ASSUME refused = {} PROVE Source(Max(completed))
    <3>1. sessions[Max(completed)] \in Session /\ clock \in Nat
      BY <2>3, Numbers DEF Typed
    <3>2. /\ sessions[Max(completed)].place = place
          /\ sessions[Max(completed)].covered = cands[Current].boundaries
          /\ clock < sessions[Max(completed)].expires /\ principal = Confirmer
      BY <2>6, <3>1, NoRefusal
    <3> QED
      BY <2>3, <2>4, <3>2 DEF Source
  <2>7. Max(completed) \in Nat
    BY <1>1, <2>2, Numbers
  <2> HIDE DEF completed, tried, refused, a
  <2>8. {[session |-> Max(completed), cand |-> Current, class |-> k] : k \in refused}
           \subseteq InvalidationSet
    BY <1>2, <2>3, <2>5
  <2>9. /\ a.added = {[session |-> Max(completed), cand |-> Current, class |-> k] : k \in refused}
        /\ a.session = IF refused = {} THEN Max(completed) ELSE 0
    BY <2>1 DEF Adoption
  <2>10. a.cleared <=> refused # {}
    BY <2>1 DEF Adoption
  <2>11. /\ a.session \in Nat
         /\ a.session # 0 => ~a.cleared /\ cands[Current].derivable /\ Source(a.session)
    BY <1>5, <2>6, <2>7, <2>9, <2>10
  <2> QED
    BY <2>8, <2>9, <2>11 DEF a
<1> QED
  BY <1>3, <1>4, <1>5

\* A derivable candidate whose parent has a session that completed, and that adopts none, is
\* cleared of what it adopted.
LEMMA RefusedIsCleared ==
    ASSUME Typed, cands[Current].derivable, NEW i \in ParentSessions({"completed"}), NEW clean,
           reusableDerivedValidationSession(clean).session = 0
    PROVE  reusableDerivedValidationSession(clean).cleared
<1> DEFINE completed == ParentSessions({"completed"})
           tried == ParentSessions({"started", "completed", "failed"})
           refused == Refusals(sessions[Max(completed)], clean)
           a == reusableDerivedValidationSession(clean)
<1>1. completed \subseteq 1..Latest /\ completed \subseteq tried /\ completed # {}
  BY Numbers DEF ParentSessions
<1>2. a = Adoption(Max(completed), refused, refused # {},
                   IF refused = {} THEN Max(completed) ELSE 0)
  BY <1>1 DEF reusableDerivedValidationSession
<1>3. Max(completed) # 0
  <2>1. Max(completed) \in completed
    BY <1>1, Numbers, GreatestNumber
  <2> QED
    BY <1>1, <2>1, Numbers
<1> HIDE DEF completed, refused, a
<1>4. a.session = (IF refused = {} THEN Max(completed) ELSE 0) /\ (a.cleared <=> refused # {})
  BY <1>2 DEF Adoption
<1> QED
  BY <1>3, <1>4 DEF a

-------------------------------------------------------------------------------
(* What the candidate holds *)

\* Clearing and admitting keep the boundaries, add no proof, and leave proofs that are owned;
\* with an adopted session there is a receipt of it for every obligation.
LEMMA ClearedOwned ==
    ASSUME Typed, ProofsOwned, NEW clean
    PROVE  LET a == reusableDerivedValidationSession(clean)
               d == Cleared(cands[Current], a)
           IN  /\ d \in Candidate /\ d.boundaries = cands[Current].boundaries
               /\ d.derivable = cands[Current].derivable
               /\ d.proofs \subseteq cands[Current].proofs
               /\ \A p \in d.proofs : Owned(sessions, p, Current, d)
               /\ a.session # 0 =>
                     d.receipts = [obligation: d.boundaries \cup {"exhaustive"}, session: {a.session}]
<1> DEFINE a == reusableDerivedValidationSession(clean)
           c == cands[Current]
           d == Cleared(c, a)
<1>1. a.session \in Nat /\ (a.session # 0 => ~a.cleared /\ Source(a.session))
  BY AdoptionOutcome
<1>2. c \in Candidate /\ \A p \in c.proofs : Owned(sessions, p, Current, c)
  BY Numbers DEF ProofsOwned
<1>3. \A i \in DOMAIN sessions : i \in Nat
  BY Numbers
<1> HIDE DEF a, c
<1>4. CASE a.cleared
  <2>1. d = [c EXCEPT !.receipts = {}, !.proofs = {p \in @ : ~p.derived}]
    BY <1>4 DEF Cleared
  <2>2. /\ d \in Candidate /\ d.boundaries = c.boundaries /\ d.derivable = c.derivable
        /\ d.proofs = {p \in c.proofs : ~p.derived}
    BY <1>2, <2>1 DEF Candidate
  <2> HIDE DEF d
  <2>3. \A p \in d.proofs : Owned(sessions, p, Current, d)
    BY <1>2, <2>2 DEF Owned
  <2> QED
    BY <1>1, <1>4, <2>2, <2>3 DEF a, c, d
<1>5. CASE ~a.cleared /\ a.session # 0
  <2>1. d = [c EXCEPT !.receipts = [obligation: c.boundaries \cup {"exhaustive"}, session: {a.session}]]
    BY <1>5 DEF Cleared, Admitted
  <2>2. [obligation: c.boundaries \cup {"exhaustive"}, session: {a.session}]
           \subseteq [obligation: Obligations, session: Nat]
    BY <1>1, <1>2 DEF Candidate, Obligations
  <2>3. /\ d \in Candidate /\ d.boundaries = c.boundaries /\ d.proofs = c.proofs
        /\ d.derivable = c.derivable
        /\ d.receipts = [obligation: c.boundaries \cup {"exhaustive"}, session: {a.session}]
    BY <1>2, <2>1, <2>2 DEF Candidate
  <2> HIDE DEF d
  <2>4. ASSUME NEW p \in d.proofs PROVE Owned(sessions, p, Current, d)
    <3>1. Owned(sessions, p, Current, c)
      BY <1>2, <2>3
    <3>2. p.derived => p.session <= a.session /\ a.session <= p.session
      BY <1>1, <1>5, <3>1 DEF Owned, Source
    <3>3. p.session \in Nat
      BY <1>3, <3>1 DEF Owned
    <3>4. p.derived => p.session = a.session
      BY <1>1, <3>2, <3>3
    <3>5. p.derived => [obligation |-> p.obligation, session |-> p.session] \in d.receipts
      BY <2>3, <3>1, <3>4 DEF Owned
    <3> QED
      BY <2>3, <3>1, <3>5 DEF Owned
  <2> QED
    BY <2>3, <2>4 DEF a, c, d
<1>6. CASE ~a.cleared /\ a.session = 0
  <2>1. d = c
    BY <1>6 DEF Cleared
  <2> QED
    BY <1>2, <1>6, <2>1 DEF a, c, d
<1> QED
  BY <1>4, <1>5, <1>6

\* The latest session serves when it completed for the candidate, in this place, for no fewer
\* boundaries, and has not expired.
Serving(s) ==
    /\ s.state = "completed" /\ s.cand = Current /\ s.place = place
    /\ cands[Current].boundaries \subseteq s.covered /\ clock < s.expires

\* What Serves asks for, in terms of the journal.
LEMMA ServesDef ==
    ASSUME Typed, NEW i \in DOMAIN sessions
    PROVE  Serves(i) <=> Serving(sessions[i])
<1> DEFINE s == sessions[i]
           D == Differences(s, Current, TRUE)
           first == Precedence[Min({j \in DOMAIN Precedence : Precedence[j] \in D})]
<1>1. /\ D \subseteq Classes
      /\ D = {} <=> /\ s.cand = Current /\ s.place = place /\ cands[Current].boundaries \subseteq s.covered
                    /\ ~(clock >= s.expires) /\ s.state # "failed"
  <2> HIDE DEF s
  <2> QED
    BY DifferencesDef
<1>2. Serves(i) <=> i # 0 /\ s.state = "completed" /\ (IF D = {} THEN "none" ELSE first) = "none"
  BY DEF Serves, validationSessionMismatch
<1>3. clock \in Nat /\ s.expires \in Nat /\ i # 0
  BY Numbers DEF Typed, Session
<1> HIDE DEF s, D
<1>4. (IF D = {} THEN "none" ELSE first) = "none" <=> D = {}
  <2>1. D # {} => first \in D
    BY <1>1, FirstClass
  <2>2. "none" \notin D
    BY <1>1, FirstClass
  <2> QED
    BY <2>1, <2>2
<1> HIDE DEF first
<1>5. Serves(i) <=> s.state = "completed" /\ D = {}
  BY <1>2, <1>3, <1>4
<1> QED
  BY <1>1, <1>3, <1>5 DEF Serving, s

\* The same of the next state.
LEMMA ServesDefNext ==
    ASSUME Typed', NEW i \in DOMAIN sessions'
    PROVE  Serves(i)' <=> Serving(sessions[i])'
<1> DEFINE s == sessions'[i]
           D == Differences(sessions[i], Current, TRUE)'
           first == Precedence[Min({j \in DOMAIN Precedence : Precedence[j] \in D})]
<1>1. /\ D \subseteq Classes
      /\ D = {} <=> /\ s.cand = Current' /\ s.place = place'
                    /\ cands'[Current'].boundaries \subseteq s.covered
                    /\ ~(clock' >= s.expires) /\ s.state # "failed"
  BY DifferencesDefNext
<1>2. Serves(i)' <=> i # 0 /\ s.state = "completed" /\ (IF D = {} THEN "none" ELSE first) = "none"
  BY DEF Serves, validationSessionMismatch
<1>3. clock' \in Nat /\ s.expires \in Nat /\ i # 0
  <2>1. sessions' \in Seq(Session) /\ clock' \in Nat
    BY DEF Typed
  <2>2. i \in Nat \ {0} /\ s \in Session
    BY <2>1
  <2> QED
    BY <2>1, <2>2 DEF Session
<1> HIDE DEF s, D
<1>4. (IF D = {} THEN "none" ELSE first) = "none" <=> D = {}
  <2>1. D # {} => first \in D
    BY <1>1, FirstClass
  <2>2. "none" \notin D
    BY <1>1, FirstClass
  <2> QED
    BY <2>1, <2>2
<1> HIDE DEF first
<1>5. Serves(i)' <=> s.state = "completed" /\ D = {}
  BY <1>2, <1>3, <1>4
<1> QED
  BY <1>1, <1>3, <1>5 DEF Serving, s

\* The session in force completed in this place and has not expired; it is the source, or of
\* the candidate and its boundaries.
LEMMA InForceGives ==
    ASSUME Typed, InForce # 0
    PROVE  /\ InForce \in DOMAIN sessions /\ sessions[InForce].state = "completed"
           /\ sessions[InForce].place = place /\ clock < sessions[InForce].expires
           /\ IF reusableDerivedValidationSession(TRUE).session # 0
              THEN InForce = reusableDerivedValidationSession(TRUE).session /\ Source(InForce)
              ELSE Serving(sessions[InForce])
<1> DEFINE adopted == reusableDerivedValidationSession(TRUE).session
<1>1. adopted # 0 => Source(adopted)
  BY AdoptionOutcome
<1> HIDE DEF adopted
<1>2. CASE adopted # 0
  <2>1. InForce = adopted
    BY <1>2 DEF InForce, adopted
  <2> QED
    BY <1>1, <1>2, <2>1 DEF Source, adopted
<1>3. CASE adopted = 0
  <2>1. InForce = Latest /\ Serves(Latest) /\ Latest # 0
    BY <1>3, InForce # 0 DEF InForce, adopted
  <2>2. Latest \in DOMAIN sessions
    BY <2>1, Numbers
  <2>3. Serving(sessions[Latest])
    BY <2>1, <2>2, ServesDef
  <2> QED
    BY <1>3, <2>1, <2>2, <2>3 DEF Serving, adopted
<1> QED
  BY <1>2, <1>3

\* Proofs of the candidate's obligations, taken from the session in force, are owned.
LEMMA ProvedOwned ==
    ASSUME Typed, ProofsOwned, InForce # 0,
           NEW obligations, obligations \subseteq cands[Current].boundaries \cup {"exhaustive"}
    PROVE  LET d == Proved(obligations) IN
           /\ d \in Candidate /\ d.boundaries = cands[Current].boundaries
           /\ \A p \in d.proofs \ cands[Current].proofs : p.session = InForce
           /\ \A p \in d.proofs : Owned(sessions, p, Current, d)
<1> DEFINE a == reusableDerivedValidationSession(TRUE)
           c == Cleared(cands[Current], a)
           new == [obligation: obligations, session: {InForce}, derived: {a.session # 0}]
           d == Proved(obligations)
<1>1. d = [c EXCEPT !.proofs = @ \cup new]
  BY DEF Proved
<1>2. /\ c \in Candidate /\ c.boundaries = cands[Current].boundaries
      /\ c.derivable = cands[Current].derivable
      /\ c.proofs \subseteq cands[Current].proofs
      /\ \A p \in c.proofs : Owned(sessions, p, Current, c)
      /\ a.session # 0 =>
            c.receipts = [obligation: c.boundaries \cup {"exhaustive"}, session: {a.session}]
  BY ClearedOwned
<1>3. /\ InForce \in DOMAIN sessions /\ sessions[InForce].state = "completed"
      /\ IF a.session # 0 THEN InForce = a.session /\ Source(InForce) ELSE Serving(sessions[InForce])
      /\ a.session # 0 => c.derivable
  BY <1>2, InForceGives, AdoptionOutcome
<1>4. obligations \subseteq Obligations /\ InForce \in Nat
  <2>1. cands[Current].boundaries \subseteq Boundaries
    BY Numbers DEF Candidate
  <2> QED
    BY <1>3, <2>1, Numbers DEF Obligations
<1>5. new \subseteq Proof
  BY <1>4 DEF Proof
<1> HIDE DEF c, new, d
<1>6. /\ d \in Candidate /\ d.boundaries = c.boundaries /\ d.receipts = c.receipts
      /\ d.derivable = c.derivable /\ d.proofs = c.proofs \cup new
  BY <1>1, <1>2, <1>5 DEF Candidate
<1>7. ASSUME NEW p \in c.proofs PROVE Owned(sessions, p, Current, d)
  BY <1>2, <1>6 DEF Owned
<1>8. ASSUME NEW p \in new PROVE Owned(sessions, p, Current, d)
  <2>1. p.obligation \in obligations /\ p.session = InForce /\ (p.derived <=> a.session # 0)
    BY DEF new
  <2>2. p.obligation \in cands[Current].boundaries \cup {"exhaustive"}
    BY <2>1
  <2>3. p.obligation \in Boundaries => p.obligation \in cands[Current].boundaries
    BY <2>2, ValidationAssumption
  <2>4. CASE a.session # 0
    <3>1. [obligation |-> p.obligation, session |-> p.session] \in d.receipts
      BY <1>2, <1>3, <1>6, <2>1, <2>2, <2>4
    <3> QED
      BY <1>2, <1>3, <1>6, <2>1, <2>2, <2>3, <2>4, <3>1 DEF Owned, Source
  <2>5. CASE a.session = 0
    BY <1>2, <1>3, <1>6, <2>1, <2>2, <2>3, <2>5 DEF Owned, Serving
  <2> QED
    BY <2>4, <2>5
<1>9. \A p \in new : p.session = InForce
  BY DEF new
<1> QED
  BY <1>2, <1>6, <1>7, <1>8, <1>9 DEF d

-------------------------------------------------------------------------------
(* What a step keeps *)

\* What SessionsSettle and AdmittedInForce say of a step.
Settling ==
    \A i \in DOMAIN sessions :
        /\ i \in DOMAIN sessions'
        /\ sessions[i].state # "started" => sessions'[i] = sessions[i]
        /\ sessions'[i].state = "completed" => sessions[i].state = "completed" \/ phase = "executing"
        /\ sessions'[i].state = "started" => i = Len(sessions')
        /\ phase = "idle" /\ sessions[i].state = "started" /\ phase' # "idle"
              => sessions'[i].state = "failed"

Admitting ==
    \A c \in DOMAIN cands : \A p \in cands'[c].proofs \ cands[c].proofs :
        Valid(sessions[p.session])

\* The session i, in force, for which the candidate may be declared ready.
Backing(i) ==
    /\ Valid(sessions[i])
    /\ cands'[Current].boundaries \subseteq sessions[i].covered
    /\ \/ sessions[i].cand = Current
       \/ sessions[i].cand = Current - 1 /\ principal = Confirmer
    /\ \A p \in cands'[Current].proofs : p.derived => p.session = i

Readying ==
    ~ready /\ ready' =>
        /\ cands'[Current].boundaries \cup {"exhaustive"}
              \subseteq {p.obligation : p \in cands'[Current].proofs}
        /\ \E i \in DOMAIN sessions : Backing(i)

\* What completed stays as it is, and only a session of the current candidate completes.
SessionsKept ==
    /\ \A i \in DOMAIN sessions :
          i \in DOMAIN sessions' /\ (sessions[i].state = "completed" => sessions'[i] = sessions[i])
    /\ \A i \in DOMAIN sessions' : sessions'[i].state = "completed" =>
          \/ i \in DOMAIN sessions /\ sessions[i] = sessions'[i]
          \/ sessions'[i].cand = Current

\* Proofs of the candidates there were that are owned in the old journal are owned in the new.
LEMMA OwnedKept ==
    ASSUME Typed, SessionsKept,
           \A c \in DOMAIN cands' : \A p \in cands'[c].proofs :
               c \in DOMAIN cands /\ Owned(sessions, p, c, cands'[c])
    PROVE  ProofsOwned'
<1> SUFFICES ASSUME NEW c \in DOMAIN cands', NEW p \in cands'[c].proofs
             PROVE  Owned(sessions', p, c, cands'[c])
  BY DEF ProofsOwned, Owned
<1>1. c \in DOMAIN cands /\ Owned(sessions, p, c, cands'[c])
  OBVIOUS
<1>2. c \in Nat /\ c - 1 # Current
  BY <1>1, Numbers
<1>3. \A i \in DOMAIN sessions' : sessions'[i].state = "completed" /\ sessions'[i].cand = c - 1
         => i \in DOMAIN sessions /\ sessions[i] = sessions'[i]
  BY <1>2 DEF SessionsKept
<1>4. p.session \in DOMAIN sessions' /\ sessions'[p.session] = sessions[p.session]
  BY <1>1 DEF SessionsKept, Owned
<1> QED
  BY <1>1, <1>3, <1>4 DEF Owned

\* Replacing the current candidate by one whose proofs are owned.
LEMMA CandidateReplaced ==
    ASSUME Typed, ProofsOwned, NEW d \in Candidate, \A p \in d.proofs : Owned(sessions, p, Current, d),
           cands' = [cands EXCEPT ![Current] = d]
    PROVE  /\ cands' \in Seq(Candidate) /\ DOMAIN cands' = DOMAIN cands /\ Current' = Current
           /\ cands'[Current] = d /\ \A c \in DOMAIN cands : c # Current => cands'[c] = cands[c]
           /\ \A c \in DOMAIN cands' : \A p \in cands'[c].proofs :
                 c \in DOMAIN cands /\ Owned(sessions, p, c, cands'[c])
<1>1. /\ cands' \in Seq(Candidate) /\ Len(cands') = Len(cands) /\ DOMAIN cands' = DOMAIN cands
      /\ cands'[Current] = d /\ \A c \in DOMAIN cands : c # Current => cands'[c] = cands[c]
  BY DEF Typed, Current
<1>2. ASSUME NEW c \in DOMAIN cands, NEW p \in cands'[c].proofs PROVE Owned(sessions, p, c, cands'[c])
  BY <1>1 DEF ProofsOwned
<1> QED
  BY <1>1, <1>2 DEF Current

\* Whether the latest session serves does not change unless what it depends on does.
LEMMA CountedKept ==
    ASSUME Typed, Typed', Counted, sessions' = sessions, Current' = Current,
           cands'[Current].boundaries = cands[Current].boundaries,
           UNCHANGED <<place, clock, phase>>, disturbances <= disturbances'
    PROVE  Counted'
<1>1. Latest' = Latest /\ Latest \in Nat /\ disturbances \in Nat /\ disturbances' \in Nat
  BY Numbers DEF Typed, Latest
<1>2. CASE Latest = 0
  <2>1. \A m \in Nat : 0 <= m /\ 0 <= m + 1
    OBVIOUS
  <2>2. Latest' = 0 /\ disturbances' \in Nat
    BY <1>1, <1>2
  <2>3. Latest' <= disturbances' /\ Latest' <= disturbances' + 1
    BY <2>1, <2>2, Zenon
  <2> QED
    BY <2>3 DEF Counted
<1>3. CASE Latest # 0
  <2>1. Latest \in DOMAIN sessions /\ Latest' \in DOMAIN sessions'
    BY <1>1, <1>3, Numbers
  <2>2. Serves(Latest) <=> Serving(sessions[Latest])
    BY <2>1, ServesDef
  <2>3. Serves(Latest)' <=> Serving(sessions[Latest])'
    BY <2>1, ServesDefNext
  <2>4. Serving(sessions[Latest])' <=> Serving(sessions[Latest])
    BY <1>1 DEF Serving
  <2> QED
    BY <1>1, <2>2, <2>3, <2>4 DEF Counted
<1> QED
  BY <1>2, <1>3

\* A disturbance pays for the latest session.
LEMMA CountedDisturbed ==
    ASSUME Typed, Counted, Latest' = Latest, disturbances' = disturbances + 1
    PROVE  Counted'
<1>1. Latest \in Nat /\ disturbances \in Nat
  BY Numbers DEF Typed
<1>2. Latest <= disturbances + 1
  BY DEF Counted
<1>3. Latest' <= disturbances' /\ Latest' <= disturbances' + 1
  BY <1>1, <1>2
<1> QED
  BY <1>3 DEF Counted

\* Where the journal does not change nothing is settled or begun.
LEMMA JournalUntouched ==
    ASSUME Typed, Journalled, sessions' = sessions, phase = "idle" => phase' = "idle"
    PROVE  Settling /\ SessionsKept
  BY DEF Settling, SessionsKept, Journalled, Latest

-------------------------------------------------------------------------------
(* The actions *)

\* What a step that only changes what the current candidate holds does to the invariant.
LEMMA HoldingStep ==
    ASSUME IInv, phase = "idle", UNCHANGED <<sessions, phase, surroundings, panicked>>,
           ready' \in BOOLEAN, disturbances' \in Nat, disturbances <= disturbances',
           NEW d \in Candidate, cands' = [cands EXCEPT ![Current] = d],
           d.boundaries = cands[Current].boundaries,
           \A p \in d.proofs : Owned(sessions, p, Current, d),
           invalidations' \subseteq InvalidationSet
    PROVE  IInv' /\ Settling
<1>1. Typed /\ Journalled /\ ProofsOwned /\ Counted
  BY DEF IInv
<1>2. /\ cands' \in Seq(Candidate) /\ DOMAIN cands' = DOMAIN cands /\ Current' = Current
      /\ cands'[Current] = d
      /\ \A c \in DOMAIN cands' : \A p \in cands'[c].proofs :
            c \in DOMAIN cands /\ Owned(sessions, p, c, cands'[c])
  BY <1>1, CandidateReplaced
<1>3. Typed'
  BY <1>1, <1>2 DEF Typed, InvalidationSet, surroundings
<1>4. Settling /\ SessionsKept
  BY <1>1, JournalUntouched
<1>5. ProofsOwned'
  BY <1>1, <1>2, <1>4, OwnedKept
<1>6. Counted'
  BY <1>1, <1>2, <1>3, CountedKept DEF surroundings
<1>7. InFlight'
  BY DEF InFlight
<1>8. Journalled'
  BY <1>1, <1>2 DEF Journalled, Latest
<1> QED
  BY <1>3, <1>4, <1>5, <1>6, <1>7, <1>8 DEF IInv

\* The invalidations that asking for adoption adds are of sessions and candidates there are.
LEMMA InvalidationsAdded ==
    ASSUME Typed, NEW clean
    PROVE  invalidations \cup reusableDerivedValidationSession(clean).added \subseteq InvalidationSet
  BY AdoptionOutcome DEF Typed, InvalidationSet

\* Proofs taken from the session in force are admitted.
LEMMA ProvedAdmitted ==
    ASSUME Typed, ProofsOwned, InForce # 0,
           NEW obligations, obligations \subseteq cands[Current].boundaries \cup {"exhaustive"},
           cands' = [cands EXCEPT ![Current] = Proved(obligations)]
    PROVE  Admitting
<1>1. /\ Proved(obligations) \in Candidate
      /\ \A p \in Proved(obligations).proofs \ cands[Current].proofs : p.session = InForce
      /\ \A p \in Proved(obligations).proofs : Owned(sessions, p, Current, Proved(obligations))
  BY ProvedOwned
<1>2. /\ cands'[Current] = Proved(obligations)
      /\ \A c \in DOMAIN cands : c # Current => cands'[c] = cands[c]
  BY <1>1, CandidateReplaced
<1>3. /\ sessions[InForce].state = "completed"
      /\ sessions[InForce].place = place /\ clock < sessions[InForce].expires
  BY InForceGives
<1> QED
  BY <1>1, <1>2, <1>3 DEF Admitting, Valid

\* Boundary proofs.
LEMMA ProveBoundariesStep ==
    ASSUME IInv, ProveBoundaries
    PROVE  IInv' /\ Settling /\ Admitting
<1> DEFINE missing == missingBoundaryProofs(Asked)
           d == Proved(missing)
<1>1. Typed /\ ProofsOwned
  BY DEF IInv
<1>2. Asked.boundaries = cands[Current].boundaries
  BY <1>1, ClearedOwned DEF Asked
<1>3. missing \subseteq cands[Current].boundaries \cup {"exhaustive"}
  BY <1>2 DEF missingBoundaryProofs
<1>4. /\ InForce # 0 /\ phase = "idle" /\ cands' = [cands EXCEPT ![Current] = d]
      /\ invalidations' = invalidations \cup reusableDerivedValidationSession(TRUE).added
      /\ UNCHANGED <<sessions, phase, surroundings, panicked>>
      /\ ready' = ready /\ disturbances' = disturbances
  BY DEF ProveBoundaries, Asks, Calm
<1> HIDE DEF missing
<1>5. /\ d \in Candidate /\ d.boundaries = cands[Current].boundaries
      /\ \A p \in d.proofs : Owned(sessions, p, Current, d)
  BY <1>1, <1>3, <1>4, ProvedOwned
<1>6. invalidations' \subseteq InvalidationSet
  BY <1>1, <1>4, InvalidationsAdded
<1>7. ready' \in BOOLEAN /\ disturbances' \in Nat /\ disturbances <= disturbances'
  BY <1>1, <1>4 DEF Typed
<1>8. Admitting
  BY <1>1, <1>3, <1>4, ProvedAdmitted
<1> HIDE DEF d
<1>9. IInv' /\ Settling
  BY <1>4, <1>5, <1>6, <1>7, HoldingStep
<1> QED
  BY <1>8, <1>9

\* The exhaustive proof, and readiness.
LEMMA ConcludeStep ==
    ASSUME IInv, NEW stable \in BOOLEAN, Conclude(stable)
    PROVE  IInv' /\ Settling /\ Admitting
<1> DEFINE taken == {"exhaustive"} \ {p.obligation : p \in Asked.proofs}
           d == Proved(taken)
<1>1. Typed /\ ProofsOwned
  BY DEF IInv
<1>2. taken \subseteq cands[Current].boundaries \cup {"exhaustive"}
  OBVIOUS
<1>3. /\ InForce # 0 /\ phase = "idle" /\ cands' = [cands EXCEPT ![Current] = d]
      /\ invalidations' = invalidations \cup reusableDerivedValidationSession(TRUE).added
      /\ UNCHANGED <<sessions, phase, surroundings, panicked>>
      /\ ready' = stable
      /\ disturbances' = disturbances \/ disturbances' = disturbances + 1
  BY DEF Conclude, Asks, Calm, Disturb
<1> HIDE DEF taken
<1>4. /\ d \in Candidate /\ d.boundaries = cands[Current].boundaries
      /\ \A p \in d.proofs : Owned(sessions, p, Current, d)
  BY <1>1, <1>2, <1>3, ProvedOwned
<1>5. invalidations' \subseteq InvalidationSet
  BY <1>1, <1>3, InvalidationsAdded
<1>6. ready' \in BOOLEAN /\ disturbances' \in Nat /\ disturbances <= disturbances'
  BY <1>1, <1>3 DEF Typed
<1>7. Admitting
  BY <1>1, <1>2, <1>3, ProvedAdmitted
<1> HIDE DEF d
<1>8. IInv' /\ Settling
  BY <1>3, <1>4, <1>5, <1>6, HoldingStep
<1> QED
  BY <1>7, <1>8

\* Readiness is only given under a session in force, which every adopted proof comes from.
LEMMA ConcludeReadies ==
    ASSUME IInv, NEW stable \in BOOLEAN, Conclude(stable)
    PROVE  Readying
<1> DEFINE a == reusableDerivedValidationSession(TRUE)
           c == Asked
           taken == {"exhaustive"} \ {p.obligation : p \in c.proofs}
           new == [obligation: taken, session: {InForce}, derived: {a.session # 0}]
           d == Proved(taken)
<1>1. Typed /\ ProofsOwned
  BY DEF IInv
<1>2. /\ InForce # 0 /\ missingBoundaryProofs(c) = {}
      /\ cands' = [cands EXCEPT ![Current] = d]
  BY DEF Conclude
<1>3. /\ c \in Candidate /\ c.boundaries = cands[Current].boundaries
      /\ c.derivable = cands[Current].derivable
      /\ \A p \in c.proofs : Owned(sessions, p, Current, c)
  BY <1>1, ClearedOwned DEF Asked
<1>4. /\ d \in Candidate /\ d.boundaries = cands[Current].boundaries
      /\ \A p \in d.proofs : Owned(sessions, p, Current, d)
  BY <1>1, <1>2, ProvedOwned
<1>5. d.proofs = c.proofs \cup new
  <2>1. d = [c EXCEPT !.proofs = @ \cup new]
    BY DEF Proved, Asked
  <2> HIDE DEF c, new, d
  <2> QED
    BY <1>3, <2>1 DEF Candidate
<1>6. cands'[Current] = d
  BY <1>1, <1>2, <1>4, CandidateReplaced
<1>7. /\ InForce \in DOMAIN sessions /\ Valid(sessions[InForce])
      /\ IF a.session # 0 THEN InForce = a.session /\ Source(InForce) ELSE Serving(sessions[InForce])
  BY <1>1, <1>2, InForceGives DEF Valid
<1>8. d.boundaries \cup {"exhaustive"} \subseteq {p.obligation : p \in d.proofs}
  <2>1. c.boundaries \subseteq {p.obligation : p \in c.proofs}
    BY <1>2 DEF missingBoundaryProofs
  <2>2. "exhaustive" \in {p.obligation : p \in c.proofs} \cup {p.obligation : p \in new}
    <3>1. CASE "exhaustive" \in taken
      <4> DEFINE q == [obligation |-> "exhaustive", session |-> InForce, derived |-> (a.session # 0)]
      <4>1. q \in new /\ q.obligation = "exhaustive"
        BY <3>1
      <4> QED
        BY <4>1
    <3>2. CASE "exhaustive" \notin taken
      BY <3>2
    <3> QED
      BY <3>1, <3>2
  <2> HIDE DEF c, d, new
  <2> QED
    BY <1>3, <1>4, <1>5, <2>1, <2>2
<1>9. Backing(InForce)
  <2>1. CASE a.session # 0
    <3>1. Source(InForce)
      BY <1>7, <2>1
    <3>2. ASSUME NEW p \in d.proofs, p.derived PROVE p.session = InForce
      <4>1. p.session <= InForce /\ InForce <= p.session
        BY <1>4, <3>1, <3>2 DEF Owned, Source
      <4>2. p.session \in Nat /\ InForce \in Nat
        <5>1. DOMAIN sessions \subseteq Nat
          BY <1>1, Numbers
        <5>2. p.session \in DOMAIN sessions
          BY <1>4, <3>2 DEF Owned
        <5> QED
          BY <1>7, <5>1, <5>2
      <4> QED
        BY <4>1, <4>2
    <3> HIDE DEF d
    <3> QED
      BY <1>4, <1>6, <1>7, <3>1, <3>2 DEF Backing, Source
  <2>2. CASE a.session = 0
    <3>1. Serving(sessions[InForce])
      BY <1>7, <2>2
    <3>2. ASSUME NEW p \in c.proofs, p.derived PROVE FALSE
      <4>1. cands[Current].derivable /\ p.session \in ParentSessions({"completed"})
        BY <1>3, <3>2 DEF Owned, ParentSessions
      <4>2. a.cleared
        BY <1>1, <2>2, <4>1, RefusedIsCleared
      <4>3. c.proofs = {q \in cands[Current].proofs : ~q.derived}
        <5>1. cands[Current] \in Candidate
          BY <1>1, Numbers
        <5>2. c = [cands[Current] EXCEPT !.receipts = {}, !.proofs = {q \in @ : ~q.derived}]
          BY <4>2 DEF Asked, Cleared
        <5> HIDE DEF c
        <5> QED
          BY <5>1, <5>2 DEF Candidate
      <4> HIDE DEF c
      <4> QED
        BY <3>2, <4>3
    <3>3. \A p \in new : ~p.derived
      BY <2>2
    <3> HIDE DEF c, new, d
    <3>4. \A p \in d.proofs : ~p.derived
      BY <1>5, <3>2, <3>3
    <3> QED
      BY <1>4, <1>6, <1>7, <3>1, <3>4 DEF Backing, Serving
  <2> QED
    BY <2>1, <2>2
<1> HIDE DEF d
<1> QED
  BY <1>6, <1>7, <1>8, <1>9 DEF Readying

\* The journal in which a session is started.
Restarted ==
    Append([i \in DOMAIN sessions |->
               IF i = Latest /\ sessions[i].state = "started"
               THEN [sessions[i] EXCEPT !.state = "failed"] ELSE sessions[i]], NewSession)

\* Starting a session closes the one that was open as failed and appends one of the current
\* candidate; all others stay as they are.
LEMMA RestartedJournal ==
    ASSUME Typed, Journalled
    PROVE  /\ Restarted \in Seq(Session) /\ Len(Restarted) = Latest + 1
           /\ DOMAIN Restarted = 1..(Latest + 1) /\ Restarted[Latest + 1] = NewSession
           /\ \A i \in DOMAIN sessions :
                 /\ Restarted[i].cand = sessions[i].cand /\ Restarted[i].state # "started"
                 /\ sessions[i].state # "started" => Restarted[i] = sessions[i]
                 /\ sessions[i].state = "started" => Restarted[i].state = "failed"
<1> DEFINE closed(i) == IF i = Latest /\ sessions[i].state = "started"
                        THEN [sessions[i] EXCEPT !.state = "failed"] ELSE sessions[i]
           old == [i \in DOMAIN sessions |-> closed(i)]
<1>1. Restarted = Append(old, NewSession)
  BY DEF Restarted
<1>2. ASSUME NEW i \in DOMAIN sessions
      PROVE  /\ closed(i) \in Session
             /\ closed(i).cand = sessions[i].cand /\ closed(i).state # "started"
             /\ sessions[i].state # "started" => closed(i) = sessions[i]
             /\ sessions[i].state = "started" => closed(i).state = "failed"
  BY Numbers DEF Session, Journalled
<1> HIDE DEF closed
<1>3. old \in Seq(Session) /\ Len(old) = Latest
  BY <1>2, Numbers
<1>4. NewSession \in Session
  BY Numbers DEF Typed, NewSession, Session, Candidate
<1>5. \A i \in DOMAIN sessions : old[i] = closed(i) /\ i \in 1..Latest
  BY Numbers
<1> HIDE DEF old
<1>6. /\ Restarted \in Seq(Session) /\ Len(Restarted) = Latest + 1
      /\ DOMAIN Restarted = 1..(Latest + 1) /\ Restarted[Latest + 1] = NewSession
      /\ \A i \in 1..Latest : Restarted[i] = old[i]
  BY <1>1, <1>3, <1>4, Numbers
<1> QED
  BY <1>2, <1>5, <1>6

\* A session is started; the one that was open is declared failed.
LEMMA StartSessionStep ==
    ASSUME IInv, StartSession
    PROVE  IInv' /\ Settling /\ Admitting
<1> DEFINE a == reusableDerivedValidationSession(TRUE)
           d == Cleared(cands[Current], a)
<1>1. Typed /\ Journalled /\ ProofsOwned /\ Counted
  BY DEF IInv
<1>2. /\ phase = "idle" /\ InForce = 0 /\ phase' = "journalled"
      /\ cands' = [cands EXCEPT ![Current] = d] /\ sessions' = Restarted
      /\ invalidations' = invalidations \cup a.added \cup (IF Latest = 0 THEN {} ELSE SetAside)
      /\ UNCHANGED <<ready, surroundings, panicked, disturbances>>
  BY <1>1, Numbers DEF StartSession, Journal, Asks, Calm, Restarted
<1>3. /\ d \in Candidate /\ d.boundaries = cands[Current].boundaries
      /\ d.proofs \subseteq cands[Current].proofs
      /\ \A p \in d.proofs : Owned(sessions, p, Current, d)
  BY <1>1, ClearedOwned
<1>4. invalidations \cup a.added \subseteq InvalidationSet
  BY <1>1, InvalidationsAdded
<1> HIDE DEF a, d
<1>5. /\ cands' \in Seq(Candidate) /\ DOMAIN cands' = DOMAIN cands /\ Current' = Current
      /\ cands'[Current] = d /\ \A c \in DOMAIN cands : c # Current => cands'[c] = cands[c]
      /\ \A c \in DOMAIN cands' : \A p \in cands'[c].proofs :
            c \in DOMAIN cands /\ Owned(sessions, p, c, cands'[c])
  BY <1>1, <1>2, <1>3, CandidateReplaced
<1>6. /\ sessions' \in Seq(Session) /\ Latest' = Latest + 1 /\ Latest \in Nat
      /\ DOMAIN sessions = 1..Latest
      /\ DOMAIN sessions' = 1..(Latest + 1) /\ sessions'[Latest + 1] = NewSession
      /\ \A i \in DOMAIN sessions :
            /\ sessions'[i].cand = sessions[i].cand /\ sessions'[i].state # "started"
            /\ sessions[i].state # "started" => sessions'[i] = sessions[i]
            /\ sessions[i].state = "started" => sessions'[i].state = "failed"
  BY <1>1, <1>2, RestartedJournal, Numbers DEF Latest
<1>7. /\ NewSession.cand = Current /\ NewSession.state = "started" /\ NewSession.place = place
      /\ NewSession.covered = cands[Current].boundaries /\ NewSession.expires = clock + 1
  BY DEF NewSession
<1>8. DOMAIN sessions \subseteq DOMAIN sessions'
  BY <1>6
<1>9. invalidations' \subseteq InvalidationSet'
  <2>1. InvalidationSet \subseteq InvalidationSet'
    BY <1>5, <1>8 DEF InvalidationSet
  <2>2. CASE Latest = 0
    BY <1>2, <1>4, <2>1, <2>2
  <2>3. CASE Latest # 0
    <3> DEFINE class == validationSessionMismatch(sessions[Latest], Current, TRUE)
    <3>1. class \in Classes \cup {"none"}
      BY MismatchClass
    <3>2. SetAside = Invalidation(IF class = "none" THEN "failed-execution" ELSE class)
      BY DEF SetAside
    <3> HIDE DEF class
    <3>3. (IF class = "none" THEN "failed-execution" ELSE class) \in Classes
      BY <3>1 DEF Classes
    <3>4. SetAside \subseteq InvalidationSet
      BY <1>1, <1>6, <2>3, <3>2, <3>3, Numbers DEF Invalidation, InvalidationSet
    <3> QED
      BY <1>2, <1>4, <2>1, <2>3, <3>4
  <2> QED
    BY <2>2, <2>3
<1>10. Typed'
  BY <1>1, <1>2, <1>5, <1>6, <1>9 DEF Typed, InvalidationSet, surroundings
<1>11. SessionsKept
  <2>1. \A i \in DOMAIN sessions' : i \in DOMAIN sessions \/ i = Latest + 1
    BY <1>6
  <2> QED
    BY <1>6, <1>7, <1>8, <2>1 DEF SessionsKept
<1>12. ProofsOwned'
  BY <1>1, <1>5, <1>11, OwnedKept
<1>13. InFlight'
  <2>1. clock \in Nat /\ place' = place /\ clock' = clock
    BY <1>1, <1>2 DEF Typed, surroundings
  <2>2. sessions'[Latest'].cand = Current' /\ sessions'[Latest'].state = "started"
    BY <1>5, <1>6, <1>7
  <2>3. sessions'[Latest'].place = place' /\ clock' < sessions'[Latest'].expires
    BY <1>6, <1>7, <2>1
  <2>4. sessions'[Latest'].covered = cands'[Current'].boundaries
    BY <1>3, <1>5, <1>6, <1>7
  <2>5. Latest' # 0
    BY <1>6
  <2> QED
    BY <2>2, <2>3, <2>4, <2>5 DEF InFlight, Fits
<1>14. Journalled'
  BY <1>1, <1>5, <1>6, <1>7, Numbers DEF Journalled
<1>15. Counted'
  <2>1. ~Serves(Latest)
    BY <1>2, <1>6 DEF InForce, Serves
  <2>2. Latest <= disturbances /\ disturbances \in Nat
    BY <1>1, <1>2, <2>1 DEF Counted, Typed
  <2> QED
    BY <1>2, <1>6, <2>2 DEF Counted
<1>16. Settling
  BY <1>1, <1>6, <1>8 DEF Settling
<1>17. Admitting
  BY <1>3, <1>5 DEF Admitting
<1> QED
  BY <1>10, <1>12, <1>13, <1>14, <1>15, <1>16, <1>17 DEF IInv

\* Nothing is started in an unclean workspace.
LEMMA RefuseObservationStep ==
    ASSUME IInv, RefuseObservation
    PROVE  IInv' /\ Settling /\ Admitting
<1> DEFINE a == reusableDerivedValidationSession(FALSE)
           d == Cleared(cands[Current], a)
           class == observationInvalidationClass
<1>1. Typed /\ Journalled /\ ProofsOwned /\ Counted
  BY DEF IInv
<1>2. /\ phase = "idle" /\ cands' = [cands EXCEPT ![Current] = d]
      /\ invalidations' = invalidations \cup a.added \cup (IF Latest = 0 THEN {} ELSE Invalidation(class))
      /\ UNCHANGED <<sessions, phase, surroundings, panicked>>
      /\ ready' = ready /\ disturbances' = disturbances + 1
  BY <1>1, Numbers DEF RefuseObservation, Asks, Disturb
<1>3. /\ d \in Candidate /\ d.boundaries = cands[Current].boundaries
      /\ d.proofs \subseteq cands[Current].proofs
      /\ \A p \in d.proofs : Owned(sessions, p, Current, d)
  BY <1>1, ClearedOwned
<1>4. invalidations \cup a.added \subseteq InvalidationSet
  BY <1>1, InvalidationsAdded
<1> HIDE DEF a, d
<1>5. class \in Classes \cup {"commit"}
  BY UncleanClass DEF observationInvalidationClass
<1> HIDE DEF class
<1>6. invalidations' \subseteq InvalidationSet
  <2>1. CASE Latest = 0
    BY <1>2, <1>4, <2>1
  <2>2. CASE Latest # 0
    <3>1. Invalidation(class) \subseteq InvalidationSet
      BY <1>1, <1>5, <2>2, Numbers DEF Invalidation, InvalidationSet
    <3> QED
      BY <1>2, <1>4, <2>2, <3>1
  <2> QED
    BY <2>1, <2>2
<1>7. ready' \in BOOLEAN /\ disturbances' \in Nat /\ disturbances <= disturbances'
  BY <1>1, <1>2 DEF Typed
<1>8. IInv' /\ Settling
  BY <1>2, <1>3, <1>6, <1>7, HoldingStep
<1>9. cands'[Current] = d /\ \A c \in DOMAIN cands : c # Current => cands'[c] = cands[c]
  BY <1>1, <1>2, <1>3, CandidateReplaced
<1>10. Admitting
  BY <1>3, <1>9 DEF Admitting
<1> QED
  BY <1>8, <1>10

\* The validator begins.
LEMMA BeginExecutionStep ==
    ASSUME IInv, BeginExecution
    PROVE  IInv' /\ Settling /\ Admitting
<1>1. Typed /\ InFlight /\ Journalled /\ ProofsOwned /\ Counted
  BY DEF IInv
<1>2. /\ phase = "journalled" /\ phase' = "executing"
      /\ UNCHANGED <<sessions, invalidations, cands, ready, place, principal, clock, panicked, disturbances>>
  BY DEF BeginExecution, Calm, record, surroundings
<1>3. Typed'
  BY <1>1, <1>2 DEF Typed, Current
<1>4. InFlight'
  BY <1>1, <1>2 DEF InFlight, Fits, Latest, Current
<1>5. Journalled'
  BY <1>1, <1>2 DEF Journalled, Latest
<1>6. ProofsOwned'
  BY <1>1, <1>2 DEF ProofsOwned, Owned
<1>7. Counted'
  BY <1>1, <1>2 DEF Counted, Latest
<1>8. Settling
  BY <1>1, <1>2, JournalUntouched
<1>9. Admitting
  BY <1>2 DEF Admitting
<1> QED
  BY <1>3, <1>4, <1>5, <1>6, <1>7, <1>8, <1>9 DEF IInv

\* The outcome is journalled: a session that completed serves, and a failure is a disturbance.
LEMMA EndExecutionStep ==
    ASSUME IInv, NEW passed \in BOOLEAN, NEW untouched \in BOOLEAN, EndExecution(passed, untouched)
    PROVE  IInv' /\ Settling /\ Admitting
<1> DEFINE outcome == ExecuteValidationSession(passed, untouched)
<1>1. Typed /\ InFlight /\ Journalled /\ ProofsOwned /\ Counted
  BY DEF IInv
<1>2. /\ phase = "executing" /\ phase' = "idle"
      /\ sessions' = [sessions EXCEPT ![Latest].state = outcome]
      /\ UNCHANGED <<cands, ready, place, principal, clock, panicked>>
      /\ outcome = "failed" =>
            /\ disturbances' = disturbances + 1
            /\ invalidations' = invalidations \cup
                  {[session |-> Latest, cand |-> sessions[Latest].cand, class |-> "failed-execution"]}
      /\ outcome # "failed" => disturbances' = disturbances /\ invalidations' = invalidations
  BY DEF EndExecution, Disturb, Calm, surroundings
<1>3. outcome = "completed" \/ outcome = "failed"
  BY DEF ExecuteValidationSession
<1> HIDE DEF outcome
<1>4. /\ Latest \in DOMAIN sessions /\ sessions[Latest].state = "started"
      /\ sessions[Latest].cand = Current /\ sessions[Latest].place = place
      /\ sessions[Latest].covered = cands[Current].boundaries /\ clock < sessions[Latest].expires
  BY <1>1, <1>2, Numbers DEF InFlight, Fits
<1>5. Latest \in Nat /\ DOMAIN sessions = 1..Latest /\ sessions[Latest] \in Session
  BY <1>1, <1>4, Numbers
<1>6. /\ sessions' \in Seq(Session) /\ Len(sessions') = Len(sessions)
      /\ DOMAIN sessions' = DOMAIN sessions
      /\ sessions'[Latest] = [sessions[Latest] EXCEPT !.state = outcome]
      /\ \A i \in DOMAIN sessions : i # Latest => sessions'[i] = sessions[i]
  <2>1. [sessions[Latest] EXCEPT !.state = outcome] \in Session
    BY <1>3, <1>5 DEF Session
  <2> QED
    BY <1>1, <1>2, <1>4, <2>1 DEF Typed
<1>7. Latest' = Latest /\ Current' = Current
  BY <1>2, <1>6 DEF Latest, Current
<1>8. /\ sessions'[Latest].cand = Current /\ sessions'[Latest].state = outcome
      /\ sessions'[Latest].place = place /\ sessions'[Latest].expires = sessions[Latest].expires
      /\ sessions'[Latest].covered = cands[Current].boundaries
  BY <1>4, <1>5, <1>6 DEF Session
<1>9. Typed'
  <2>1. disturbances' \in Nat
    BY <1>1, <1>2 DEF Typed
  <2>2. invalidations' \subseteq InvalidationSet
    <3>1. [session |-> Latest, cand |-> sessions[Latest].cand, class |-> "failed-execution"]
             \in InvalidationSet
      BY <1>1, <1>4, Numbers DEF InvalidationSet, Classes
    <3>2. invalidations \subseteq InvalidationSet
      BY <1>1 DEF Typed, InvalidationSet
    <3> QED
      BY <1>2, <1>3, <3>1, <3>2
  <2> QED
    BY <1>1, <1>2, <1>6, <1>7, <2>1, <2>2 DEF Typed, InvalidationSet
<1>10. InFlight'
  BY <1>2 DEF InFlight
<1>11. Journalled'
  BY <1>1, <1>2, <1>3, <1>4, <1>6, <1>7, <1>8 DEF Journalled
<1>12. SessionsKept
  BY <1>4, <1>6, <1>8 DEF SessionsKept
<1>13. ProofsOwned'
  <2>1. \A c \in DOMAIN cands' : \A p \in cands'[c].proofs :
           c \in DOMAIN cands /\ Owned(sessions, p, c, cands'[c])
    BY <1>1, <1>2 DEF ProofsOwned
  <2> QED
    BY <1>1, <1>12, <2>1, OwnedKept
<1>14. Counted'
  <2>1. CASE outcome = "failed"
    BY <1>1, <1>2, <1>7, <2>1, CountedDisturbed
  <2>2. CASE outcome = "completed"
    <3>1. Serves(Latest)'
      <4>1. Latest' \in DOMAIN sessions'
        BY <1>4, <1>6, <1>7
      <4>2. Serving(sessions[Latest])'
        BY <1>2, <1>4, <1>7, <1>8, <2>2 DEF Serving
      <4> QED
        BY <1>9, <4>1, <4>2, ServesDefNext
    <3>2. Latest' <= disturbances' + 1
      BY <1>1, <1>2, <1>7, <2>2 DEF Counted
    <3> QED
      BY <3>1, <3>2 DEF Counted
  <2> QED
    BY <1>3, <2>1, <2>2
<1>15. Settling
  BY <1>1, <1>2, <1>3, <1>4, <1>6, <1>8 DEF Settling, Journalled
<1>16. Admitting
  BY <1>2 DEF Admitting
<1> QED
  BY <1>9, <1>10, <1>11, <1>13, <1>14, <1>15, <1>16 DEF IInv

\* The process dies while a session is open.
LEMMA CrashStep ==
    ASSUME IInv, Crash
    PROVE  IInv' /\ Settling /\ Admitting
<1>1. Typed /\ Journalled /\ ProofsOwned /\ Counted
  BY DEF IInv
<1>2. /\ phase # "idle" /\ phase' = "idle" /\ disturbances' = disturbances + 1
      /\ UNCHANGED <<sessions, invalidations, cands, ready, place, principal, clock, panicked>>
  BY DEF Crash, Disturb, record, surroundings
<1>3. Typed'
  BY <1>1, <1>2 DEF Typed, Current
<1>4. InFlight'
  BY <1>2 DEF InFlight
<1>5. Journalled'
  BY <1>1, <1>2 DEF Journalled, Latest
<1>6. ProofsOwned'
  BY <1>1, <1>2 DEF ProofsOwned, Owned
<1>7. Counted'
  <2>1. Latest' = Latest
    BY <1>2 DEF Latest
  <2> QED
    BY <1>1, <1>2, <2>1, CountedDisturbed
<1>8. Settling
  BY <1>1, <1>2, JournalUntouched
<1>9. Admitting
  BY <1>2 DEF Admitting
<1> QED
  BY <1>3, <1>4, <1>5, <1>6, <1>7, <1>8, <1>9 DEF IInv

\* The process dies of a nil authority.
LEMMA PanicStep ==
    ASSUME IInv, Panic
    PROVE  IInv' /\ Settling /\ Admitting
<1>1. Typed /\ InFlight /\ Journalled /\ ProofsOwned /\ Counted
  BY DEF IInv
<1>2. /\ panicked' = TRUE /\ disturbances' = disturbances
      /\ UNCHANGED <<sessions, invalidations, cands, ready, phase, place, principal, clock>>
  BY DEF Panic, Calm, record, surroundings
<1>3. Typed'
  BY <1>1, <1>2 DEF Typed, Current
<1>4. InFlight'
  BY <1>1, <1>2 DEF InFlight, Fits, Latest, Current
<1>5. Journalled'
  BY <1>1, <1>2 DEF Journalled, Latest
<1>6. ProofsOwned'
  BY <1>1, <1>2 DEF ProofsOwned, Owned
<1>7. Counted'
  <2>1. disturbances <= disturbances'
    BY <1>1, <1>2 DEF Typed
  <2>2. Current' = Current
    BY <1>2 DEF Current
  <2> QED
    BY <1>1, <1>2, <1>3, <2>1, <2>2, CountedKept
<1>8. Settling
  BY <1>1, <1>2, JournalUntouched
<1>9. Admitting
  BY <1>2 DEF Admitting
<1> QED
  BY <1>3, <1>4, <1>5, <1>6, <1>7, <1>8, <1>9 DEF IInv

\* More boundaries are found: what the candidate holds of them stays owned.
LEMMA EscalateStep ==
    ASSUME IInv, NEW bs \in SUBSET Boundaries, Escalate(bs)
    PROVE  IInv' /\ Settling /\ Admitting
<1> DEFINE c == cands[Current]
           d == [c EXCEPT !.boundaries = @ \cup bs, !.proofs = {p \in @ : p.obligation # "exhaustive"}]
<1>1. Typed /\ Journalled /\ ProofsOwned /\ Counted
  BY DEF IInv
<1>2. c \in Candidate
  BY <1>1, Numbers
<1>3. /\ phase = "idle" /\ phase' = "idle" /\ disturbances' = disturbances + 1
      /\ cands' = [cands EXCEPT ![Current] = d] /\ ready' = FALSE
      /\ UNCHANGED <<sessions, invalidations, place, principal, clock, panicked>>
  BY <1>1, Numbers DEF Escalate, Disturb, surroundings, Typed
<1> HIDE DEF c
<1>4. /\ d \in Candidate /\ d.boundaries = c.boundaries \cup bs /\ d.receipts = c.receipts
      /\ d.derivable = c.derivable
      /\ d.proofs \subseteq c.proofs
  BY <1>2 DEF Candidate
<1> HIDE DEF d
<1>5. \A p \in d.proofs : Owned(sessions, p, Current, d)
  <2>1. \A p \in c.proofs : Owned(sessions, p, Current, c)
    BY <1>1, Numbers DEF ProofsOwned, c
  <2> QED
    BY <1>4, <2>1 DEF Owned
<1>6. /\ cands' \in Seq(Candidate) /\ DOMAIN cands' = DOMAIN cands /\ Current' = Current
      /\ cands'[Current] = d /\ \A n \in DOMAIN cands : n # Current => cands'[n] = cands[n]
      /\ \A n \in DOMAIN cands' : \A p \in cands'[n].proofs :
            n \in DOMAIN cands /\ Owned(sessions, p, n, cands'[n])
  BY <1>1, <1>3, <1>4, <1>5, CandidateReplaced
<1>7. Typed'
  <2>1. ready' \in BOOLEAN
    BY <1>3, Zenon
  <2>2. sessions' \in Seq(Session) /\ Current' \in DOMAIN cands' /\ invalidations' \subseteq InvalidationSet'
    BY <1>1, <1>3, <1>6 DEF Typed, InvalidationSet
  <2>3. /\ panicked' \in BOOLEAN /\ phase' \in {"idle", "journalled", "executing"}
        /\ place' \in Places /\ principal' \in Principals /\ clock' \in Nat
    BY <1>1, <1>3 DEF Typed
  <2>4. disturbances' \in Nat
    BY <1>1, <1>3 DEF Typed
  <2> QED
    BY <1>6, <2>1, <2>2, <2>3, <2>4 DEF Typed, InvalidationSet
<1>8. Settling /\ SessionsKept
  BY <1>1, <1>3, JournalUntouched
<1>9. ProofsOwned'
  BY <1>1, <1>6, <1>8, OwnedKept
<1>10. Counted'
  <2>1. Latest' = Latest
    BY <1>3 DEF Latest
  <2> QED
    BY <1>1, <1>3, <2>1, CountedDisturbed
<1>11. InFlight'
  BY <1>3 DEF InFlight
<1>12. Journalled'
  BY <1>1, <1>3, <1>6 DEF Journalled, Latest
<1>13. Admitting
  BY <1>4, <1>6 DEF Admitting, c
<1> QED
  BY <1>7, <1>8, <1>9, <1>10, <1>11, <1>12, <1>13 DEF IInv

\* A new candidate holds nothing, and no session is its own yet.
LEMMA NewCandidateStep ==
    ASSUME IInv, NEW bs \in SUBSET Boundaries, NEW derivable \in BOOLEAN, NewCandidate(bs, derivable)
    PROVE  IInv' /\ Settling /\ Admitting
<1> DEFINE d == [boundaries |-> cands[Current].boundaries \cup bs, derivable |-> derivable,
                 receipts |-> {}, proofs |-> {}]
<1>1. Typed /\ Journalled /\ ProofsOwned /\ Counted
  BY DEF IInv
<1>2. /\ phase = "idle" /\ phase' = "idle" /\ disturbances' = disturbances + 1
      /\ cands' = Append(cands, d) /\ ready' = FALSE
      /\ UNCHANGED <<sessions, invalidations, place, principal, clock, panicked>>
  BY DEF NewCandidate, Disturb, surroundings
<1>3. d \in Candidate /\ d.proofs = {}
  BY <1>1, Numbers DEF Candidate
<1> HIDE DEF d
<1>4. /\ cands' \in Seq(Candidate) /\ Current' = Current + 1 /\ Current \in Nat \ {0}
      /\ DOMAIN cands = 1..Current /\ DOMAIN cands' = 1..(Current + 1)
      /\ cands'[Current + 1] = d /\ \A n \in DOMAIN cands : cands'[n] = cands[n]
  BY <1>1, <1>2, <1>3, Numbers DEF Typed, Current
<1>5. DOMAIN cands \subseteq DOMAIN cands' /\ Current' \in DOMAIN cands'
  BY <1>4
<1>6. \A n \in DOMAIN cands' : \A p \in cands'[n].proofs :
         n \in DOMAIN cands /\ Owned(sessions, p, n, cands'[n])
  <2>1. \A n \in DOMAIN cands' : n \in DOMAIN cands \/ n = Current + 1
    BY <1>4
  <2> QED
    BY <1>1, <1>3, <1>4, <2>1 DEF ProofsOwned
<1>7. Typed'
  <2>1. invalidations' \subseteq InvalidationSet'
    BY <1>1, <1>2, <1>5 DEF Typed, InvalidationSet
  <2>2. ready' \in BOOLEAN
    BY <1>2, Zenon
  <2>3. sessions' \in Seq(Session)
    BY <1>1, <1>2 DEF Typed
  <2>4. /\ panicked' \in BOOLEAN /\ phase' \in {"idle", "journalled", "executing"}
        /\ place' \in Places /\ principal' \in Principals /\ clock' \in Nat
    BY <1>1, <1>2 DEF Typed
  <2>5. disturbances' \in Nat
    BY <1>1, <1>2 DEF Typed
  <2> QED
    BY <1>4, <1>5, <2>1, <2>2, <2>3, <2>4, <2>5 DEF Typed, InvalidationSet
<1>8. Settling /\ SessionsKept
  BY <1>1, <1>2, JournalUntouched
<1>9. ProofsOwned'
  BY <1>1, <1>6, <1>8, OwnedKept
<1>10. Counted'
  <2>1. Latest' = Latest
    BY <1>2 DEF Latest
  <2> QED
    BY <1>1, <1>2, <2>1, CountedDisturbed
<1>11. InFlight'
  BY <1>2 DEF InFlight
<1>12. Journalled'
  BY <1>1, <1>2, <1>5 DEF Journalled, Latest
<1>13. Admitting
  BY <1>4 DEF Admitting
<1> QED
  BY <1>7, <1>8, <1>9, <1>10, <1>11, <1>12, <1>13 DEF IInv

\* The next invocation runs elsewhere, as somebody else, or later.
LEMMA MoveStep ==
    ASSUME IInv, Move
    PROVE  IInv' /\ Settling /\ Admitting
<1>1. Typed /\ Journalled /\ ProofsOwned /\ Counted
  BY DEF IInv
<1>2. /\ phase = "idle" /\ phase' = "idle" /\ disturbances' = disturbances + 1
      /\ UNCHANGED <<sessions, invalidations, cands, ready, panicked>>
  BY DEF Move, Disturb, record
<1>3. place' \in Places /\ principal' \in Principals /\ clock' \in Nat
  BY <1>1 DEF Move, Typed
<1>4. Typed'
  BY <1>1, <1>2, <1>3 DEF Typed, Current
<1>5. InFlight'
  BY <1>2 DEF InFlight
<1>6. Journalled'
  BY <1>1, <1>2 DEF Journalled, Latest
<1>7. ProofsOwned'
  BY <1>1, <1>2 DEF ProofsOwned, Owned
<1>8. Counted'
  <2>1. Latest' = Latest
    BY <1>2 DEF Latest
  <2> QED
    BY <1>1, <1>2, <2>1, CountedDisturbed
<1>9. Settling
  BY <1>1, <1>2, JournalUntouched
<1>10. Admitting
  BY <1>2 DEF Admitting
<1> QED
  BY <1>4, <1>5, <1>6, <1>7, <1>8, <1>9, <1>10 DEF IInv

\* Nothing happens.
LEMMA StutterStep ==
    ASSUME IInv, UNCHANGED vars
    PROVE  IInv' /\ Settling /\ Admitting
<1>1. Typed /\ InFlight /\ Journalled /\ ProofsOwned /\ Counted
  BY DEF IInv
<1>2. /\ UNCHANGED <<sessions, invalidations, cands, ready, phase, place, principal, clock, panicked>>
      /\ disturbances' = disturbances
  BY DEF vars, record, surroundings
<1>3. Typed'
  BY <1>1, <1>2 DEF Typed, Current
<1>4. InFlight'
  BY <1>1, <1>2 DEF InFlight, Fits, Latest, Current
<1>5. Journalled'
  BY <1>1, <1>2 DEF Journalled, Latest
<1>6. ProofsOwned'
  BY <1>1, <1>2 DEF ProofsOwned, Owned
<1>7. Counted'
  <2>1. disturbances <= disturbances'
    BY <1>1, <1>2 DEF Typed
  <2>2. Current' = Current
    BY <1>2 DEF Current
  <2> QED
    BY <1>1, <1>2, <1>3, <2>1, <2>2, CountedKept
<1>8. Settling
  BY <1>1, <1>2, JournalUntouched
<1>9. Admitting
  BY <1>2 DEF Admitting
<1> QED
  BY <1>3, <1>4, <1>5, <1>6, <1>7, <1>8, <1>9 DEF IInv

-------------------------------------------------------------------------------
(* Invariance *)

\* A run begins with nothing journalled and nothing proved.
LEMMA InitSafe ==
    ASSUME Init
    PROVE  IInv
<1>1. /\ sessions = <<>> /\ invalidations = {} /\ ready = FALSE /\ phase = "idle" /\ panicked = FALSE
      /\ place \in Places /\ principal \in Principals /\ clock = 0 /\ disturbances = 0
  BY DEF Init
<1>2. PICK bs \in SUBSET Boundaries :
         cands = <<[boundaries |-> bs, derivable |-> FALSE, receipts |-> {}, proofs |-> {}]>>
  BY DEF Init
<1>3. /\ cands \in Seq(Candidate) /\ DOMAIN cands = {1} /\ Len(cands) = 1 /\ cands[1].proofs = {}
  <2>1. [boundaries |-> bs, derivable |-> FALSE, receipts |-> {}, proofs |-> {}] \in Candidate
    BY DEF Candidate
  <2> QED
    BY <1>2, <2>1
<1>4. sessions \in Seq(Session) /\ Len(sessions) = 0 /\ DOMAIN sessions = {}
  BY <1>1
<1>5. Typed
  BY <1>1, <1>3, <1>4 DEF Typed, Current
<1>6. InFlight /\ Journalled
  BY <1>1, <1>4 DEF InFlight, Journalled
<1>7. ProofsOwned
  BY <1>3 DEF ProofsOwned
<1>8. Counted
  BY <1>1, <1>4 DEF Counted, Latest
<1> QED
  BY <1>5, <1>6, <1>7, <1>8 DEF IInv

\* Every step keeps the invariant, settles sessions and admits proofs as it should.
LEMMA NextSafe ==
    ASSUME IInv, [Next]_vars
    PROVE  IInv' /\ Settling /\ Admitting
<1>1. CASE ProveBoundaries
  BY <1>1, ProveBoundariesStep
<1>2. ASSUME NEW stable \in BOOLEAN, Conclude(stable) PROVE IInv' /\ Settling /\ Admitting
  BY <1>2, ConcludeStep
<1>3. CASE StartSession
  BY <1>3, StartSessionStep
<1>4. CASE RefuseObservation
  BY <1>4, RefuseObservationStep
<1>5. CASE BeginExecution
  BY <1>5, BeginExecutionStep
<1>6. ASSUME NEW passed \in BOOLEAN, NEW untouched \in BOOLEAN, EndExecution(passed, untouched)
      PROVE  IInv' /\ Settling /\ Admitting
  BY <1>6, EndExecutionStep
<1>7. CASE Crash
  BY <1>7, CrashStep
<1>8. CASE Panic
  BY <1>8, PanicStep
<1>9. ASSUME NEW bs \in SUBSET Boundaries, Escalate(bs) PROVE IInv' /\ Settling /\ Admitting
  BY <1>9, EscalateStep
<1>10. ASSUME NEW bs \in SUBSET Boundaries, NEW derivable \in BOOLEAN, NewCandidate(bs, derivable)
       PROVE  IInv' /\ Settling /\ Admitting
  BY <1>10, NewCandidateStep
<1>11. CASE Move
  BY <1>11, MoveStep
<1>12. CASE UNCHANGED vars
  BY <1>12, StutterStep
<1> QED
  BY <1>1, <1>2, <1>3, <1>4, <1>5, <1>6, <1>7, <1>8, <1>9, <1>10, <1>11, <1>12 DEF Next, Progress

\* The record keeps what its proofs rest on, through crashes, moves and derivations.
THEOREM Invariance == Spec => []IInv
<1>1. Init => IInv
  BY InitSafe
<1>2. IInv /\ [Next]_vars => IInv'
  BY NextSafe
<1> QED
  BY <1>1, <1>2, PTL DEF Spec

\* Whatever was written can be loaded again: every proof belongs to a session that completed,
\* of its candidate, or of the parent by a receipt for that very obligation, and the session
\* covers the boundary that is proved (validateValidationSessions).
THEOREM RecordAlwaysLoads == Spec => []RecordLoads
<1>1. IInv => RecordLoads
  <2> SUFFICES ASSUME IInv PROVE RecordLoads
    OBVIOUS
  <2>1. Typed /\ InFlight /\ Journalled /\ ProofsOwned
    BY DEF IInv
  <2>2. TypeOK
    <3>1. cands # <<>>
      BY <2>1 DEF Typed
    <3>2. \A i \in DOMAIN sessions : sessions[i].cand \in DOMAIN cands
      BY <2>1 DEF Journalled
    <3>3. phase # "idle" => Latest # 0 /\ sessions[Latest].state = "started"
      BY <2>1 DEF InFlight
    <3> QED
      BY <2>1, <3>1, <3>2, <3>3, PrecedenceClasses DEF Typed, TypeOK
  <2>3. ASSUME NEW c \in DOMAIN cands PROVE validateValidationSessions(c)
    <3>1. c \in Nat /\ c - 1 # c
      BY <2>1, Numbers
    <3>2. \A p \in cands[c].proofs : Owned(sessions, p, c, cands[c])
      BY <2>1 DEF ProofsOwned
    <3> QED
      BY <3>1, <3>2 DEF validateValidationSessions, validValidationProofOwner, Owned
  <2> QED
    BY <2>2, <2>3 DEF RecordLoads
<1> QED
  BY <1>1, Invariance, PTL

\* The validator runs at most once more than something went wrong or changed: an Advance never
\* starts a second execution while one would do (advanceValidationSession).
THEOREM ExecutionsBounded == Spec => []BoundedExecutions
<1>1. IInv => BoundedExecutions
  BY DEF IInv, Counted, BoundedExecutions, Latest
<1> QED
  BY <1>1, Invariance, PTL

\* An outcome is final, only the last session can be open, and one whose invocation is gone
\* can only be declared failed.
THEOREM OutcomesFinal == Spec => SessionsSettle
<1>1. IInv /\ [Next]_vars => Settling
  BY NextSafe
<1> QED
  BY <1>1, Invariance, PTL DEF Spec, SessionsSettle, Settling

\* No other step gives readiness.
LEMMA NextReadies ==
    ASSUME IInv, [Next]_vars
    PROVE  Readying
<1>1. ASSUME NEW stable \in BOOLEAN, Conclude(stable) PROVE Readying
  BY <1>1, ConcludeReadies
<1>2. CASE ProveBoundaries \/ StartSession \/ RefuseObservation \/ BeginExecution \/ Crash \/ Panic
  BY <1>2 DEF ProveBoundaries, StartSession, RefuseObservation, BeginExecution, Crash, Panic,
              record, Readying
<1>3. ASSUME NEW passed \in BOOLEAN, NEW untouched \in BOOLEAN, EndExecution(passed, untouched)
      PROVE  Readying
  BY <1>3 DEF EndExecution, Readying
<1>4. ASSUME NEW bs \in SUBSET Boundaries, Escalate(bs) PROVE Readying
  BY <1>4 DEF Escalate, Readying
<1>5. ASSUME NEW bs \in SUBSET Boundaries, NEW derivable \in BOOLEAN, NewCandidate(bs, derivable)
      PROVE  Readying
  BY <1>5 DEF NewCandidate, Readying
<1>6. CASE Move \/ UNCHANGED vars
  BY <1>6 DEF Move, vars, record, Readying
<1> QED
  BY <1>1, <1>2, <1>3, <1>4, <1>5, <1>6 DEF Next, Progress

\* A proof is only taken from a session that completed where this invocation runs and that
\* has not expired, be it the candidate's own or an adopted one; and readiness is only given
\* while such a session serves the candidate, with every obligation proved and every adopted
\* proof taken from that very session.
THEOREM ProofsInForce == Spec => AdmittedInForce
<1>1. IInv /\ [Next]_vars => Admitting /\ Readying
  BY NextSafe, NextReadies
<1>2. Admitting /\ Readying =>
         /\ \A c \in DOMAIN cands : \A p \in cands'[c].proofs \ cands[c].proofs :
               Valid(sessions[p.session])
         /\ ~ready /\ ready' =>
               LET held == cands'[Current].proofs IN
               /\ cands'[Current].boundaries \cup {"exhaustive"} \subseteq {p.obligation : p \in held}
               /\ \E i \in DOMAIN sessions :
                     /\ Valid(sessions[i])
                     /\ cands'[Current].boundaries \subseteq sessions[i].covered
                     /\ \/ sessions[i].cand = Current
                        \/ sessions[i].cand = Current - 1 /\ principal = Confirmer
                     /\ \A p \in held : p.derived => p.session = i
  BY DEF Admitting, Readying, Backing
<1> QED
  BY <1>1, <1>2, Invariance, PTL DEF Spec, AdmittedInForce

===============================================================================
