--------------------------- MODULE CIReportsProofs ---------------------------
(***************************************************************************)
(* The required-CI policy answers success exactly for a proof of success,  *)
(* for any required contexts, commits and lists of checks.                 *)
(***************************************************************************)
EXTENDS CIReports, TLAPS

OnlyReport(obs, i, id) ==
    /\ i \in DOMAIN obs
    /\ obs[i].identity = id
    /\ \A j \in DOMAIN obs \ {i} : obs[j].identity # id

Succeeds(obs, i, head) == obs[i].conclusion = "success" /\ obs[i].head = head

Vouched(obs, i, head, base) == obs[i].linked /\ TrustedProvenance(head, base, obs[i])

\* The class of a context with one report is the class of that report.
LEMMA ClassOfOnly ==
    ASSUME NEW obs, NEW head, NEW id, NEW i, OnlyReport(obs, i, id)
    PROVE  /\ Class(obs, head, id) = Classification(head, obs[i])
           /\ ReportOf(obs, id) = obs[i]
<1>1. Reported(obs, id) = {i}
  BY DEF OnlyReport, Reported
<1>2. (CHOOSE k \in Reported(obs, id) : TRUE) = i
  BY <1>1
<1> QED
  BY <1>1, <1>2 DEF Class, ReportOf

\* A context that is neither absent nor in conflict has one report.
LEMMA OnlyOfClass ==
    ASSUME NEW obs, NEW head, NEW id, Class(obs, head, id) \notin {"absent", "conflict"}
    PROVE  \E i : OnlyReport(obs, i, id)
<1>1. Reported(obs, id) # {} /\ ~ \E i, j \in Reported(obs, id) : i # j
  BY DEF Class
<1>2. PICK i \in Reported(obs, id) : TRUE
  BY <1>1
<1>3. OnlyReport(obs, i, id)
  BY <1>1, <1>2 DEF Reported, OnlyReport
<1> QED
  BY <1>3

\* A context has the class of success exactly when one report is its only one
\* and that report is a success of the exact commit.
LEMMA ClassOfSuccess ==
    ASSUME NEW obs, NEW head \in Commits, NEW id
    PROVE  Class(obs, head, id) = "required-success"
             <=> \E i : OnlyReport(obs, i, id) /\ Succeeds(obs, i, head)
<1>1. \A i : Classification(head, obs[i]) = "required-success" <=> Succeeds(obs, i, head)
  BY PolicyAssumption DEF Classification, Succeeds
<1>2. ASSUME Class(obs, head, id) = "required-success"
      PROVE  \E i : OnlyReport(obs, i, id) /\ Succeeds(obs, i, head)
  <2>1. PICK i : OnlyReport(obs, i, id)
    BY <1>2, OnlyOfClass
  <2>2. Classification(head, obs[i]) = "required-success"
    BY <1>2, <2>1, ClassOfOnly
  <2> QED
    BY <1>1, <2>1, <2>2
<1>3. ASSUME NEW i, OnlyReport(obs, i, id), Succeeds(obs, i, head)
      PROVE  Class(obs, head, id) = "required-success"
  <2>1. Class(obs, head, id) = Classification(head, obs[i])
    BY <1>3, ClassOfOnly
  <2> QED
    BY <1>1, <1>3, <2>1
<1> QED
  BY <1>2, <1>3

\* Every context has exactly one class.
LEMMA Classes ==
    ASSUME NEW obs, NEW head, NEW id
    PROVE  Class(obs, head, id) \in
             {"absent", "conflict", "unavailable", "stale-head", "pending",
              "required-success", "cancelled", "failed"}
  BY DEF Class, Classification

\* The policy answers success exactly when nothing blocks and every required
\* context has the class of success.
LEMMA SuccessByClass ==
    ASSUME NEW obs, NEW head, NEW base
    PROVE  evaluateCIPolicy(obs, head, base) = "success"
             <=> /\ \A i \in DOMAIN obs :
                       obs[i].linked /\ TrustedProvenance(head, base, obs[i])
                 /\ \A id \in Required : Class(obs, head, id) = "required-success"
<1>1. evaluateCIPolicy(obs, head, base) = "success"
        <=> /\ ~Blocked(obs, head, base) /\ ~Unattributed(obs, head)
            /\ ~Blamed(obs, head, "candidate") /\ ~Blamed(obs, head, "infrastructure")
            /\ ~Waiting(obs, head)
  BY DEF evaluateCIPolicy
<1>2. (\A id \in Required : Class(obs, head, id) = "required-success")
        <=> /\ ~Unclear(obs, head) /\ ~Waiting(obs, head) /\ Failures(obs, head) = {}
  BY Classes DEF Unclear, Waiting, Failures
<1>3. Failures(obs, head) = {}
        <=> /\ ~Unattributed(obs, head)
            /\ ~Blamed(obs, head, "candidate") /\ ~Blamed(obs, head, "infrastructure")
  BY DEF Unattributed, Blamed
<1> QED
  BY <1>1, <1>2, <1>3 DEF Blocked

\* evaluateCIPolicy answers success exactly for a proof of success.
THEOREM PolicySound ==
    ASSUME NEW obs, NEW head \in Commits, NEW base
    PROVE  evaluateCIPolicy(obs, head, base) = "success" <=> Green(obs, head, base)
<1>1. \A id : Class(obs, head, id) = "required-success"
                <=> \E i : OnlyReport(obs, i, id) /\ Succeeds(obs, i, head)
  BY ClassOfSuccess
<1>2. Green(obs, head, base)
        <=> /\ \A id \in Required :
                  \E i : OnlyReport(obs, i, id) /\ Vouched(obs, i, head, base) /\ Succeeds(obs, i, head)
            /\ \A i \in DOMAIN obs : obs[i].identity \in Required
  BY DEF Green, Proved, OnlyReport, Succeeds, Vouched
<1>3. ASSUME \A i \in DOMAIN obs : Vouched(obs, i, head, base),
             \A id \in Required : Class(obs, head, id) = "required-success"
      PROVE  Green(obs, head, base)
  BY <1>1, <1>2, <1>3 DEF TrustedProvenance, OnlyReport, Vouched
<1>4. ASSUME Green(obs, head, base)
      PROVE  /\ \A i \in DOMAIN obs : Vouched(obs, i, head, base)
             /\ \A id \in Required : Class(obs, head, id) = "required-success"
  <2>1. \A id \in Required : Class(obs, head, id) = "required-success"
    BY <1>1, <1>2, <1>4
  <2>2. ASSUME NEW i \in DOMAIN obs
        PROVE  Vouched(obs, i, head, base)
    <3>1. obs[i].identity \in Required
      BY <1>2, <1>4, <2>2
    <3>2. PICK k : OnlyReport(obs, k, obs[i].identity) /\ Vouched(obs, k, head, base)
      BY <1>2, <1>4, <3>1
    <3>3. k = i
      BY <2>2, <3>2 DEF OnlyReport
    <3> QED
      BY <3>2, <3>3
  <2> QED
    BY <2>1, <2>2
<1>5. evaluateCIPolicy(obs, head, base) = "success"
        <=> /\ \A i \in DOMAIN obs : Vouched(obs, i, head, base)
            /\ \A id \in Required : Class(obs, head, id) = "required-success"
  BY SuccessByClass DEF Vouched
<1> QED
  BY <1>3, <1>4, <1>5

\* Whatever GitHub shows, the program takes required CI for green only when each
\* required context has one trusted success of the exact candidate.
THEOREM SuccessAlwaysProved == Spec => []SuccessIsProof
<1>1. SuccessIsProof
  BY PolicySound, ReportsAssumption DEF SuccessIsProof, State
<1> QED
  BY <1>1, PTL

\* When nothing blocks, a check that failed at the commit makes its context fail
\* and carries the attribution of that failure.
LEMMA FailingCounts ==
    ASSUME NEW obs, NEW head \in Commits, NEW base, ~Blocked(obs, head, base),
           NEW i \in FailingAt(obs, head)
    PROVE  /\ obs[i].identity \in Failures(obs, head)
           /\ ReportOf(obs, obs[i].identity) = obs[i]
<1> DEFINE id == obs[i].identity
<1>1. i \in DOMAIN obs /\ obs[i].conclusion \in Failing /\ obs[i].head \in {head, NoHead}
  BY DEF FailingAt
<1>2. id \in Required
  BY <1>1 DEF Blocked, TrustedProvenance
<1>3. Class(obs, head, id) \notin {"absent", "conflict"}
  <2>1. Class(obs, head, id) # "conflict"
    BY <1>2 DEF Blocked, Unclear
  <2>2. i \in Reported(obs, id)
    BY <1>1 DEF Reported
  <2>3. Class(obs, head, id) # "absent"
    BY <2>2 DEF Class, Classification
  <2> QED
    BY <2>1, <2>3
<1>4. PICK k : OnlyReport(obs, k, id)
  BY <1>3, OnlyOfClass
<1>5. OnlyReport(obs, i, id)
  BY <1>1, <1>4 DEF OnlyReport
<1>6. Class(obs, head, id) = Classification(head, obs[i]) /\ ReportOf(obs, id) = obs[i]
  BY <1>5, ClassOfOnly
<1>7. Classification(head, obs[i]) \in {"failed", "cancelled"}
  BY <1>1 DEF Classification, Failing
<1> QED
  BY <1>2, <1>6, <1>7 DEF Failures

\* A failure counted by the policy is a check that failed at the commit.
LEMMA CountedFails ==
    ASSUME NEW obs, NEW head \in Commits, NEW id \in Failures(obs, head)
    PROVE  \E i \in FailingAt(obs, head) : ReportOf(obs, id) = obs[i]
<1>1. Class(obs, head, id) \in {"failed", "cancelled"}
  BY DEF Failures
<1>2. PICK i : OnlyReport(obs, i, id)
  BY <1>1, OnlyOfClass
<1>3. Class(obs, head, id) = Classification(head, obs[i]) /\ ReportOf(obs, id) = obs[i]
  BY <1>2, ClassOfOnly
<1>4. obs[i].conclusion \in Failing /\ obs[i].head \in {head, NoHead}
  BY <1>1, <1>3 DEF Classification, Failing
<1>5. i \in FailingAt(obs, head)
  BY <1>2, <1>4 DEF FailingAt, OnlyReport
<1> QED
  BY <1>3, <1>5

\* Whatever GitHub shows, a check is re-run only when every failure was put down to
\* the infrastructure, and a repair is asked for only when all were attributed.
THEOREM FailuresAlwaysAttributed == Spec => []FailuresAttributed
<1> DEFINE h == CandidateHead
<1>0. h \in Commits
  BY ReportsAssumption
<1>1. ASSUME ~Blocked(reports, h, PullBase), NEW i \in FailingAt(reports, h)
      PROVE  /\ reports[i].attribution \in {"candidate", "infrastructure"}
                   \/ Unattributed(reports, h)
             /\ reports[i].attribution = "candidate" => Blamed(reports, h, "candidate")
  <2>1. reports[i].identity \in Failures(reports, h)
    BY <1>0, <1>1, FailingCounts
  <2>2. ReportOf(reports, reports[i].identity) = reports[i]
    BY <1>0, <1>1, FailingCounts
  <2> QED
    BY <2>1, <2>2 DEF Unattributed, Blamed
<1>2. ASSUME NEW a, Blamed(reports, h, a)
      PROVE  \E i \in FailingAt(reports, h) : reports[i].attribution = a
  <2>1. PICK id \in Failures(reports, h) : ReportOf(reports, id).attribution = a
    BY <1>2 DEF Blamed
  <2>2. PICK i \in FailingAt(reports, h) : ReportOf(reports, id) = reports[i]
    BY <1>0, <2>1, CountedFails
  <2> QED
    BY <2>1, <2>2
<1>3. ASSUME State = "infrastructure-failure"
      PROVE  /\ FailingAt(reports, h) # {}
             /\ \A i \in FailingAt(reports, h) : reports[i].attribution = "infrastructure"
  <2>1. /\ ~Blocked(reports, h, PullBase) /\ ~Unattributed(reports, h)
        /\ ~Blamed(reports, h, "candidate") /\ Blamed(reports, h, "infrastructure")
    BY <1>3 DEF State, evaluateCIPolicy
  <2> QED
    BY <1>1, <1>2, <2>1
<1>4. ASSUME State = "candidate-failure"
      PROVE  /\ \E i \in FailingAt(reports, h) : reports[i].attribution = "candidate"
             /\ \A i \in FailingAt(reports, h) :
                   reports[i].attribution \in {"candidate", "infrastructure"}
  <2>1. /\ ~Blocked(reports, h, PullBase) /\ ~Unattributed(reports, h)
        /\ Blamed(reports, h, "candidate")
    BY <1>4 DEF State, evaluateCIPolicy
  <2> QED
    BY <1>1, <1>2, <2>1
<1>5. FailuresAttributed
  BY <1>3, <1>4 DEF FailuresAttributed
<1> QED
  BY <1>5, PTL

Settled(c, head) == c.conclusion # "" /\ c.head = head

\* A context the policy waits for has no report that is settled for the commit.
LEMMA WaitedForUnsettled ==
    ASSUME NEW obs, NEW head \in Commits, NEW id,
           Class(obs, head, id) \in {"absent", "pending", "stale-head"},
           NEW i \in DOMAIN obs, obs[i].identity = id
    PROVE  ~Settled(obs[i], head)
<1>1. i \in Reported(obs, id)
  BY DEF Reported
<1>2. Class(obs, head, id) # "absent"
  BY <1>1 DEF Class, Classification
<1>3. PICK k : OnlyReport(obs, k, id)
  BY <1>2, OnlyOfClass
<1>4. OnlyReport(obs, i, id)
  BY <1>3 DEF OnlyReport
<1>5. Class(obs, head, id) = Classification(head, obs[i])
  BY <1>4, ClassOfOnly
<1> QED
  BY <1>2, <1>5 DEF Classification, Settled

\* Whatever GitHub shows, the program waits only while a context of this commit is
\* unsettled and none has failed.
THEOREM PendingAlwaysHope == Spec => []PendingIsHope
<1> DEFINE h == CandidateHead
<1>0. h \in Commits
  BY ReportsAssumption
<1>1. ASSUME State = "pending"
      PROVE  /\ ~Blocked(reports, h, PullBase) /\ ~Unattributed(reports, h)
             /\ ~Blamed(reports, h, "candidate") /\ ~Blamed(reports, h, "infrastructure")
             /\ Waiting(reports, h)
  BY <1>1 DEF State, evaluateCIPolicy
<1>2. ASSUME State = "pending", NEW i \in FailingAt(reports, h)
      PROVE  FALSE
  <2>1. ~Blocked(reports, h, PullBase)
    BY <1>1, <1>2
  <2>2. reports[i].identity \in Failures(reports, h)
    BY <1>0, <1>2, <2>1, FailingCounts
  <2>3. ReportOf(reports, reports[i].identity) = reports[i]
    BY <1>0, <1>2, <2>1, FailingCounts
  <2> QED
    BY <1>1, <1>2, <2>2, <2>3 DEF Unattributed, Blamed
<1>3. ASSUME NEW id, Class(reports, CandidateHead, id) \in {"absent", "pending", "stale-head"},
             NEW i \in DOMAIN reports, reports[i].identity = id
      PROVE  ~Settled(reports[i], CandidateHead)
  BY <1>0, <1>3, WaitedForUnsettled
<1>4. ASSUME State = "pending"
      PROVE  \E id \in Required : \A i \in DOMAIN reports :
                reports[i].identity = id => ~Settled(reports[i], CandidateHead)
  <2>1. PICK id \in Required :
           Class(reports, CandidateHead, id) \in {"absent", "pending", "stale-head"}
    BY <1>1, <1>4 DEF Waiting
  <2> QED
    BY <1>3, <2>1
<1>5. PendingIsHope
  BY <1>2, <1>4 DEF PendingIsHope, Settled
<1> QED
  BY <1>5, PTL
===============================================================================
