--------------------------- MODULE MCEvidenceReuse ---------------------------
(* Two boundaries, two criteria, two collaborators and two registered policies.  *)
(* The ordinary case is an amended commit with the tree of its parent.           *)
EXTENDS EvidenceReuse, TLC

CONSTANTS b1, b2, k1, k2

BoundarySet == {b1, b2}
CriterionSet == {k1, k2}
Logins == {"ada", "eve"}

Human(login) == [kind |-> "authorized-human", identity |-> login, registration |-> "none"]
Policy(path) == [kind |-> "registered-policy", identity |-> path, registration |-> "digest"]
PolicySet == {Policy("policy"), Policy("alias")}
AuthorSet == {Human("ada"), Human("eve"), Human("mallory")} \cup PolicySet

Old == [commit |-> "old", tree |-> "t1", profile |-> "high", boundaries |-> {b1}]
New == [Old EXCEPT !.commit = "new"]

Same(k) == [parent |-> k, derived |-> k, disposition |-> "unaffected"]
Named(class, boundaries) == [class |-> class, boundaries |-> boundaries]

OrdinaryAssessment ==
    [author |-> Human("eve"), complete |-> TRUE,
     parentAuthority |-> "a1", derivedAuthority |-> "a1", parent |-> Old, derived |-> New,
     parentAcceptance |-> CriterionSet, derivedAcceptance |-> CriterionSet,
     parentCount |-> 2, derivedCount |-> 2,
     obligations |-> {Same(k) : k \in CriterionSet}, changes |-> {Named("non-behavioral", {})}]

ChangeSet ==
    {Named(c, {}) : c \in {"tree", "validator", "acceptance-meaning", "ambiguous", "behavior"}}
        \cup {Named("sensitive-boundary", s) : s \in {{b1}, {b2}, BoundarySet}}
Departures(c) ==
    {c} \cup {[c EXCEPT !.boundaries = s] : s \in {{}, {b2}, BoundarySet}}
        \cup {[c EXCEPT !.tree = "t2"], [c EXCEPT !.profile = "standard"]}
ParentSet == Departures(Old)
DerivedSet == Departures(New)
RowSet ==
    {[Same(k1) EXCEPT !.disposition = d] : d \in {"changed", "ambiguous"}}
        \cup {[Same(k1) EXCEPT !.derived = k2], Same(k1), Same(k2)}

Bare == [candidate |-> Old, checkout |-> "here", environment |-> "e1", covered |-> {b1},
         obligation |-> [kind |-> "boundary", boundary |-> b1], expires |-> 3, clean |-> TRUE]
Passed == [kind |-> "registered-validation-session", succeeded |-> TRUE, completions |-> 1,
           completedAt |-> 2] @@ Bare
Needed == [Bare EXCEPT !.candidate = New]

SessionSet ==
    {[Passed EXCEPT !.kind = "manual-execution"], [Passed EXCEPT !.candidate.tree = "t2"],
     [Passed EXCEPT !.environment = "e2"], [Passed EXCEPT !.clean = FALSE],
     [Passed EXCEPT !.succeeded = FALSE], [Passed EXCEPT !.completions = 2],
     [Passed EXCEPT !.obligation = [kind |-> "exhaustive", boundary |-> "none"]],
     [Passed EXCEPT !.completedAt = 4], [Passed EXCEPT !.covered = {}]}
RequirementSet ==
    {[Needed EXCEPT !.environment = "e2"], [Needed EXCEPT !.checkout = "elsewhere"],
     [Needed EXCEPT !.clean = FALSE], [Needed EXCEPT !.covered = {}],
     [Needed EXCEPT !.obligation = [kind |-> "exhaustive", boundary |-> "none"]]}
===============================================================================
