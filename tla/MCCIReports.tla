----------------------------- MODULE MCCIReports -----------------------------
(* Two required contexts and every check that differs from a trusted, *)
(* successful one in a single respect.                                 *)
EXTENDS CIReports

CONSTANTS validate, governance, foreign, c1, c2

Contexts == {validate, governance}
CommitSet == {c1, c2}

Trusted(id) ==
    [identity |-> id, conclusion |-> "success", head |-> c1,
     kind |-> IF id = governance THEN "commit-status" ELSE "check-run",
     ref |-> IF id = governance THEN c2 ELSE c1, linked |-> TRUE, attribution |-> ""]

Variants(id) ==
    {[Trusted(id) EXCEPT !.conclusion = c] : c \in Conclusions}
    \cup {[Trusted(id) EXCEPT !.conclusion = "failure", !.attribution = a] : a \in Attributions}
    \cup {[Trusted(id) EXCEPT !.head = h] : h \in {c2, NoHead}}
    \cup {[Trusted(id) EXCEPT !.conclusion = "failure", !.head = h, !.attribution = "candidate"] :
             h \in {c2, NoHead}}
    \cup {[Trusted(id) EXCEPT !.kind = k] : k \in {"check-run", "commit-status", "untrusted"}}
    \cup {[Trusted(id) EXCEPT !.ref = r] : r \in CommitSet}
    \cup {[Trusted(id) EXCEPT !.linked = FALSE]}

Reports == Variants(validate) \cup Variants(governance) \cup {Trusted(foreign)}
===============================================================================
