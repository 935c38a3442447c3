-------------------------- MODULE MCNonLocalDelivery --------------------------
(* Two required contexts, one of them published as a commit status. *)
EXTENDS NonLocalDelivery

CONSTANTS validate, governance

Contexts == {validate, governance}
ByName == [id \in Contexts |-> IF id = governance THEN 1 ELSE 2]
CommitNumbers == 0..MaxCandidates + MaxMain + 1

\* How many of the failing checks, edits and faults an instance counts happen together;
\* an edit goes with one failing check.
MaxDisturbances == 3
FewDisturbances ==
    failures + edits + faults <= MaxDisturbances /\ (edits = 0 \/ failures <= 1)
===============================================================================
