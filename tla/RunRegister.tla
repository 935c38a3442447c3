----------------------------- MODULE RunRegister -----------------------------
(***************************************************************************)
(* What the issue store promises its callers: one durable register per     *)
(* issue, holding the record of the one active delivery run.  A published  *)
(* record is either the first run of the issue, a revision of the record   *)
(* it replaces, or the first record of a run that supersedes it; nothing   *)
(* published is ever lost, and a completed run is the last one.            *)
(* IssueStore.tla implements this register with two locks and four kinds   *)
(* of files, and is shown to refine it.                                    *)
(***************************************************************************)
EXTENDS Naturals, Sequences

CONSTANTS
    Authorities,    \* digests of the compiled issue authority
    Bases,          \* commits of origin/main an invocation can observe
    NoBase,         \* evidence is nil: qualification waits for a decision
    NoData          \* no run has been published

VARIABLE record

Phases == {"open", "published", "completed"}

\* A run's identity digests its authority and the identity of the run it
\* supersedes, so it stands for the whole chain of authorities.
RunId == Seq(Authorities) \ {<<>>}

\* trail is the Timing history of the record: the operations that wrote it.
Data == [id : RunId, base : Bases \cup {NoBase}, phase : Phases, trail : Seq(Nat)]

First(d) ==
    /\ Len(d.trail) = 1
    /\ d.phase = "open"

Revises(d, e) ==
    /\ d.phase # "completed"
    /\ e.id = d.id
    /\ e.base = d.base
    /\ e.trail # <<>>
    /\ e.trail = Append(d.trail, e.trail[Len(e.trail)])

Supersedes(d, e) ==
    /\ d.phase # "completed"
    /\ First(e)
    /\ \E a \in Authorities : e.id = Append(d.id, a)

\* What may be published while the register holds r.
Publishes(r, d) ==
    /\ d # NoData
    /\ r = NoData => First(d) /\ Len(d.id) = 1
    /\ r # NoData => Revises(r, d) \/ Supersedes(r, d)

TypeOK == record \in Data \cup {NoData}

Init == record = NoData

Next == Publishes(record, record')

Spec == Init /\ [][Next]_record
==============================================================================
