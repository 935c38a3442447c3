---------------------------- MODULE DeliveryPromise ----------------------------
(***************************************************************************)
(* What non-local delivery promises an operator who looks at GitHub, at the *)
(* workspace and at the record, and knows nothing of invocations: which     *)
(* commit is being delivered, what has been done to it, and that nothing is *)
(* done out of turn.  NonLocalDelivery.tla keeps these promises with        *)
(* observations that are old when they are used, calls that fail or lose    *)
(* their answer, and invocations that die, and is shown to refine them.     *)
(***************************************************************************)
EXTENDS Naturals

CONSTANTS
    Candidates,     \* the commits of the issue branch
    Stranger        \* a commit that somebody else has pushed to it

VARIABLES
    cand, stage,    \* the recorded candidate, and how far its delivery is
    proved,         \* the record proves every required check of it green
    asked,          \* the commit GitHub was asked to merge, 0 without one
    landed,         \* the commit that was merged, by whomever
    closed,         \* the issue is
    remote,         \* the commit of the remote branch, 0 without one
    left            \* what is still to be cleaned up locally

vars == <<cand, stage, proved, asked, landed, closed, remote, left>>

Init ==
    /\ cand = 1 /\ stage = "preparing" /\ proved = FALSE
    /\ asked = 0 /\ landed = 0 /\ closed = FALSE /\ remote = 0
    /\ left = {"worktree", "branch", "main"}

-------------------------------------------------------------------------------
(* The record *)

\* Until a merge is adopted, a later commit takes the place of the candidate,
\* and nothing that was proved of that counts for it.
Prepare ==
    /\ stage \in {"preparing", "delivering"} /\ stage' = "preparing"
    /\ cand' \in Candidates /\ cand' > cand /\ ~proved'
    /\ UNCHANGED <<asked, landed, closed, remote, left>>

Deliver ==
    /\ stage = "preparing" /\ stage' = "delivering" /\ ~proved'
    /\ UNCHANGED <<cand, asked, landed, closed, remote, left>>

\* The checks of the candidate come, go and are repeated.
Observe ==
    /\ stage = "delivering" /\ proved' \in BOOLEAN
    /\ UNCHANGED <<cand, stage, asked, landed, closed, remote, left>>

\* Only the proved candidate's own merge is adopted.
Adopt ==
    /\ stage = "delivering" /\ proved /\ landed = cand /\ stage' = "merged"
    /\ UNCHANGED <<cand, proved, asked, landed, closed, remote, left>>

\* An issue that is closed before that ends the run.
Supersede ==
    /\ stage \in {"preparing", "delivering"} /\ closed /\ stage' = "superseded"
    /\ UNCHANGED <<cand, proved, asked, landed, closed, remote, left>>

Complete ==
    /\ stage = "merged" /\ left = {} /\ stage' = "completed"
    /\ UNCHANGED <<cand, proved, asked, landed, closed, remote, left>>

-------------------------------------------------------------------------------
(* What is done to GitHub and to the workspace *)

\* The branch only moves forward to the candidate, which ends the request to
\* merge what was on it.
Push ==
    /\ stage = "delivering" /\ remote \in 0..cand
    /\ remote' = cand /\ asked' \in {asked, 0}
    /\ UNCHANGED <<cand, stage, proved, landed, closed, left>>

Ask ==
    /\ stage = "delivering" /\ proved /\ landed = 0 /\ asked' = cand
    /\ UNCHANGED <<cand, stage, proved, landed, closed, remote, left>>

Cleans == stage = "merged" /\ closed

DeleteRemote ==
    /\ Cleans /\ remote = cand /\ remote' = 0
    /\ UNCHANGED <<cand, stage, proved, asked, landed, closed, left>>

\* What is removed locally goes last, in this order.
Clears(thing, before) ==
    /\ Cleans /\ remote = 0 /\ left \cap before = {} /\ left' = left \ {thing}
    /\ UNCHANGED <<cand, stage, proved, asked, landed, closed, remote>>

Clear ==
    \/ Clears("worktree", {})
    \/ Clears("branch", {"worktree"})
    \/ Clears("main", {"worktree", "branch"})

-------------------------------------------------------------------------------
(* GitHub and other people *)

\* Any commit may be merged, once.
Land ==
    /\ landed = 0 /\ landed' \in Candidates \cup {Stranger}
    /\ UNCHANGED <<cand, stage, proved, asked, closed, remote, left>>

Close ==
    /\ landed # 0 /\ closed' = TRUE
    /\ UNCHANGED <<cand, stage, proved, asked, landed, remote, left>>

Intrude ==
    /\ landed = 0 \/ remote # 0
    /\ remote' = Stranger /\ asked' = 0
    /\ UNCHANGED <<cand, stage, proved, landed, closed, left>>

Next ==
    \/ Prepare \/ Deliver \/ Observe \/ Adopt \/ Supersede \/ Complete
    \/ Push \/ Ask \/ DeleteRemote \/ Clear
    \/ Land \/ Close \/ Intrude

Spec == Init /\ [][Next]_vars
===============================================================================
