--------------------------------- MODULE Watch ---------------------------------
(***************************************************************************)
(* One call of Watch (internal/issuedelivery/watch.go) beside invocations  *)
(* of Advance.  Watch polls: by Status, which reads the record under the   *)
(* shared lock, until it meets an Advance; from then on only by a probe of *)
(* the lock and a read of the operation sidecar, which no lock protects.   *)
(*                                                                         *)
(* A step lies between two points at which the other side can see a        *)
(* difference.  Invocations that find operation.lock taken do nothing      *)
(* here, so at most one is modelled at a time; IssueStore has their race.  *)
(* `external' is what the record waits for, as Git and GitHub show it now: *)
(* worktree, branch, pull request, checks or merge.                        *)
(***************************************************************************)
EXTENDS Naturals

CONSTANTS
    Identities,       \* what the relevant identity of an observation can be
    States,           \* run and state of the record
    NoOperation, NoOutcome, NoEvent,
    MaxOperations,    \* invocations of Advance
    MaxChanges,       \* changes of what the record waits for
    MaxErrors         \* failing observations and emissions

ASSUME WatchAssumption == MaxOperations \in Nat /\ MaxChanges \in Nat /\ MaxErrors \in Nat

VARIABLES
    adv,              \* where the present invocation of Advance is
    opFile,           \* active-operation.json
    nextOp, abandoned,  \* operations drawn, and those whose process died
    record,           \* the active record
    external,
    pc,               \* where Watch is
    ctx,              \* its context: live, expired or cancelled
    progress,         \* its watchProgress
    contender,        \* the operation that held the lock when Watch last found it taken
    result,           \* how Watch ended
    changes, errors

advance == <<adv, opFile, nextOp, abandoned>>
watch == <<pc, progress, contender, result>>
vars == <<advance, watch, record, external, ctx, changes, errors>>

Phases == {"advance", "validation-session"}
Terminal == {"completed", "failed", "cancelled"}
Operation == [id: Nat, phase: Phases, state: {"active"} \cup Terminal]

operationPhaseRank(phase) == IF phase = "advance" THEN 1 ELSE 2

Records == [state: States, pause: {"external-result", "operator"}, recorded: Identities]

\* What Watch keeps and emits.
Outcomes == [contended: BOOLEAN, record: Records \cup {NoOutcome},
             current: Identities \cup {NoOutcome}, operation: Operation \cup {NoOperation}]
Classes == {"none", "transient", "permanent", "timeout-no-change"}
Events == [outcome: Outcomes \cup {NoOutcome}, class: Classes]

ASSUME PlaceholderAssumption ==
    NoOperation \notin Operation /\ NoOutcome \notin Outcomes /\ NoEvent \notin Events

\* advance.lock is held exclusively, or shared by Watch itself.
Exclusive == adv \in {"holding", "resolved"}
Shared == pc \in {"hold", "probed"}

-----------------------------------------------------------------------------
(* Advance, as far as Watch can see it. *)

Announce ==
    /\ adv = "idle" /\ nextOp <= MaxOperations
    /\ opFile' = [id |-> nextOp, phase |-> "advance", state |-> "active"]
    /\ nextOp' = nextOp + 1 /\ adv' = "stored"
    /\ UNCHANGED <<abandoned, record>>

LockAdvance ==
    /\ adv = "stored" /\ ~Shared
    /\ adv' = "holding"
    /\ UNCHANGED <<opFile, nextOp, abandoned, record>>

\* Watch's shared lock is contention, too.
AdvanceLockBusy ==
    /\ adv = "stored" /\ Shared
    /\ opFile' = [opFile EXCEPT !.state = "completed"]
    /\ adv' = "idle"
    /\ UNCHANGED <<nextOp, abandoned, record>>

\* Variant: a handler reports its phase as it likes.
UnguardedProgress(phase) ==
    /\ adv = "holding"
    /\ opFile' = [opFile EXCEPT !.phase = phase]
    /\ UNCHANGED <<adv, nextOp, abandoned, record>>

advanceOperationProgress(phase) ==
    /\ adv = "holding" /\ operationPhaseRank(phase) >= operationPhaseRank(opFile.phase)
    /\ opFile' = [opFile EXCEPT !.phase = phase]
    /\ UNCHANGED <<adv, nextOp, abandoned, record>>

\* The record is replaced; what it now waits for is what Advance last saw.
Publish ==
    /\ adv = "holding"
    /\ record' \in {r \in Records : r.recorded = external}
    /\ UNCHANGED <<adv, opFile, nextOp, abandoned>>

Resolve ==
    /\ adv = "holding"
    /\ \E state \in Terminal : opFile' = [opFile EXCEPT !.state = state]
    /\ adv' = "resolved"
    /\ UNCHANGED <<nextOp, abandoned, record>>

\* Variant: the lock may be released before the operation is resolved.
UnresolvedRelease ==
    /\ adv \in {"holding", "resolved"} /\ adv' = "idle"
    /\ UNCHANGED <<opFile, nextOp, abandoned, record>>

Release ==
    /\ adv = "resolved" /\ adv' = "idle"
    /\ UNCHANGED <<opFile, nextOp, abandoned, record>>

\* The kernel drops the locks of a killed process; its sidecar stays.  So does one whose
\* last write fails.
Crash ==
    /\ adv # "idle" /\ adv' = "idle"
    /\ abandoned' = abandoned \cup {opFile.id}
    /\ UNCHANGED <<opFile, nextOp, record>>

Advance ==
    /\ \/ Announce \/ LockAdvance \/ AdvanceLockBusy \/ Publish \/ Resolve \/ Release \/ Crash
       \/ \E phase \in Phases : advanceOperationProgress(phase)
    /\ UNCHANGED <<watch, external, ctx, changes, errors>>

ExternalChanges ==
    /\ changes < MaxChanges /\ changes' = changes + 1
    /\ \E i \in Identities \ {external} : external' = i
    /\ UNCHANGED <<advance, watch, record, ctx, errors>>

-----------------------------------------------------------------------------
(* What Watch makes of an observation. *)

\* A contended outcome has no record, one of a record no operation.
ContendedOutcome(operation) ==
    [contended |-> TRUE, record |-> NoOutcome, current |-> NoOutcome, operation |-> operation]

RecordOutcome ==
    [contended |-> FALSE, record |-> record, current |-> external, operation |-> NoOperation]

AvailableOutcome(operation) ==
    [progress.lastSuccessful EXCEPT !.contended = FALSE, !.operation = operation]

Contended(outcome) == outcome # NoOutcome /\ outcome.contended

\* Only a contended outcome becomes one without a record.
PauseCause(outcome) ==
    IF outcome.record = NoOutcome THEN "lock-contention" ELSE outcome.record.pause

watchPollable(outcome) == PauseCause(outcome) \in {"external-result", "lock-contention"}

ExternalChanged(outcome) ==
    PauseCause(outcome) = "external-result" /\ outcome.current # outcome.record.recorded

LockAvailable(outcome) == Contended(progress.lastSuccessful) /\ ~outcome.contended

\* What of an event is compared with the last one, and what is shown of it.
Event(outcome, class) == [outcome |-> outcome, class |-> class]

OperationOf(outcome) == IF outcome = NoOutcome THEN NoOperation ELSE outcome.operation

Shown(event) ==
    LET outcome == event.outcome IN
    <<event.class, OperationOf(outcome),
      IF outcome = NoOutcome THEN <<>>
      ELSE <<PauseCause(outcome), outcome.contended, outcome.current,
             ExternalChanged(outcome),
             IF outcome.record = NoOutcome THEN NoOutcome ELSE outcome.record.state>> >>

sameWatchEvent(left, right) == Shown(left) = Shown(right)

Meaningful(event) ==
    progress.lastEmitted = NoEvent \/ ~sameWatchEvent(progress.lastEmitted, event)

Emitted(event) == IF Meaningful(event) THEN event ELSE progress.lastEmitted

Recovered == progress.lastEmitted # NoEvent /\ progress.lastEmitted.class = "transient"

Finish(how) == pc' = "done" /\ result' = how

\* Variant: a changed result only ends a call that has not just recovered.
RecoveringConcluding(outcome) ==
    \/ LockAvailable(outcome)
    \/ ~watchPollable(outcome)
    \/ /\ progress.lastSuccessful # NoOutcome /\ ~Contended(progress.lastSuccessful)
       /\ Meaningful(Event(outcome, "none")) /\ ~Recovered

\* The observation ends the call.
Concluding(outcome) ==
    \/ LockAvailable(outcome) \/ ExternalChanged(outcome)
    \/ ~watchPollable(outcome)
    \/ /\ progress.lastSuccessful # NoOutcome /\ ~Contended(progress.lastSuccessful)
       /\ Meaningful(Event(outcome, "none")) /\ ~Recovered

\* A successful observation is emitted if it shows something new.
Take(outcome) ==
    /\ IF Concluding(outcome)
       THEN /\ Finish(IF LockAvailable(outcome) THEN "available" ELSE "changed")
            /\ progress' = [progress EXCEPT !.lastEmitted = Emitted(Event(outcome, "none"))]
       ELSE /\ pc' = "wait" /\ UNCHANGED result
            /\ progress' = [lastEmitted |-> Emitted(Event(outcome, "none")),
                            lastSuccessful |-> outcome]
    /\ UNCHANGED <<contender, advance, record, external, ctx, changes, errors>>

\* A failed one is emitted once, and only a transient one is tried again.
Fails(class) ==
    /\ errors < MaxErrors /\ errors' = errors + 1
    /\ progress' = [progress EXCEPT !.lastEmitted = Emitted(Event(progress.lastSuccessful, class))]
    /\ IF class = "transient" THEN pc' = "wait" /\ UNCHANGED result ELSE Finish("failed")
    /\ UNCHANGED <<contender, advance, record, external, ctx, changes>>

-----------------------------------------------------------------------------
(* The loop.  Steps that look at the context need it alive; the read of the  *)
(* sidecar does not look.                                                    *)

Goto(label) ==
    /\ pc' = label
    /\ UNCHANGED <<progress, contender, result, advance, record, external, ctx, changes, errors>>

FindsTaken(label) ==
    /\ pc' = label /\ contender' = opFile.id
    /\ UNCHANGED <<progress, result, advance, record, external, ctx, changes, errors>>

Start == pc = "idle" /\ Goto("observe")

\* Status: under the shared lock it reads the record, then observes.
ShareForStatus ==
    /\ pc = "observe" /\ ctx = "live" /\ ~Contended(progress.lastSuccessful)
    /\ ~Exclusive /\ Goto("hold")

StatusBusy ==
    /\ pc = "observe" /\ ctx = "live" /\ ~Contended(progress.lastSuccessful)
    /\ Exclusive /\ FindsTaken("busy")

Status == pc = "hold" /\ ctx = "live" /\ Take(RecordOutcome)

\* issueLockAvailable, once the lock was found taken.
Probe ==
    /\ pc = "observe" /\ ctx = "live" /\ Contended(progress.lastSuccessful)
    /\ ~Exclusive /\ Goto("probed")

ProbeBusy ==
    /\ pc = "observe" /\ ctx = "live" /\ Contended(progress.lastSuccessful)
    /\ Exclusive /\ FindsTaken("busy")

EndProbe == pc = "probed" /\ ctx = "live" /\ Goto("free")

\* loadOperation, without a lock.
LoadWhileBusy == pc = "busy" /\ Take(ContendedOutcome(opFile))
LoadWhenFree == pc = "free" /\ Take(AvailableOutcome(opFile))

\* Git, GitHub and the external observer fail transiently; the record and the
\* lock permanently.
ObservationFails ==
    /\ ctx = "live"
    /\ \/ pc \in {"observe", "hold"} /\ \E class \in {"transient", "permanent"} : Fails(class)
       \/ pc = "probed" /\ Fails("permanent")
       \/ pc = "busy" /\ Fails(IF Contended(progress.lastSuccessful) THEN "transient" ELSE "permanent")

\* A sidecar that cannot be read when the lock is free ends the call at once,
\* and so does an event that cannot be written.
ReturnsError ==
    /\ pc \in {"free", "busy", "hold"} /\ errors < MaxErrors /\ errors' = errors + 1
    /\ Finish("failed")
    /\ UNCHANGED <<progress, contender, advance, record, external, ctx, changes>>

Wait == pc = "wait" /\ ctx = "live" /\ Goto("observe")

\* The goroutine that waits for the timeout, and the caller.
ContextEnds ==
    /\ ctx = "live" /\ pc \notin {"idle", "done"}
    /\ ctx' \in {"expired", "cancelled"}
    /\ UNCHANGED <<watch, advance, record, external, changes, errors>>

\* What the ended context stops: every step that looks at it, and a read of the
\* sidecar that fails.  The terminal event of a timeout has the last successful
\* outcome.
Interrupted ==
    /\ pc \notin {"idle", "done"} /\ ctx # "live"
    /\ Finish(IF ctx = "expired" THEN "timeout" ELSE "cancelled")
    /\ progress' = IF ctx = "expired"
                   THEN [progress EXCEPT !.lastEmitted = Event(progress.lastSuccessful, "timeout-no-change")]
                   ELSE progress
    /\ UNCHANGED <<contender, advance, record, external, ctx, changes, errors>>

Loop ==
    \/ ShareForStatus \/ StatusBusy \/ Status \/ Probe \/ ProbeBusy \/ EndProbe
    \/ LoadWhileBusy \/ LoadWhenFree \/ Wait \/ Interrupted

Init ==
    /\ adv = "idle" /\ opFile = NoOperation /\ nextOp = 1 /\ abandoned = {}
    /\ record \in Records /\ external \in Identities
    /\ pc = "idle" /\ ctx = "live" /\ result = "none" /\ contender = 0
    /\ progress = [lastEmitted |-> NoEvent, lastSuccessful |-> NoOutcome]
    /\ changes = 0 /\ errors = 0

Next == Start \/ Loop \/ ObservationFails \/ ReturnsError \/ ContextEnds
            \/ Advance \/ ExternalChanges

Spec == Init /\ [][Next]_vars

\* Polls are bounded calls and a timer; nothing is assumed of Advance.
FairSpec == Spec /\ WF_vars(Loop)

-----------------------------------------------------------------------------
(* Properties. *)

\* When Watch says that the lock is available, the invocation it had found there
\* has let go of it, and the operation that comes with the event does not belie
\* it: it is resolved, or died, or is a later one that Watch never waited for.
AvailabilityHonest ==
    result = "available" =>
        LET operation == progress.lastEmitted.outcome.operation IN
        /\ ~(Exclusive /\ opFile.id = contender)
        /\ operation # NoOperation /\ operation.id >= contender
        /\ operation.id = contender =>
              operation.state # "active" \/ operation.id \in abandoned

\* A later phase of the same operation, its end, or a later operation.
Follows(old, new) ==
    \/ old.id < new.id
    \/ /\ old.id = new.id /\ (old.state # "active" => new = old)
       /\ operationPhaseRank(old.phase) <= operationPhaseRank(new.phase)

Reported == IF progress.lastEmitted = NoEvent THEN NoOperation
            ELSE OperationOf(progress.lastEmitted.outcome)

\* The operations that one Watch reports, read without a lock between crashes,
\* retries and later invocations, only move forward.
ReportsForward ==
    [][Reported # NoOperation /\ Reported' # NoOperation => Follows(Reported, Reported')]_progress

\* A lock that stays free, or a result that stays changed, is not missed: Watch
\* ends, whatever transient errors or contention it met before.
ActionableStays ==
    <>[](pc # "idle" /\ adv = "idle" /\ (record.pause = "external-result" => external # record.recorded))

ChangeEndsWatch == ActionableStays => <>(pc = "done")

-----------------------------------------------------------------------------
(* The inductive invariant the two safety properties rest on. *)

TypeOK ==
    /\ adv \in {"idle", "stored", "holding", "resolved"}
    /\ opFile \in Operation \cup {NoOperation}
    /\ nextOp \in Nat \ {0} /\ abandoned \subseteq Nat /\ contender \in Nat
    /\ record \in Records /\ external \in Identities
    /\ pc \in {"idle", "observe", "hold", "probed", "free", "busy", "wait", "done"}
    /\ ctx \in {"live", "expired", "cancelled"}
    /\ progress \in [lastEmitted: Events \cup {NoEvent}, lastSuccessful: Outcomes \cup {NoOutcome}]
    /\ result \in {"none", "available", "changed", "failed", "timeout", "cancelled"}

\* The sidecar is that of the latest operation, active until it is resolved.
SidecarLatest ==
    /\ IF nextOp = 1 THEN opFile = NoOperation /\ adv = "idle"
       ELSE opFile \in Operation /\ opFile.id = nextOp - 1
    /\ adv \in {"stored", "holding"} => opFile.state = "active"
    /\ adv = "resolved" => opFile.state # "active"

\* The contender had the lock, and keeps it or is resolved or dead.
ContenderKnown ==
    /\ contender < nextOp
    /\ Contended(progress.lastSuccessful) \/ pc = "busy" => contender # 0
    /\ contender # 0 /\ opFile.id = contender =>
          /\ adv # "stored"
          /\ adv = "holding" \/ opFile.state # "active" \/ contender \in abandoned

\* Once Watch holds the lock itself, the contender has lost it.
Released ==
    /\ pc \in {"probed", "free"} => Contended(progress.lastSuccessful)
    /\ pc = "hold" => ~Contended(progress.lastSuccessful)
    /\ Shared => ~Exclusive
    /\ pc \in {"probed", "free"} => ~(Exclusive /\ opFile.id = contender)

\* What was reported is what was last observed, and the sidecar follows it.
ReportsBehind ==
    /\ pc # "done" => Reported = OperationOf(progress.lastSuccessful)
    /\ Reported # NoOperation => opFile # NoOperation /\ Follows(Reported, opFile)
    /\ OperationOf(progress.lastSuccessful) # NoOperation =>
          opFile # NoOperation /\ Follows(OperationOf(progress.lastSuccessful), opFile)

IInv ==
    /\ TypeOK /\ SidecarLatest /\ ContenderKnown /\ Released /\ ReportsBehind
    /\ (result # "none" => pc = "done") /\ AvailabilityHonest
================================================================================
