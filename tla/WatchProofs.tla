----------------------------- MODULE WatchProofs -----------------------------
(* What one Watch reports is truthful, for any number of invocations, changes *)
(* and errors.                                                                *)
EXTENDS Watch, TLAPS

(* Operations have an order in which one can follow another. *)

LEMMA FollowsReflexive == ASSUME NEW a \in Operation PROVE Follows(a, a)
  BY DEF Follows, Operation, Phases, operationPhaseRank

LEMMA FollowsTransitive ==
  ASSUME NEW a \in Operation, NEW b \in Operation, NEW c \in Operation,
         Follows(a, b), Follows(b, c)
  PROVE  Follows(a, c)
  BY DEF Follows, Operation, Phases, operationPhaseRank

(* Advance: each step moves the sidecar forward. *)

LEMMA SidecarForward ==
  ASSUME TypeOK, SidecarLatest, Advance
  PROVE  /\ TypeOK' /\ SidecarLatest'
         /\ opFile # NoOperation => opFile' # NoOperation /\ Follows(opFile, opFile')
  <1> USE PlaceholderAssumption DEF TypeOK, SidecarLatest, Operation, Phases, Terminal
  <1>0. UNCHANGED <<pc, progress, contender, result, external, ctx>>
    BY DEF Advance, watch
  <1>1. CASE Announce
    BY <1>0, <1>1 DEF Announce, Follows
  <1>2. CASE LockAdvance
    BY <1>0, <1>2, FollowsReflexive DEF LockAdvance
  <1>3. CASE AdvanceLockBusy
    BY <1>0, <1>3 DEF AdvanceLockBusy, Follows, operationPhaseRank
  <1>4. CASE \E phase \in Phases : advanceOperationProgress(phase)
    BY <1>0, <1>4 DEF advanceOperationProgress, Follows, operationPhaseRank
  <1>5. CASE Publish
    BY <1>0, <1>5, FollowsReflexive DEF Publish
  <1>6. CASE Resolve
    BY <1>0, <1>6 DEF Resolve, Follows, operationPhaseRank
  <1>7. CASE Release
    BY <1>0, <1>7, FollowsReflexive DEF Release
  <1>8. CASE Crash
    BY <1>0, <1>8, FollowsReflexive DEF Crash
  <1> QED
    BY <1>1, <1>2, <1>3, <1>4, <1>5, <1>6, <1>7, <1>8, Zenon DEF Advance

(* What Watch has found out stays true while Advance goes on. *)

LEMMA AdvanceKeeps ==
  ASSUME IInv, Advance
  PROVE  IInv'
  <1> USE DEF IInv
  <1>1. /\ TypeOK' /\ SidecarLatest'
        /\ opFile # NoOperation => opFile' # NoOperation /\ Follows(opFile, opFile')
    BY SidecarForward
  <1>2. UNCHANGED <<pc, progress, contender, result>>
    BY DEF Advance, watch
  <1>3. /\ nextOp' >= nextOp /\ abandoned \subseteq abandoned'
        /\ opFile' = opFile \/ opFile.id = opFile'.id \/ opFile'.id = nextOp
        /\ adv' = "holding" => adv \in {"stored", "holding"} /\ opFile'.id = opFile.id
        /\ Exclusive' => (adv = "stored" /\ ~Shared) \/ Exclusive
    BY DEF Advance, Announce, LockAdvance, AdvanceLockBusy, advanceOperationProgress, Publish,
           Resolve, Release, Crash, Exclusive, TypeOK, SidecarLatest, Operation
  <1>4. opFile'.id = opFile.id /\ opFile # NoOperation =>
          /\ adv' = "stored" => adv = "stored"
          /\ adv = "holding" => adv' = "holding" \/ opFile'.state # "active" \/ opFile.id \in abandoned'
          /\ opFile.state # "active" => opFile'.state # "active"
    BY PlaceholderAssumption
       DEF Advance, Announce, LockAdvance, AdvanceLockBusy, advanceOperationProgress, Publish,
           Resolve, Release, Crash, TypeOK, SidecarLatest, Operation, Terminal
  <1>5. opFile # NoOperation => opFile' # NoOperation /\ opFile.id <= opFile'.id
    BY <1>1 DEF Follows, TypeOK, Operation
  <1>6. ContenderKnown'
    <2>1. contender' < nextOp'
      BY <1>1, <1>2, <1>3 DEF ContenderKnown, TypeOK
    <2>2. (Contended(progress.lastSuccessful) \/ pc = "busy" => contender # 0)'
      BY <1>2 DEF ContenderKnown, Contended
    <2>3. ASSUME contender' # 0, opFile'.id = contender'
          PROVE  /\ adv' # "stored"
                 /\ adv' = "holding" \/ opFile'.state # "active" \/ contender' \in abandoned'
      <3>1. nextOp # 1 /\ opFile # NoOperation /\ opFile.id = contender
        BY <1>2, <1>3, <1>5, <2>3, PlaceholderAssumption
           DEF ContenderKnown, TypeOK, SidecarLatest, Operation
      <3> QED
        BY <1>2, <1>3, <1>4, <2>3, <3>1 DEF ContenderKnown
    <2> QED
      BY <2>1, <2>2, <2>3 DEF ContenderKnown
  <1>7. ~(Exclusive /\ opFile.id = contender) => ~(Exclusive /\ opFile.id = contender)'
    <2>1. Exclusive' => nextOp' # 1 /\ opFile'.id # 0
      BY <1>1 DEF SidecarLatest, Exclusive, TypeOK, Operation
    <2> QED
      BY <2>1, <1>2, <1>3, <1>4, <1>5, <1>6, PlaceholderAssumption
         DEF ContenderKnown, TypeOK, SidecarLatest, Operation, Exclusive
  <1>8. Released'
    BY <1>2, <1>3, <1>7 DEF Released, ContenderKnown, Contended, Shared
  <1>9. ReportsBehind'
    BY <1>1, <1>2, FollowsTransitive, PlaceholderAssumption
       DEF ReportsBehind, Reported, OperationOf, TypeOK, Events, Outcomes
  <1>10. AvailabilityHonest'
    <2> SUFFICES ASSUME result = "available"
                 PROVE  AvailabilityHonest'
      BY <1>2 DEF AvailabilityHonest
    <2>1. ~(Exclusive /\ opFile.id = contender)'
      BY <1>7 DEF AvailabilityHonest
    <2> QED
      BY <1>2, <1>3, <2>1 DEF AvailabilityHonest
  <1> QED
    BY <1>1, <1>2, <1>6, <1>8, <1>9, <1>10

(* Watch: an event reports the operation of the outcome it was made from. *)

LEMMA EmittedReports ==
  ASSUME TypeOK, NEW outcome \in Outcomes \cup {NoOutcome}, NEW class \in Classes
  PROVE  /\ Emitted(Event(outcome, class)) \in Events
         /\ OperationOf(Emitted(Event(outcome, class)).outcome) = OperationOf(outcome)
  <1>1. Event(outcome, class) \in Events
    BY DEF Event, Events
  <1>2. CASE Meaningful(Event(outcome, class))
    BY <1>1, <1>2 DEF Emitted, Event
  <1>3. CASE ~Meaningful(Event(outcome, class))
    <2>1. /\ progress.lastEmitted \in Events
          /\ Shown(progress.lastEmitted) = Shown(Event(outcome, class))
      BY <1>3 DEF Meaningful, sameWatchEvent, TypeOK
    <2>2. OperationOf(progress.lastEmitted.outcome) = OperationOf(outcome)
      BY <2>1, Shown(progress.lastEmitted)[2] = Shown(Event(outcome, class))[2] DEF Shown, Event
    <2> QED
      BY <1>3, <2>1, <2>2 DEF Emitted
  <1> QED
    BY <1>2, <1>3

(* Steps of Watch that observe nothing. *)

LEMMA QuietKeeps ==
  ASSUME IInv,
         UNCHANGED <<advance, progress, record, external>>,
         \/ contender' = contender /\ pc' # "busy"
         \/ contender' = opFile.id /\ pc' = "busy" /\ Exclusive,
         pc' \in {"idle", "observe", "hold", "probed", "free", "busy", "wait", "done"},
         pc = "done" => pc' = "done",
         pc' = "hold" /\ pc # "hold" => ~Exclusive /\ ~Contended(progress.lastSuccessful),
         pc' = "probed" /\ pc # "probed" => ~Exclusive /\ Contended(progress.lastSuccessful),
         pc' = "free" /\ pc # "free" => pc = "probed",
         ctx' \in {"live", "expired", "cancelled"},
         result' = result \/ (result' = "failed" /\ pc' = "done")
  PROVE  IInv'
  <1> USE DEF IInv
  <1>1. UNCHANGED <<adv, opFile, nextOp, abandoned>>
    BY DEF advance
  <1>2. TypeOK' /\ SidecarLatest'
    BY <1>1, PlaceholderAssumption DEF TypeOK, SidecarLatest, Operation, Exclusive
  <1>3. ContenderKnown'
    <2>1. Exclusive => nextOp # 1 /\ opFile.id # 0 /\ opFile.id < nextOp
      BY DEF SidecarLatest, Exclusive, TypeOK, Operation
    <2>2. Exclusive => adv = "holding" \/ opFile.state # "active"
      BY DEF SidecarLatest, Exclusive
    <2> QED
      BY <1>1, <2>1, <2>2 DEF ContenderKnown, Exclusive, Contended
  <1>4. Released'
    BY <1>1 DEF Released, Shared, Exclusive, Contended
  <1>5. ReportsBehind'
    BY <1>1 DEF ReportsBehind, Reported, OperationOf
  <1>6. (result # "none" => pc = "done")'
    OBVIOUS
  <1>7. AvailabilityHonest'
    BY <1>1 DEF AvailabilityHonest, Exclusive
  <1> QED
    BY <1>2, <1>3, <1>4, <1>5, <1>6, <1>7

LEMMA TakeKeeps ==
  ASSUME IInv, NEW outcome \in Outcomes, Take(outcome),
         \/ pc = "hold" /\ outcome.operation = NoOperation /\ ~outcome.contended
         \/ pc = "busy" /\ outcome.operation = opFile /\ outcome.contended
         \/ /\ pc = "free" /\ outcome.operation = opFile
            /\ Contended(progress.lastSuccessful) /\ ~outcome.contended
  PROVE  IInv'
  <1> USE DEF IInv
  <1> DEFINE event == Event(outcome, "none")
  <1>1. /\ UNCHANGED <<adv, opFile, nextOp, abandoned, contender, record, external, ctx>>
        /\ progress'.lastEmitted = Emitted(event)
        /\ progress'.lastSuccessful \in {progress.lastSuccessful, outcome}
        /\ \/ pc' = "done" /\ result' = IF LockAvailable(outcome) THEN "available" ELSE "changed"
           \/ pc' = "wait" /\ result' = result /\ progress'.lastSuccessful = outcome
        /\ progress' \in [lastEmitted : {Emitted(event)},
                          lastSuccessful : {progress.lastSuccessful, outcome}]
    BY DEF Take, Finish, TypeOK, advance
  <1>2. /\ Emitted(event) \in Events
        /\ OperationOf(Emitted(event).outcome) = outcome.operation
    BY EmittedReports, PlaceholderAssumption DEF Classes, OperationOf
  <1>3. TypeOK' /\ SidecarLatest'
    BY <1>1, <1>2 DEF TypeOK, SidecarLatest, Take
  <1>4. pc = "busy" => contender # 0
    BY DEF ContenderKnown
  <1>5. ContenderKnown'
    BY <1>1, <1>4, PlaceholderAssumption DEF ContenderKnown, Contended, Released
  <1>6. Released'
    BY <1>1 DEF Released, Shared
  <1>7. Reported' = outcome.operation
    BY <1>1, <1>2, PlaceholderAssumption DEF Reported
  <1>8. outcome.operation # NoOperation => outcome.operation = opFile /\ opFile \in Operation
    BY DEF TypeOK, Outcomes
  <1>9. ReportsBehind'
    BY <1>1, <1>7, <1>8, FollowsReflexive, PlaceholderAssumption DEF ReportsBehind, OperationOf
  <1>10. AvailabilityHonest'
    <2> SUFFICES ASSUME result' = "available"
                 PROVE  AvailabilityHonest'
      BY DEF AvailabilityHonest
    <2>1. pc \in {"hold", "busy", "free"} /\ result = "none"
      BY DEF TypeOK
    <2>2. LockAvailable(outcome)
      BY <1>1, <2>1
    <2>3. pc = "free" /\ outcome.operation = opFile
      BY <2>2 DEF LockAvailable, Released
    <2>4. contender # 0 /\ nextOp # 1 /\ contender <= opFile.id /\ opFile \in Operation
      BY <2>2 DEF LockAvailable, ContenderKnown, SidecarLatest, TypeOK, Operation
    <2>5. ~(Exclusive /\ opFile.id = contender)
      BY <2>3 DEF Released
    <2>6. opFile.id = contender => opFile.state # "active" \/ opFile.id \in abandoned
      BY <2>4, <2>5 DEF ContenderKnown, Exclusive
    <2>7. progress'.lastEmitted.outcome.operation = opFile /\ opFile # NoOperation
      BY <1>1, <1>2, <2>3, <2>4, PlaceholderAssumption DEF OperationOf
    <2> QED
      BY <1>1, <2>4, <2>5, <2>6, <2>7 DEF AvailabilityHonest, Exclusive, Operation
  <1> QED
    BY <1>1, <1>3, <1>5, <1>6, <1>9, <1>10

(* An error or the end of the context emits the last successful outcome. *)

LEMMA LastEmittedKeeps ==
  ASSUME IInv, UNCHANGED <<advance, contender, record, external, ctx>>,
         progress'.lastSuccessful = progress.lastSuccessful,
         progress' \in [lastEmitted : Events, lastSuccessful : Outcomes \cup {NoOutcome}],
         Reported' = OperationOf(progress.lastSuccessful),
         pc # "idle", pc # "done",
         \/ pc' = "wait" /\ result' = result
         \/ pc' = "done" /\ result' \in {"failed", "timeout", "cancelled"}
  PROVE  IInv'
  <1> USE DEF IInv
  <1>1. UNCHANGED <<adv, opFile, nextOp, abandoned>>
    BY DEF advance
  <1>2. TypeOK' /\ SidecarLatest'
    BY <1>1 DEF TypeOK, SidecarLatest
  <1>3. ContenderKnown' /\ Released'
    BY <1>1 DEF ContenderKnown, Released, Shared, Contended
  <1>4. ReportsBehind'
    BY <1>1 DEF ReportsBehind, OperationOf
  <1>5. result' # "available"
    BY DEF TypeOK
  <1> QED
    BY <1>2, <1>3, <1>4, <1>5 DEF AvailabilityHonest

LEMMA FailsKeeps ==
  ASSUME IInv, NEW class \in Classes, Fails(class), pc # "idle", pc # "done"
  PROVE  IInv'
  <1> DEFINE event == Event(progress.lastSuccessful, class)
  <1>1. progress.lastSuccessful \in Outcomes \cup {NoOutcome} /\ TypeOK
    BY DEF IInv, TypeOK
  <1>2. /\ Emitted(event) \in Events
        /\ OperationOf(Emitted(event).outcome) = OperationOf(progress.lastSuccessful)
    BY <1>1, EmittedReports
  <1>3. progress' = [progress EXCEPT !.lastEmitted = Emitted(event)]
    BY DEF Fails
  <1>4. /\ progress'.lastEmitted = Emitted(event)
        /\ progress'.lastSuccessful = progress.lastSuccessful
        /\ progress' \in [lastEmitted : Events, lastSuccessful : Outcomes \cup {NoOutcome}]
    BY <1>1, <1>2, <1>3 DEF TypeOK
  <1>5. Reported' = OperationOf(progress.lastSuccessful)
    BY <1>2, <1>4, PlaceholderAssumption DEF Reported
  <1>6. /\ UNCHANGED <<advance, contender, record, external, ctx>>
        /\ \/ pc' = "wait" /\ result' = result
           \/ pc' = "done" /\ result' \in {"failed", "timeout", "cancelled"}
    BY DEF Fails, Finish
  <1> QED
    BY <1>4, <1>5, <1>6, LastEmittedKeeps

LEMMA InterruptedKeeps == IInv /\ Interrupted => IInv'
  <1> SUFFICES ASSUME IInv, Interrupted PROVE IInv'
    OBVIOUS
  <1>1. /\ UNCHANGED <<advance, contender, record, external, ctx>>
        /\ pc # "idle" /\ pc # "done"
        /\ pc' = "done" /\ result' \in {"failed", "timeout", "cancelled"}
    BY DEF Interrupted, Finish
  <1>2. CASE ctx = "expired"
    <2>1. progress' = [progress EXCEPT !.lastEmitted =
                          Event(progress.lastSuccessful, "timeout-no-change")]
      BY <1>2 DEF Interrupted
    <2>2. /\ progress'.lastEmitted = Event(progress.lastSuccessful, "timeout-no-change")
          /\ progress'.lastSuccessful = progress.lastSuccessful
          /\ progress' \in [lastEmitted : Events, lastSuccessful : Outcomes \cup {NoOutcome}]
      BY <2>1 DEF IInv, TypeOK, Event, Events, Classes
    <2>3. Reported' = OperationOf(progress.lastSuccessful)
      BY <2>2, PlaceholderAssumption DEF Reported, Event
    <2> QED
      BY <1>1, <2>2, <2>3, LastEmittedKeeps
  <1>3. CASE ctx # "expired"
    <2>1. UNCHANGED progress
      BY <1>3 DEF Interrupted
    <2>2. /\ result' # "available"
          /\ UNCHANGED <<adv, opFile, nextOp, abandoned>>
      BY <1>1, <1>3 DEF Interrupted, advance, Finish
    <2> QED
      BY <1>1, <2>1, <2>2
         DEF IInv, TypeOK, SidecarLatest, ContenderKnown, Released, Shared, Contended,
             ReportsBehind, Reported, OperationOf, AvailabilityHonest
  <1> QED
    BY <1>2, <1>3

(* The loop. *)

LEMMA LoopKeeps == IInv /\ Loop => IInv'
  <1> SUFFICES ASSUME IInv, Loop PROVE IInv'
    OBVIOUS
  <1> USE DEF IInv
  <1>1. CASE ShareForStatus \/ Probe \/ EndProbe \/ Wait \/ StatusBusy \/ ProbeBusy
    <2>1. /\ UNCHANGED <<advance, progress, record, external, ctx, result>>
          /\ \/ contender' = contender /\ pc' # "busy"
             \/ contender' = opFile.id /\ pc' = "busy" /\ Exclusive
          /\ pc' \in {"idle", "observe", "hold", "probed", "free", "busy", "wait", "done"}
          /\ pc # "done"
      BY <1>1 DEF ShareForStatus, Probe, EndProbe, Wait, StatusBusy, ProbeBusy, Goto, FindsTaken
    <2>2. /\ pc' = "hold" /\ pc # "hold" => ~Exclusive /\ ~Contended(progress.lastSuccessful)
          /\ pc' = "probed" /\ pc # "probed" => ~Exclusive /\ Contended(progress.lastSuccessful)
          /\ pc' = "free" /\ pc # "free" => pc = "probed"
      BY <1>1 DEF ShareForStatus, Probe, EndProbe, Wait, StatusBusy, ProbeBusy, Goto, FindsTaken
    <2>3. ctx' \in {"live", "expired", "cancelled"}
      BY <2>1 DEF TypeOK
    <2> QED
      BY <2>1, <2>2, <2>3, QuietKeeps
  <1>2. CASE Status
    <2>1. RecordOutcome \in Outcomes /\ RecordOutcome.operation = NoOperation
              /\ ~RecordOutcome.contended
      BY DEF RecordOutcome, Outcomes, TypeOK
    <2> QED
      BY <1>2, <2>1, TakeKeeps DEF Status
  <1>3. CASE LoadWhileBusy
    <2>1. ContendedOutcome(opFile) \in Outcomes /\ ContendedOutcome(opFile).operation = opFile
              /\ ContendedOutcome(opFile).contended
      BY DEF ContendedOutcome, Outcomes, TypeOK
    <2> QED
      BY <1>3, <2>1, TakeKeeps DEF LoadWhileBusy
  <1>4. CASE LoadWhenFree
    <2>1. Contended(progress.lastSuccessful) /\ progress.lastSuccessful \in Outcomes
      BY <1>4 DEF LoadWhenFree, Released, Contended, TypeOK
    <2>2. AvailableOutcome(opFile) \in Outcomes /\ AvailableOutcome(opFile).operation = opFile
              /\ ~AvailableOutcome(opFile).contended
      BY <2>1 DEF AvailableOutcome, Outcomes, TypeOK
    <2> QED
      BY <1>4, <2>1, <2>2, TakeKeeps DEF LoadWhenFree
  <1>5. CASE Interrupted
    BY <1>5, InterruptedKeeps
  <1> QED
    BY <1>1, <1>2, <1>3, <1>4, <1>5 DEF Loop

(* The inductive invariant of Watch beside Advance: the sidecar is the latest *)
(* operation's, what was found holding the lock is known, and every report is *)
(* one the sidecar follows.                                                   *)
THEOREM WatchInvariant == Spec => []IInv
  <1>1. Init => IInv
    BY PlaceholderAssumption
       DEF Init, IInv, TypeOK, SidecarLatest, ContenderKnown, Released, Shared, Exclusive, Contended,
           ReportsBehind, Reported, OperationOf, AvailabilityHonest
  <1>2. IInv /\ [Next]_vars => IInv'
    <2> SUFFICES ASSUME IInv, [Next]_vars PROVE IInv'
      OBVIOUS
    <2>1. CASE Start
      BY <2>1, QuietKeeps DEF Start, Goto, IInv, TypeOK
    <2>2. CASE Loop
      BY <2>2, LoopKeeps
    <2>3. CASE ObservationFails
      BY <2>3, FailsKeeps DEF ObservationFails, Classes
    <2>4. CASE ReturnsError
      BY <2>4, QuietKeeps DEF ReturnsError, Finish, IInv, TypeOK
    <2>5. CASE ContextEnds
      BY <2>5 DEF ContextEnds, watch, advance, IInv, TypeOK, SidecarLatest, ContenderKnown, Released,
                  Shared, Exclusive, Contended, ReportsBehind, Reported, OperationOf, AvailabilityHonest
    <2>6. CASE Advance
      BY <2>6, AdvanceKeeps
    <2>7. CASE ExternalChanges \/ UNCHANGED vars
      <3>1. external' \in Identities /\ UNCHANGED <<advance, watch, record, ctx>>
        BY <2>7 DEF ExternalChanges, vars, IInv, TypeOK
      <3> QED
        BY <3>1
           DEF watch, advance, IInv, TypeOK, SidecarLatest, ContenderKnown, Released, Shared, Exclusive,
               Contended, ReportsBehind, Reported, OperationOf, AvailabilityHonest
    <2> QED
      BY <2>1, <2>2, <2>3, <2>4, <2>5, <2>6, <2>7 DEF Next
  <1> QED
    BY <1>1, <1>2, PTL DEF Spec

(* An available lock is what Watch says it is: whoever had it has let go, and *)
(* the reported operation is resolved, dead or a later one.                   *)
THEOREM AvailabilityAlwaysHonest == Spec => []AvailabilityHonest
  BY WatchInvariant, PTL DEF IInv

(* What one Watch reports of operations only moves forward, although it reads *)
(* the sidecar without a lock.                                                *)
THEOREM ReportsAlwaysForward == Spec => ReportsForward
  <1>1. IInv /\ IInv' /\ [Next]_vars =>
          [Reported # NoOperation /\ Reported' # NoOperation => Follows(Reported, Reported')]_progress
    <2> SUFFICES ASSUME IInv, IInv', Next, Reported # NoOperation, Reported' # NoOperation,
                        progress' # progress
                 PROVE  Follows(Reported, Reported')
      BY DEF vars, watch
    <2> USE DEF IInv
    <2>1. UNCHANGED advance /\ pc # "done"
      BY DEF Next, Start, Goto, Loop, ObservationFails, ReturnsError, ContextEnds, Advance,
             ExternalChanges, ShareForStatus, StatusBusy, Status, Probe, ProbeBusy, EndProbe,
             LoadWhileBusy, LoadWhenFree, Wait, Interrupted, FindsTaken, Take, Fails, watch
    <2>2. Reported' = OperationOf(progress.lastSuccessful) \/ Reported' = opFile
      <3>1. CASE \E outcome \in Outcomes : Take(outcome) /\ outcome.operation \in {NoOperation, opFile}
        <4> PICK outcome \in Outcomes : Take(outcome) /\ outcome.operation \in {NoOperation, opFile}
          BY <3>1
        <4>1. progress'.lastEmitted = Emitted(Event(outcome, "none"))
          BY DEF Take, TypeOK
        <4>2. Reported' = outcome.operation
          BY <4>1, EmittedReports, PlaceholderAssumption DEF Reported, OperationOf, Classes
        <4> QED
          BY <4>2
      <3>2. CASE \E class \in Classes : Fails(class)
        <4> PICK class \in Classes : Fails(class)
          BY <3>2
        <4>1. /\ progress.lastSuccessful \in Outcomes \cup {NoOutcome}
              /\ progress'.lastEmitted = Emitted(Event(progress.lastSuccessful, class))
          BY DEF Fails, TypeOK
        <4> QED
          BY <4>1, EmittedReports, PlaceholderAssumption DEF Reported
      <3>3. CASE Interrupted
        <4>1. /\ progress.lastSuccessful \in Outcomes \cup {NoOutcome}
              /\ progress'.lastEmitted = Event(progress.lastSuccessful, "timeout-no-change")
          BY <3>3 DEF Interrupted, TypeOK
        <4> QED
          BY <4>1, PlaceholderAssumption DEF Reported, Event, Events, Classes
      <3>4. Status \/ LoadWhileBusy \/ LoadWhenFree \/ ObservationFails \/ Interrupted
        BY DEF Next, Start, Goto, Loop, ReturnsError, ContextEnds, Advance, ExternalChanges,
               ShareForStatus, StatusBusy, Probe, ProbeBusy, EndProbe, Wait, FindsTaken, watch
      <3>5. Status => RecordOutcome \in Outcomes /\ RecordOutcome.operation = NoOperation
        BY DEF RecordOutcome, Outcomes, TypeOK
      <3>6. LoadWhileBusy => ContendedOutcome(opFile) \in Outcomes /\ ContendedOutcome(opFile).operation = opFile
        BY DEF ContendedOutcome, Outcomes, TypeOK
      <3>7. LoadWhenFree => AvailableOutcome(opFile) \in Outcomes /\ AvailableOutcome(opFile).operation = opFile
        BY DEF LoadWhenFree, Released, Contended, AvailableOutcome, Outcomes, TypeOK
      <3> QED
        BY <3>1, <3>2, <3>3, <3>4, <3>5, <3>6, <3>7
           DEF Status, LoadWhileBusy, LoadWhenFree, ObservationFails, Classes
    <2>3. Reported \in Operation /\ Follows(Reported, opFile)
      BY DEF ReportsBehind, Reported, OperationOf, TypeOK, Events, Outcomes
    <2> QED
      BY <2>1, <2>2, <2>3, FollowsReflexive DEF ReportsBehind
  <1> QED
    BY <1>1, WatchInvariant, PTL DEF Spec, ReportsForward
===============================================================================
