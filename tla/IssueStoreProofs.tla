--------------------------- MODULE IssueStoreProofs ---------------------------
(* Proofs about IssueStore, for every number of processes and every bound. *)
EXTENDS IssueStore, TLAPS

-------------------------------------------------------------------------------
(* Type correctness *)

LEMMA EmptyLocalsTyped == NoOp \in Operation /\ NothingSeen \in Seen
BY ConstantsAssumption DEF NoOp, NothingSeen, Operation, Seen, ConstantsAssumption

LEMMA InitTyped == Init => TypeOK
<1> SUFFICES ASSUME Init PROVE TypeOK
  OBVIOUS
<1>3. "idle" \in Labels /\ "none" \in Results /\ "idle" \in ObserverLabels
  BY DEF Labels, Results, ObserverLabels
<1>4. LocksTyped /\ FilesTyped /\ WorldTyped
  BY ConstantsAssumption DEF Init, LocksTyped, FilesTyped, WorldTyped, ConstantsAssumption
<1>5. InvocationsTyped /\ ObserversTyped
  BY <1>3, EmptyLocalsTyped DEF Init, InvocationsTyped, ObserversTyped
<1> QED
  BY <1>4, <1>5 DEF TypeOK

LEMMA RevisedTyped ==
    ASSUME NEW d \in Data, NEW phase \in Phases, NEW o \in Nat
    PROVE  /\ Revised(d, phase, o) \in Data
           /\ Len(Revised(d, phase, o).trail) = Len(d.trail) + 1
<1>1. d.trail \in Seq(Nat) /\ d.id \in RunId /\ d.base \in Bases \cup {NoBase}
  BY DEF Data
<1>2. Append(d.trail, o) \in Seq(Nat) /\ Len(Append(d.trail, o)) = Len(d.trail) + 1
  BY <1>1
<1> QED
  BY <1>1, <1>2 DEF Revised, Data

LEMMA RunIdentityTyped ==
    ASSUME NEW a \in Authorities, NEW d \in Data \cup {NoData}
    PROVE  RunIdentity(a, d) \in RunId
<1>1. CASE d = NoData
  <2>1. <<a>> \in Seq(Authorities) /\ <<a>> # <<>>
    OBVIOUS
  <2> QED
    BY <1>1, <2>1 DEF RunIdentity, RunId
<1>2. CASE d # NoData
  <2>1. d.id \in Seq(Authorities)
    BY <1>2 DEF Data, RunId
  <2>2. Append(d.id, a) \in Seq(Authorities) /\ Append(d.id, a) # <<>>
    BY <2>1
  <2> QED
    BY <1>2, <2>2 DEF RunIdentity, RunId
<1> QED
  BY <1>1, <1>2

-------------------------------------------------------------------------------

LEMMA NewRunTyped ==
    ASSUME TypeOK, NEW p \in Advancers
    PROVE  /\ NewRun(p) \in Data
           /\ NewRun(p).id = RunIdentity(seen[p].authority, seen[p].record)
           /\ NewRun(p).phase = "open"
           /\ NewRun(p).trail = <<op[p].id>>
<1>1. /\ seen[p].authority \in Authorities
      /\ seen[p].record \in Data \cup {NoData}
      /\ seen[p].base \in Bases
      /\ op[p].id \in Nat
  BY DEF TypeOK, InvocationsTyped, Seen, Operation
<1>2. RunIdentity(seen[p].authority, seen[p].record) \in RunId
  BY <1>1, RunIdentityTyped
<1>3. CompiledBase(seen[p].authority, seen[p].base) \in Bases \cup {NoBase}
  BY <1>1 DEF CompiledBase
<1>4. <<op[p].id>> \in Seq(Nat)
  BY <1>1
<1> QED
  BY <1>2, <1>3, <1>4 DEF NewRun, Data, Phases

LEMMA TypedStep == TypeOK /\ [Next]_vars => TypeOK'
<1> SUFFICES ASSUME TypeOK, [Next]_vars PROVE TypeOK'
  OBVIOUS
<1> USE DEF TypeOK, LocksTyped, FilesTyped, InvocationsTyped, ObserversTyped, WorldTyped, vars, locks, files, invocation, observation, world
<1>0. Labels = {"idle", "start", "stamp", "flock", "contended", "release", "resolve", "unlock",
               "read", "decide", "write", "activate", "adopted", "revised", "validating"}
  BY DEF Labels, HoldsOperation, HoldsAdvance, InFn
<1>1. ASSUME NEW p \in Advancers, Begin(p) PROVE TypeOK'
  <2>1. [id |-> nextOp, phase |-> "advance", state |-> "active"] \in Operation
    BY DEF Operation
  <2>2. [seen[p] EXCEPT !.base = base] \in Seen
    BY DEF Seen
  <2> QED
    BY <1>0, <1>1, <2>1, <2>2 DEF Results, Begin, Goto
<1>2. ASSUME NEW p \in Advancers, LockOperation(p) PROVE TypeOK'
  BY <1>0, <1>2, ConstantsAssumption DEF Results, LockOperation, Goto
<1>3. ASSUME NEW p \in Advancers, OperationLockBusy(p) PROVE TypeOK'
  BY <1>0, <1>3, ConstantsAssumption, EmptyLocalsTyped DEF Results, OperationLockBusy, Forget, Goto
<1>4. ASSUME NEW p \in Advancers, StoreOperation(p) PROVE TypeOK'
  BY <1>0, <1>4, ConstantsAssumption DEF Results, StoreOperation, Goto
<1>5. ASSUME NEW p \in Advancers, StoreOperationFails(p) PROVE TypeOK'
  <2>1. op[p] \in Operation /\ op[p].id \in Nat
    BY <1>5 DEF Operation
  <2> QED
    BY <1>0, <1>5, <2>1, ConstantsAssumption DEF Results, StoreOperationFails, Goto
<1>6. ASSUME NEW p \in Advancers, LockAdvance(p) PROVE TypeOK'
  BY <1>0, <1>6, ConstantsAssumption DEF Results, LockAdvance, Goto
<1>7. ASSUME NEW p \in Advancers, AdvanceLockBusy(p) PROVE TypeOK'
  BY <1>0, <1>7, ConstantsAssumption DEF Results, AdvanceLockBusy, Goto, Operation
<1>8. ASSUME NEW p \in Advancers, AdvanceLockFails(p) PROVE TypeOK'
  BY <1>0, <1>8, ConstantsAssumption DEF Results, AdvanceLockFails, Goto, Operation
<1>9. ASSUME NEW p \in Advancers, StoreContended(p) PROVE TypeOK'
  BY <1>0, <1>9, ConstantsAssumption DEF Results, StoreContended, Goto
<1>10. ASSUME NEW p \in Advancers, Return(p) PROVE TypeOK'
  BY <1>0, <1>10, ConstantsAssumption DEF Results, Return, Goto
<1>11. ASSUME NEW p \in Advancers, RejectOrphan(p) PROVE TypeOK'
  BY <1>0, <1>11, ConstantsAssumption DEF Results, RejectOrphan, Goto
<1>12. ASSUME NEW p \in Advancers, WriteFails(p) PROVE TypeOK'
  <2>1. draft[p] \in Data /\ draft[p].id \in RunId
    BY <1>12 DEF WriteFails, Data
  <2>2. SelectorOf(draft[p]) \in Selector
    BY <2>1 DEF SelectorOf, Selector
  <2> QED
    BY <1>0, <1>12, <2>1, <2>2 DEF Results, WriteFails, StoreDraft, Goto
<1>13. ASSUME NEW p \in Advancers, Progress(p) PROVE TypeOK'
  BY <1>0, <1>13, ConstantsAssumption DEF Results, Progress, Goto, Operation
<1>14. ASSUME NEW p \in Advancers, UnlockAdvance(p) PROVE TypeOK'
  BY <1>0, <1>14, ConstantsAssumption DEF Results, UnlockAdvance, Goto
<1>15. ASSUME NEW p \in Advancers, UnlockOperation(p) PROVE TypeOK'
  BY <1>0, <1>15, ConstantsAssumption, EmptyLocalsTyped DEF Results, UnlockOperation, Forget, Goto
<1>16. ASSUME NEW p \in Advancers, Crash(p) PROVE TypeOK'
  BY <1>0, <1>16, ConstantsAssumption, EmptyLocalsTyped DEF Results, Crash, Forget, Goto, Operation
<1>17. ASSUME NEW p \in Advancers, Resolve(p) PROVE TypeOK'
  BY <1>0, <1>17, ConstantsAssumption DEF Results, Resolve, Goto, Operation, TerminalState
<1>18. ASSUME NEW p \in Advancers, ResolveFails(p) PROVE TypeOK'
  BY <1>0, <1>18, ConstantsAssumption DEF Results, ResolveFails, Goto, Operation, TerminalState
<1>19. ASSUME NEW p \in Advancers, NEW r \in {"failed", "cancelled"}, Abort(p, r) PROVE TypeOK'
  BY <1>0, <1>19 DEF Results, Abort, Goto
<1>20. ASSUME NEW p \in Advancers, LoadActive(p) PROVE TypeOK'
  <2>1. ActiveData \in Data \cup {NoData}
    BY <1>20 DEF LoadActive, ActiveData, Readable, Content, Selector
  <2>2. [seen[p] EXCEPT !.authority = authority, !.record = ActiveData] \in Seen
    BY <2>1 DEF Seen
  <2> QED
    BY <1>0, <1>20, <2>2 DEF LoadActive, Goto
<1>21. ASSUME NEW p \in Advancers, NEW phase \in Phases, Revise(p, phase) PROVE TypeOK'
  <2>1. seen[p].record \in Data /\ op[p].id \in Nat
    BY <1>21 DEF Revise, Seen, Operation
  <2>2. Revised(seen[p].record, phase, op[p].id) \in Data
    BY <2>1, RevisedTyped
  <2> QED
    BY <1>0, <1>21, <2>2, PlaceholderAssumption DEF Revise, Goto, PlaceholderAssumption
<1>22. ASSUME NEW p \in Advancers, StartRun(p) PROVE TypeOK'
  <2>1. NewRun(p) \in Data
    BY NewRunTyped
  <2> QED
    BY <1>0, <1>22, <2>1, PlaceholderAssumption DEF StartRun, Goto, PlaceholderAssumption
<1>23. ASSUME NEW p \in Advancers, AdoptOrphan(p) PROVE TypeOK'
  BY <1>0, <1>23, PlaceholderAssumption DEF AdoptOrphan, Goto, PlaceholderAssumption
<1>24. ASSUME NEW p \in Advancers, WriteFile(p) PROVE TypeOK'
  <2>1. draft[p] \in Data /\ draft[p].id \in RunId
    BY <1>24 DEF WriteFile, Data
  <2> QED
    BY <1>0, <1>24, <2>1 DEF WriteFile, StoreDraft, Goto
<1>25. ASSUME NEW p \in Advancers, Activate(p) PROVE TypeOK'
  <2>1. draft[p] \in Data /\ draft[p].id \in RunId
    BY <1>25 DEF Activate, Data
  <2>2. SelectorOf(draft[p]) \in Selector
    BY <2>1 DEF SelectorOf, Selector
  <2>3. [seen[p] EXCEPT !.record = draft[p]] \in Seen
    BY <2>1 DEF Seen
  <2> QED
    BY <1>0, <1>25, <2>2, <2>3 DEF Activate, Goto, Results
<1>26. ASSUME NEW o \in Observers, Observe(o) PROVE TypeOK'
  <2>1. ASSUME NEW label \in {"select", "probe"}, Share(o, label) PROVE TypeOK'
    BY <2>1 DEF Share, ObserverGoto, ObserverLabels
  <2>2. ASSUME SelectActive(o) PROVE TypeOK'
    BY <2>2 DEF SelectActive, ObserverGoto, ObserverLabels
  <2>3. ASSUME LoadSelected(o) PROVE TypeOK'
    <3>1. Content(selected[o]) \in Data
      BY <2>3 DEF LoadSelected, Content, Readable, Selector
    <3> QED
      BY <2>3, <3>1 DEF LoadSelected, ObserverGoto, ObserverLabels
  <2>4. ASSUME Unshare(o) PROVE TypeOK'
    BY <2>4 DEF Unshare, ObserverGoto, ObserverLabels
  <2>5. ASSUME EndProbe(o) PROVE TypeOK'
    BY <2>5 DEF EndProbe, ObserverGoto, ObserverLabels
  <2> QED
    BY <1>26, <2>1, <2>2, <2>3, <2>4, <2>5 DEF Observe
<1>27. ASSUME Environment PROVE TypeOK'
  BY <1>27 DEF Environment, EditIssue, MoveMain
<1>28. ASSUME UNCHANGED vars PROVE TypeOK'
  BY <1>28 DEF Content, Readable
<1>29. ASSUME NEW p \in Advancers, ProgressFails(p) PROVE TypeOK'
  BY <1>0, <1>29, ConstantsAssumption DEF Results, ProgressFails, Goto, Operation
<1> QED
  BY <1>1, <1>2, <1>3, <1>4, <1>5, <1>6, <1>7, <1>8, <1>9, <1>10, <1>11, <1>12, <1>13, <1>14,
     <1>15, <1>16, <1>17, <1>18, <1>19, <1>20, <1>21, <1>22, <1>23, <1>24, <1>25, <1>26, <1>27,
     <1>28, <1>29 DEF Next, Work, Fault

\* Type correctness of every reachable state.
THEOREM TypeCorrect == Spec => []TypeOK
<1>1. Init => TypeOK
  BY InitTyped
<1>2. TypeOK /\ [Next]_vars => TypeOK'
  BY TypedStep
<1> QED
  BY <1>1, <1>2, PTL DEF Spec

-------------------------------------------------------------------------------
(* The flocks *)

LEMMA ExclusionStep == TypeOK /\ Exclusion /\ [Next]_vars => Exclusion'
<1> SUFFICES ASSUME TypeOK, Exclusion, [Next]_vars PROVE Exclusion'
  OBVIOUS
<1> USE DEF Exclusion, HoldsOperation, HoldsAdvance, InFn, locks, observation, vars
<1>0. /\ LocksTyped
      /\ pc \in [Advancers -> Labels] /\ opc \in [Observers -> ObserverLabels]
      /\ NoOne \notin Advancers
  BY ConstantsAssumption
     DEF TypeOK, InvocationsTyped, ObserversTyped, ConstantsAssumption
<1> USE DEF LocksTyped, Labels, ObserverLabels
<1>1. ASSUME NEW p \in Advancers, Begin(p) PROVE Exclusion'
  BY <1>0, <1>1 DEF Begin, Goto
<1>2. ASSUME NEW p \in Advancers, LockOperation(p) PROVE Exclusion'
  BY <1>0, <1>2 DEF LockOperation, Goto
<1>3. ASSUME NEW p \in Advancers, OperationLockBusy(p) PROVE Exclusion'
  BY <1>0, <1>3 DEF OperationLockBusy, Forget, Goto
<1>4. ASSUME NEW p \in Advancers, StoreOperation(p) PROVE Exclusion'
  BY <1>0, <1>4 DEF StoreOperation, Goto
<1>5. ASSUME NEW p \in Advancers, StoreOperationFails(p) PROVE Exclusion'
  BY <1>0, <1>5 DEF StoreOperationFails, Goto
<1>6. ASSUME NEW p \in Advancers, LockAdvance(p) PROVE Exclusion'
  BY <1>0, <1>6 DEF LockAdvance, Goto
<1>7. ASSUME NEW p \in Advancers, AdvanceLockBusy(p) PROVE Exclusion'
  BY <1>0, <1>7 DEF AdvanceLockBusy, Goto
<1>8. ASSUME NEW p \in Advancers, AdvanceLockFails(p) PROVE Exclusion'
  BY <1>0, <1>8 DEF AdvanceLockFails, Goto
<1>9. ASSUME NEW p \in Advancers, StoreContended(p) PROVE Exclusion'
  BY <1>0, <1>9 DEF StoreContended, Goto
<1>10. ASSUME NEW p \in Advancers, LoadActive(p) PROVE Exclusion'
  BY <1>0, <1>10 DEF LoadActive, Goto
<1>11. ASSUME NEW p \in Advancers, Return(p) PROVE Exclusion'
  BY <1>0, <1>11 DEF Return, Goto
<1>12. ASSUME NEW p \in Advancers, StartRun(p) PROVE Exclusion'
  BY <1>0, <1>12 DEF StartRun, Requalifies, Goto
<1>13. ASSUME NEW p \in Advancers, AdoptOrphan(p) PROVE Exclusion'
  BY <1>0, <1>13 DEF AdoptOrphan, Requalifies, Goto
<1>14. ASSUME NEW p \in Advancers, RejectOrphan(p) PROVE Exclusion'
  BY <1>0, <1>14 DEF RejectOrphan, Requalifies, Goto
<1>15. ASSUME NEW p \in Advancers, WriteFile(p) PROVE Exclusion'
  BY <1>0, <1>15 DEF WriteFile, Goto
<1>16. ASSUME NEW p \in Advancers, Activate(p) PROVE Exclusion'
  BY <1>0, <1>16 DEF Activate, Goto
<1>17. ASSUME NEW p \in Advancers, WriteFails(p) PROVE Exclusion'
  BY <1>0, <1>17 DEF WriteFails, Goto
<1>18. ASSUME NEW p \in Advancers, Progress(p) PROVE Exclusion'
  BY <1>0, <1>18 DEF Progress, Goto
<1>19. ASSUME NEW p \in Advancers, Resolve(p) PROVE Exclusion'
  BY <1>0, <1>19 DEF Resolve, Goto
<1>20. ASSUME NEW p \in Advancers, ResolveFails(p) PROVE Exclusion'
  BY <1>0, <1>20 DEF ResolveFails, Goto
<1>21. ASSUME NEW p \in Advancers, UnlockAdvance(p) PROVE Exclusion'
  BY <1>0, <1>21 DEF UnlockAdvance, Goto
<1>22. ASSUME NEW p \in Advancers, UnlockOperation(p) PROVE Exclusion'
  BY <1>0, <1>22 DEF UnlockOperation, Forget, Goto
<1>23. ASSUME NEW p \in Advancers, Crash(p) PROVE Exclusion'
  BY <1>0, <1>23 DEF Crash, Forget, Goto
<1>24. ASSUME NEW p \in Advancers, NEW r \in {"failed", "cancelled"}, Abort(p, r)
        PROVE  Exclusion'
  BY <1>0, <1>24 DEF Abort, Goto
<1>25. ASSUME NEW p \in Advancers, NEW phase \in Phases, Revise(p, phase) PROVE Exclusion'
  BY <1>0, <1>25 DEF Revise, Goto
<1>26. ASSUME NEW o \in Observers, Observe(o) PROVE Exclusion'
  BY <1>0, <1>26
     DEF Observe, Share, SelectActive, LoadSelected, Unshare, EndProbe, ObserverGoto, invocation
<1>27. ASSUME Environment PROVE Exclusion'
  BY <1>27 DEF Environment, EditIssue, MoveMain, invocation
<1>28. ASSUME UNCHANGED vars PROVE Exclusion'
  BY <1>28 DEF invocation
<1>29. ASSUME NEW p \in Advancers, ProgressFails(p) PROVE Exclusion'
  BY <1>0, <1>29 DEF ProgressFails, Goto
<1> QED
  BY <1>1, <1>2, <1>3, <1>4, <1>5, <1>6, <1>7, <1>8, <1>9, <1>10, <1>11, <1>12, <1>13, <1>14, <1>15, <1>16, <1>17, <1>18, <1>19, <1>20, <1>21, <1>22, <1>23, <1>24, <1>25, <1>26, <1>27, <1>28, <1>29 DEF Next, Work, Fault

-------------------------------------------------------------------------------
(* Files, readers and writers *)

Store == Named /\ Drafted /\ ActiveReadable /\ WriterHoldsCurrent /\ ObserverSnapshot

LEMMA ActiveFacts ==
    ASSUME IInv
    PROVE  /\ active = NoRun => ActiveData = NoData
           /\ active # NoRun => /\ ActiveData \in Data /\ ActiveData # NoData
                                /\ ActiveData.id = active.run
                                /\ active.run \in DOMAIN runs
                                /\ Len(ActiveData.trail) \in Nat \ {0}
<1>1. CASE active = NoRun
  BY <1>1 DEF ActiveData
<1>2. CASE active # NoRun
  <2>1. Readable(active) /\ ActiveData = Content(active)
    BY <1>2 DEF IInv, ActiveReadable, ActiveData
  <2>2. active.run \in DOMAIN runs /\ ActiveData \in Data
    BY <1>2, <2>1 DEF Readable, Content, IInv, TypeOK, FilesTyped
  <2>3. ActiveData.id = active.run /\ Len(ActiveData.trail) >= 1
    BY <1>2, <2>1, <2>2 DEF Readable, Content, IInv, Named, IsRun
  <2>4. Len(ActiveData.trail) \in Nat
    BY <2>2 DEF Data
  <2> QED
    BY <1>2, <2>2, <2>3, <2>4, PlaceholderAssumption DEF PlaceholderAssumption
<1> QED
  BY <1>1, <1>2

\* A step of p that touches no run file and neither loads nor drafts a record.
LEMMA QuietStep ==
    ASSUME IInv, NEW p \in Advancers,
           UNCHANGED <<runs, revisions, active, opc, selected, loaded>>,
           \A q \in Advancers \ {p} :
               pc'[q] = pc[q] /\ seen'[q] = seen[q] /\ draft'[q] = draft[q],
           pc'[p] \notin {"write", "activate"},
           pc'[p] \in InFn \ {"read"} =>
               pc[p] \in InFn \ {"read"} /\ seen'[p].record = seen[p].record
    PROVE  Store' /\ ActiveData' = ActiveData
<1>1. ActiveData' = ActiveData
  BY DEF ActiveData, Content
<1>2. Named' /\ ActiveReadable'
  BY DEF IInv, Named, ActiveReadable, Readable
<1>3. Drafted'
  BY DEF IInv, Drafted, Readable, Content
<1>4. WriterHoldsCurrent' /\ ObserverSnapshot'
  BY <1>1 DEF IInv, WriterHoldsCurrent, ObserverSnapshot
<1> QED
  BY <1>1, <1>2, <1>3, <1>4 DEF Store

\* advance.lock makes the process that runs the callback the only one that does.
LEMMA OneWriter ==
    ASSUME IInv, NEW p \in Advancers, pc[p] \in HoldsAdvance
    PROVE  /\ \A q \in Advancers \ {p} : pc[q] \notin HoldsAdvance
           /\ \A o \in Observers : opc[o] = "idle"
BY ConstantsAssumption DEF IInv, Exclusion, ConstantsAssumption

LEMMA ReviseStep ==
    ASSUME IInv, NEW p \in Advancers, NEW phase \in Phases, Revise(p, phase)
    PROVE  Store' /\ ActiveData' = ActiveData
<1> DEFINE r == seen[p].record
           d == Revised(r, phase, op[p].id)
<1>1. /\ UNCHANGED <<runs, revisions, active, opc, selected, loaded, seen>>
      /\ pc' = [pc EXCEPT ![p] = "write"] /\ draft' = [draft EXCEPT ![p] = d]
      /\ pc[p] \in InFn \ {"read"}
  BY DEF Revise, Goto, files, observation, InFn
<1>2. ActiveData' = ActiveData
  BY <1>1 DEF ActiveData, Content
<1>3. /\ pc \in [Advancers -> Labels] /\ draft \in [Advancers -> Data \cup {NoData}]
      /\ seen \in [Advancers -> Seen] /\ op[p].id \in Nat
  BY DEF IInv, TypeOK, InvocationsTyped, Operation
<1>4. r \in Data /\ r.phase # "completed" /\ r.id \in DOMAIN runs /\ r # NoData
  BY <1>3 DEF Revise, Seen
<1>5. d \in Data /\ d # NoData /\ Len(d.trail) = Len(r.trail) + 1
  BY <1>3, <1>4, RevisedTyped, PlaceholderAssumption DEF PlaceholderAssumption
<1>6. Len(r.trail) \in Nat \ {0}
  BY <1>1, <1>4, ActiveFacts DEF IInv, WriterHoldsCurrent
<1>7. Register!Publishes(r, d)
  <2>1. r.trail \in Seq(Nat) /\ d.trail = Append(r.trail, op[p].id)
    BY <1>4 DEF Revised, Data
  <2>2. d.trail # <<>> /\ d.trail = Append(r.trail, d.trail[Len(d.trail)])
    BY <1>3, <2>1
  <2> QED
    BY <1>4, <1>5, <2>2 DEF Register!Publishes, Register!Revises, Revised
<1>8. d.id = r.id /\ ~IsRun(d)
  BY <1>5, <1>6 DEF Revised, IsRun
<1>9. Drafted'
  <2>1. ASSUME NEW q \in Advancers, q # p
        PROVE  /\ pc'[q] = pc[q] /\ seen'[q] = seen[q] /\ draft'[q] = draft[q]
               /\ pc[q] \notin {"write", "activate"}
    BY <1>1, <1>3, <2>1, OneWriter DEF HoldsAdvance, InFn
  <2>2. pc'[p] = "write" /\ draft'[p] = d /\ seen'[p].record = r
    BY <1>1, <1>3
  <2> HIDE DEF d, r
  <2> QED
    BY <1>1, <1>4, <1>7, <1>8, <2>1, <2>2 DEF Drafted
<1>10. Named' /\ ActiveReadable'
  BY <1>1 DEF IInv, Named, ActiveReadable, Readable
<1>11. WriterHoldsCurrent' /\ ObserverSnapshot'
  BY <1>1, <1>2, <1>3 DEF IInv, WriterHoldsCurrent, ObserverSnapshot
<1> QED
  BY <1>2, <1>9, <1>10, <1>11 DEF Store

\* What qualification may publish: the first record of a new run.
LEMMA RequalifiedPublishes ==
    ASSUME IInv, NEW p \in Advancers, Requalifies(p),
           NEW d \in Data, d.id = NewRun(p).id, d.phase = "open", IsRun(d)
    PROVE  Register!Publishes(seen[p].record, d)
<1> DEFINE r == seen[p].record
<1>1. /\ d # NoData /\ Register!First(d) /\ seen[p].authority \in Authorities
      /\ r \in Data \cup {NoData}
  BY PlaceholderAssumption
     DEF Register!First, IsRun, IInv, TypeOK, InvocationsTyped, Seen, PlaceholderAssumption
<1>2. d.id = RunIdentity(seen[p].authority, r)
  BY DEF NewRun
<1>3. CASE r = NoData
  BY <1>1, <1>2, <1>3 DEF RunIdentity, Register!Publishes
<1>4. CASE r # NoData
  <2>1. d.id = Append(r.id, seen[p].authority) /\ r.phase # "completed"
    BY <1>2, <1>4 DEF RunIdentity, Requalifies
  <2> QED
    BY <1>1, <1>4, <2>1 DEF Register!Publishes, Register!Supersedes
<1> QED
  BY <1>3, <1>4

LEMMA LoadActiveStep ==
    ASSUME IInv, NEW p \in Advancers, LoadActive(p)
    PROVE  Store' /\ ActiveData' = ActiveData
<1>1. /\ UNCHANGED <<runs, revisions, active, opc, selected, loaded, draft>>
      /\ pc' = [pc EXCEPT ![p] = "decide"]
      /\ seen' = [seen EXCEPT ![p].authority = authority, ![p].record = ActiveData]
  BY DEF LoadActive, Goto, files, observation
<1>2. pc \in [Advancers -> Labels] /\ seen \in [Advancers -> Seen]
  BY DEF IInv, TypeOK, InvocationsTyped
<1>3. ActiveData' = ActiveData
  BY <1>1 DEF ActiveData, Content
<1>4. pc'[p] = "decide" /\ seen'[p].record = ActiveData
  BY <1>1, <1>2 DEF Seen
<1>5. \A q \in Advancers \ {p} : pc'[q] = pc[q] /\ seen'[q] = seen[q]
  BY <1>1, <1>2
<1>6. Named' /\ ActiveReadable' /\ ObserverSnapshot'
  BY <1>1, <1>3 DEF IInv, Named, ActiveReadable, Readable, ObserverSnapshot
<1>7. Drafted'
  BY <1>1, <1>4, <1>5 DEF IInv, Drafted, Readable, Content
<1>8. WriterHoldsCurrent'
  BY <1>3, <1>4, <1>5 DEF IInv, WriterHoldsCurrent
<1> QED
  BY <1>3, <1>6, <1>7, <1>8 DEF Store

LEMMA StartRunStep ==
    ASSUME IInv, NEW p \in Advancers, StartRun(p) \/ AdoptOrphan(p)
    PROVE  Store' /\ ActiveData' = ActiveData
<1>1. /\ UNCHANGED <<runs, revisions, active, opc, selected, loaded, seen>>
      /\ pc[p] = "decide" /\ Requalifies(p)
  BY DEF StartRun, AdoptOrphan, Requalifies, files, observation
<1>2. /\ pc \in [Advancers -> Labels] /\ draft \in [Advancers -> Data \cup {NoData}]
      /\ TypeOK /\ FilesTyped
  BY DEF IInv, TypeOK, InvocationsTyped
<1>3. ActiveData' = ActiveData
  BY <1>1 DEF ActiveData, Content
<1>4. ASSUME NEW q \in Advancers, q # p
      PROVE  /\ pc'[q] = pc[q] /\ seen'[q] = seen[q] /\ draft'[q] = draft[q]
             /\ pc[q] \notin {"write", "activate"}
  BY <1>1, <1>2, <1>4, OneWriter DEF HoldsAdvance, InFn, StartRun, AdoptOrphan, Goto
<1>5. ASSUME StartRun(p) PROVE Drafted'
  <2>1. /\ pc'[p] = "write" /\ draft'[p] = NewRun(p) /\ seen'[p] = seen[p]
        /\ NewRun(p).id \notin DOMAIN runs
    BY <1>1, <1>2, <1>5 DEF StartRun, Goto
  <2>2. NewRun(p) \in Data /\ NewRun(p).phase = "open" /\ IsRun(NewRun(p))
    <3>1. NewRun(p) \in Data /\ NewRun(p).phase = "open" /\ NewRun(p).trail = <<op[p].id>>
      BY <1>2, NewRunTyped
    <3>2. Len(<<op[p].id>>) = 1
      OBVIOUS
    <3> QED
      BY <3>1, <3>2 DEF IsRun
  <2>3. Register!Publishes(seen[p].record, NewRun(p))
    BY <1>1, <2>2, RequalifiedPublishes
  <2> QED
    BY <1>1, <1>4, <2>1, <2>2, <2>3 DEF Drafted
<1>6. ASSUME AdoptOrphan(p) PROVE Drafted'
  <2> DEFINE d == runs[NewRun(p).id]
  <2>1. /\ pc'[p] = "activate" /\ draft'[p] = d /\ seen'[p] = seen[p]
        /\ NewRun(p).id \in DOMAIN runs
    BY <1>1, <1>2, <1>6 DEF AdoptOrphan, Goto
  <2>2. d \in Data /\ d.id = NewRun(p).id /\ d.phase = "open" /\ IsRun(d)
    BY <1>2, <2>1 DEF FilesTyped, IInv, Named
  <2>3. Register!Publishes(seen[p].record, d)
    BY <1>1, <2>2, RequalifiedPublishes
  <2>4. Readable(SelectorOf(d)) /\ Content(SelectorOf(d)) = d
    BY <2>1, <2>2 DEF Readable, Content, SelectorOf
  <2> HIDE DEF d
  <2> QED
    BY <1>1, <1>4, <2>1, <2>3, <2>4 DEF Drafted, Readable, Content, SelectorOf, IsRun
<1>7. Named' /\ ActiveReadable'
  BY <1>1 DEF IInv, Named, ActiveReadable, Readable
<1>8. WriterHoldsCurrent' /\ ObserverSnapshot'
  BY <1>1, <1>3, <1>4 DEF IInv, WriterHoldsCurrent, ObserverSnapshot, InFn
<1> QED
  BY <1>3, <1>5, <1>6, <1>7, <1>8 DEF Store

\* Writing a file adds it and changes no other: what was readable still is.
LEMMA StoreDraftStep ==
    ASSUME IInv, NEW p \in Advancers, NEW l \in {"activate", "resolve"},
           pc[p] = "write", StoreDraft(draft[p]), pc' = [pc EXCEPT ![p] = l],
           UNCHANGED <<active, opc, selected, loaded, seen, draft>>
    PROVE  Store' /\ ActiveData' = ActiveData
<1> DEFINE d == draft[p]
           r == seen[p].record
<1>1. /\ UNCHANGED <<active, opc, selected, loaded, seen, draft>>
      /\ pc[p] = "write" /\ pc' = [pc EXCEPT ![p] = l]
  OBVIOUS
<1>2. /\ pc \in [Advancers -> Labels] /\ d \in Data /\ FilesTyped
      /\ r \in Data \cup {NoData}
  BY <1>1 DEF IInv, TypeOK, InvocationsTyped, Seen
<1>3. /\ \A q \in Advancers \ {p} : pc'[q] = pc[q] /\ pc[q] \notin HoldsAdvance
      /\ \A o \in Observers : opc[o] = "idle"
  BY <1>1, <1>2, OneWriter DEF HoldsAdvance, InFn
<1>4. /\ Register!Publishes(r, d) /\ (d.id \in DOMAIN runs <=> ~IsRun(d))
      /\ r = ActiveData
  BY <1>1 DEF IInv, Drafted, WriterHoldsCurrent, InFn
<1>5. IsRun(d) => /\ d.phase = "open"
                  /\ Len(d.id) > 1 => SubSeq(d.id, 1, Len(d.id) - 1) \in DOMAIN runs
  <2> SUFFICES ASSUME IsRun(d)
               PROVE  /\ d.phase = "open"
                      /\ Len(d.id) > 1 => SubSeq(d.id, 1, Len(d.id) - 1) \in DOMAIN runs
    OBVIOUS
  <2>1. CASE r = NoData
    <3>1. Register!First(d) /\ Len(d.id) = 1
      BY <1>4, <2>1 DEF Register!Publishes
    <3> QED
      BY <3>1 DEF Register!First
  <2>2. CASE r # NoData
    <3>1. /\ r \in Data /\ Len(r.trail) \in Nat \ {0} /\ r.id \in DOMAIN runs
          /\ r.id \in Seq(Authorities)
      BY <1>2, <1>4, <2>2, ActiveFacts DEF Data, RunId
    <3>2. ~Register!Revises(r, d)
      <4>1. r.trail \in Seq(Nat)
        BY <3>1 DEF Data
      <4>2. \A x : Len(Append(r.trail, x)) = Len(r.trail) + 1
        BY <4>1
      <4> QED
        BY <3>1, <4>2 DEF Register!Revises, IsRun
    <3>3. PICK a \in Authorities : d.id = Append(r.id, a)
      BY <1>4, <2>2, <3>2 DEF Register!Publishes, Register!Supersedes
    <3>4. SubSeq(d.id, 1, Len(d.id) - 1) = r.id
      BY <3>1, <3>3
    <3>5. d.phase = "open"
      BY <1>4, <2>2, <3>2 DEF Register!Publishes, Register!Supersedes, Register!First
    <3> QED
      BY <3>1, <3>4, <3>5
  <2> QED
    BY <2>1, <2>2
<1>6. /\ DOMAIN runs \subseteq DOMAIN runs'
      /\ \A i \in DOMAIN runs : runs'[i] = runs[i]
      /\ \A i \in DOMAIN runs' \ DOMAIN runs : IsRun(d) /\ i = d.id /\ runs'[i] = d
      /\ revisions \subseteq revisions'
      /\ \A e \in revisions' \ revisions : e = d /\ ~IsRun(d)
      /\ IsRun(d) => d.id \in DOMAIN runs' /\ runs'[d.id] = d
      /\ ~IsRun(d) => d \in revisions'
  BY <1>4 DEF StoreDraft
<1>6a. d' = d
  BY <1>1
<1> HIDE DEF d, r
<1>7. ActiveData' = ActiveData
  <2>1. CASE active = NoRun
    BY <1>1, <2>1 DEF ActiveData
  <2>2. CASE active # NoRun
    BY <1>1, <1>6, <2>2, ActiveFacts DEF ActiveData, Content
  <2> QED
    BY <2>1, <2>2
<1>8. ~IsRun(d) => Len(d.trail) > 1
  <2> SUFFICES ASSUME ~IsRun(d) PROVE Len(d.trail) > 1
    OBVIOUS
  <2>1. r # NoData /\ Register!Revises(r, d)
    BY <1>4 DEF Register!Publishes, Register!First, Register!Supersedes, IsRun
  <2>2. r.trail \in Seq(Nat) /\ Len(r.trail) \in Nat \ {0}
    BY <1>2, <1>4, <2>1, ActiveFacts DEF Data
  <2>3. \A x : Len(Append(r.trail, x)) = Len(r.trail) + 1
    BY <2>2
  <2> QED
    BY <2>1, <2>2, <2>3 DEF Register!Revises
<1>9. Named'
  BY <1>1, <1>5, <1>6, <1>8 DEF IInv, Named, IsRun
<1>10. ActiveReadable'
  <2>1. active' # NoRun => Readable(active)'
    BY <1>1, <1>6 DEF IInv, ActiveReadable, Readable
  <2>2. ASSUME NEW i \in DOMAIN runs', Len(i) > 1
        PROVE  SubSeq(i, 1, Len(i) - 1) \in DOMAIN runs'
    <3>1. CASE i \in DOMAIN runs
      BY <1>6, <2>2, <3>1 DEF IInv, ActiveReadable
    <3>2. CASE i \notin DOMAIN runs
      BY <1>5, <1>6, <2>2, <3>2
    <3> QED
      BY <3>1, <3>2
  <2> QED
    BY <2>1, <2>2 DEF ActiveReadable
<1>11. Drafted'
  <2>1. draft'[p] = d /\ seen'[p].record = r /\ pc'[p] = l
    BY <1>1, <1>2 DEF d, r
  <2>2. Readable(SelectorOf(d))' /\ Content(SelectorOf(d))' = d
    <3>1. CASE IsRun(d)
      BY <1>6, <1>6a, <3>1 DEF Readable, Content, SelectorOf, IsRun
    <3>2. CASE ~IsRun(d)
      BY <1>2, <1>4, <1>6, <1>6a, <3>2, PlaceholderAssumption
         DEF Readable, Content, SelectorOf, IsRun, PlaceholderAssumption
    <3> QED
      BY <3>1, <3>2
  <2>3. \A q \in Advancers \ {p} : pc'[q] \notin {"write", "activate"}
    BY <1>3 DEF HoldsAdvance, InFn
  <2> QED
    BY <1>4, <1>6a, <2>1, <2>2, <2>3 DEF Drafted, Readable, Content, SelectorOf, IsRun
<1>12. WriterHoldsCurrent' /\ ObserverSnapshot'
  BY <1>1, <1>3, <1>4, <1>7 DEF WriterHoldsCurrent, ObserverSnapshot, InFn, HoldsAdvance, r
<1> QED
  BY <1>7, <1>9, <1>10, <1>11, <1>12 DEF Store

LEMMA ActivateStep ==
    ASSUME IInv, NEW p \in Advancers, pc[p] = "activate",
           active' = SelectorOf(draft[p]), pc'[p] \notin {"write", "activate"},
           pc'[p] \in InFn => seen'[p].record = draft[p],
           \A q \in Advancers \ {p} : pc'[q] = pc[q] /\ seen'[q] = seen[q],
           UNCHANGED <<runs, revisions, opc, selected, loaded, draft>>
    PROVE  Store' /\ Register!Publishes(ActiveData, ActiveData')
<1> DEFINE d == draft[p]
<1>1. /\ UNCHANGED <<runs, revisions, opc, selected, loaded, draft>>
      /\ active' = SelectorOf(d)
      /\ pc[p] = "activate" /\ pc'[p] \notin {"write", "activate"}
      /\ pc'[p] \in InFn => seen'[p].record = d
      /\ \A q \in Advancers \ {p} : pc'[q] = pc[q] /\ seen'[q] = seen[q]
  OBVIOUS
<1>2. /\ \A q \in Advancers \ {p} : pc[q] \notin HoldsAdvance
      /\ \A o \in Observers : opc[o] = "idle"
  BY <1>1, OneWriter DEF HoldsAdvance, InFn
<1>3. /\ Register!Publishes(seen[p].record, d) /\ seen[p].record = ActiveData
      /\ Readable(SelectorOf(d)) /\ Content(SelectorOf(d)) = d
      /\ d \in Data
  BY <1>1 DEF IInv, TypeOK, InvocationsTyped, Drafted, WriterHoldsCurrent, InFn
<1> HIDE DEF d
<1>4. SelectorOf(d) # NoRun
  BY <1>3, PlaceholderAssumption
     DEF SelectorOf, Selector, Data, PlaceholderAssumption
<1>5. Readable(active)' /\ ActiveData' = d
  BY <1>1, <1>3, <1>4 DEF Readable, ActiveData, Content, SelectorOf, IsRun
<1>6. Named'
  BY <1>1, <1>3 DEF IInv, Named, SelectorOf, IsRun
<1>7. ActiveReadable'
  BY <1>1, <1>5 DEF IInv, ActiveReadable
<1>8. Drafted'
  BY <1>1, <1>2 DEF Drafted, HoldsAdvance, InFn
<1>9. WriterHoldsCurrent' /\ ObserverSnapshot'
  BY <1>1, <1>2, <1>5 DEF WriterHoldsCurrent, ObserverSnapshot, HoldsAdvance, InFn
<1> QED
  BY <1>3, <1>5, <1>6, <1>7, <1>8, <1>9 DEF Store

LEMMA ObserveStep ==
    ASSUME IInv, NEW o \in Observers, Observe(o)
    PROVE  Store' /\ ActiveData' = ActiveData
<1>1. UNCHANGED <<runs, revisions, active, pc, seen, draft>>
  BY DEF Observe, Share, SelectActive, LoadSelected, Unshare, EndProbe, files, invocation
<1>2. ActiveData' = ActiveData
  BY <1>1 DEF ActiveData, Content
<1>3. Named' /\ ActiveReadable' /\ WriterHoldsCurrent'
  BY <1>1, <1>2 DEF IInv, Named, ActiveReadable, Readable, WriterHoldsCurrent
<1>4. Drafted'
  BY <1>1 DEF IInv, Drafted, Readable, Content
<1>5. ObserverSnapshot'
  <2>1. /\ opc \in [Observers -> ObserverLabels]
        /\ selected \in [Observers -> Selector \cup {NoRun}]
        /\ loaded \in [Observers -> Data \cup {NoData}]
        /\ \A x \in Observers : opc[x] = "load" => selected[x] # NoRun
    BY DEF IInv, TypeOK, ObserversTyped
  <2>2. ASSUME LoadSelected(o) PROVE loaded'[o] = ActiveData
    BY <2>1, <2>2 DEF LoadSelected, IInv, ObserverSnapshot, ActiveData
  <2> QED
    BY <1>1, <1>2, <2>1, <2>2
       DEF IInv, ObserverSnapshot, Observe, Share, SelectActive, LoadSelected, Unshare, EndProbe,
           ObserverGoto
<1> QED
  BY <1>2, <1>3, <1>4, <1>5 DEF Store

\* Every step keeps the invariant and treats the register as it promises.
LEMMA StoreStep ==
    ASSUME IInv, [Next]_vars
    PROVE  Store' /\ (ActiveData' = ActiveData \/ Register!Publishes(ActiveData, ActiveData'))
<1> DEFINE Goal == Store' /\ (ActiveData' = ActiveData \/ Register!Publishes(ActiveData, ActiveData'))
<1>0. /\ pc \in [Advancers -> Labels] /\ seen \in [Advancers -> Seen]
      /\ draft \in [Advancers -> Data \cup {NoData}]
  BY DEF IInv, TypeOK, InvocationsTyped
<1> USE DEF files, observation, InFn, Goto
<1>1. ASSUME NEW p \in Advancers, Begin(p) PROVE Goal
  BY <1>0, <1>1, QuietStep DEF Begin, Seen
<1>2. ASSUME NEW p \in Advancers, LockOperation(p) PROVE Goal
  BY <1>0, <1>2, QuietStep DEF LockOperation
<1>3. ASSUME NEW p \in Advancers, OperationLockBusy(p) PROVE Goal
  BY <1>0, <1>3, QuietStep DEF OperationLockBusy, Forget
<1>4. ASSUME NEW p \in Advancers, StoreOperation(p) PROVE Goal
  BY <1>0, <1>4, QuietStep DEF StoreOperation
<1>5. ASSUME NEW p \in Advancers, StoreOperationFails(p) PROVE Goal
  BY <1>0, <1>5, QuietStep DEF StoreOperationFails
<1>6. ASSUME NEW p \in Advancers, LockAdvance(p) PROVE Goal
  BY <1>0, <1>6, QuietStep DEF LockAdvance
<1>7. ASSUME NEW p \in Advancers, AdvanceLockBusy(p) PROVE Goal
  BY <1>0, <1>7, QuietStep DEF AdvanceLockBusy
<1>8. ASSUME NEW p \in Advancers, AdvanceLockFails(p) PROVE Goal
  BY <1>0, <1>8, QuietStep DEF AdvanceLockFails
<1>9. ASSUME NEW p \in Advancers, StoreContended(p) PROVE Goal
  BY <1>0, <1>9, QuietStep DEF StoreContended
<1>10. ASSUME NEW p \in Advancers, Return(p) PROVE Goal
  BY <1>0, <1>10, QuietStep DEF Return
<1>11. ASSUME NEW p \in Advancers, RejectOrphan(p) PROVE Goal
  BY <1>0, <1>11, QuietStep DEF RejectOrphan
<1>12. ASSUME NEW p \in Advancers, WriteFails(p) PROVE Goal
  <2>1. CASE UNCHANGED <<runs, revisions, active>>
    BY <1>0, <1>12, <2>1, QuietStep DEF WriteFails
  <2>2. CASE pc[p] = "write" /\ StoreDraft(draft[p]) /\ UNCHANGED active
    BY <1>12, <2>2, StoreDraftStep DEF WriteFails
  <2>3. CASE pc[p] = "activate" /\ active' = SelectorOf(draft[p]) /\ UNCHANGED <<runs, revisions>>
    BY <1>0, <1>12, <2>3, ActivateStep DEF WriteFails
  <2> QED
    BY <1>12, <2>1, <2>2, <2>3 DEF WriteFails
<1>13. ASSUME NEW p \in Advancers, Progress(p) PROVE Goal
  BY <1>0, <1>13, QuietStep DEF Progress
<1>14. ASSUME NEW p \in Advancers, Resolve(p) PROVE Goal
  BY <1>0, <1>14, QuietStep DEF Resolve
<1>15. ASSUME NEW p \in Advancers, ResolveFails(p) PROVE Goal
  BY <1>0, <1>15, QuietStep DEF ResolveFails
<1>16. ASSUME NEW p \in Advancers, UnlockAdvance(p) PROVE Goal
  BY <1>0, <1>16, QuietStep DEF UnlockAdvance
<1>17. ASSUME NEW p \in Advancers, UnlockOperation(p) PROVE Goal
  BY <1>0, <1>17, QuietStep DEF UnlockOperation, Forget
<1>18. ASSUME NEW p \in Advancers, Crash(p) PROVE Goal
  BY <1>0, <1>18, QuietStep DEF Crash, Forget
<1>19. ASSUME NEW p \in Advancers, NEW x \in {"failed", "cancelled"}, Abort(p, x) PROVE Goal
  BY <1>0, <1>19, QuietStep DEF Abort
<1>20. ASSUME NEW p \in Advancers, NEW phase \in Phases, Revise(p, phase) PROVE Goal
  BY <1>20, ReviseStep
<1>21. ASSUME NEW p \in Advancers, LoadActive(p) PROVE Goal
  BY <1>21, LoadActiveStep
<1>22. ASSUME NEW p \in Advancers, StartRun(p) \/ AdoptOrphan(p) PROVE Goal
  BY <1>22, StartRunStep
<1>23. ASSUME NEW p \in Advancers, WriteFile(p) PROVE Goal
  BY <1>23, StoreDraftStep DEF WriteFile
<1>24. ASSUME NEW p \in Advancers, Activate(p) PROVE Goal
  <2>1. seen'[p].record = draft[p]
    BY <1>0, <1>24 DEF Activate, Seen
  <2>2. pc'[p] \notin {"write", "activate"}
    BY <1>0, <1>24 DEF Activate
  <2>3. \A q \in Advancers \ {p} : pc'[q] = pc[q] /\ seen'[q] = seen[q]
    BY <1>0, <1>24 DEF Activate
  <2> QED
    BY <1>24, <2>1, <2>2, <2>3, ActivateStep DEF Activate
<1>25. ASSUME NEW o \in Observers, Observe(o) PROVE Goal
  BY <1>25, ObserveStep
<1>26. ASSUME Environment \/ UNCHANGED vars PROVE Goal
  <2>1. UNCHANGED <<runs, revisions, active, pc, seen, draft, opc, selected, loaded>>
    BY <1>26 DEF Environment, EditIssue, MoveMain, vars, invocation
  <2>2. ActiveData' = ActiveData
    BY <2>1 DEF ActiveData, Content
  <2>3. Store'
    BY <2>1, <2>2
       DEF IInv, Store, Named, ActiveReadable, Readable, WriterHoldsCurrent, ObserverSnapshot,
           Drafted, Content
  <2> QED
    BY <2>2, <2>3
<1>27. ASSUME NEW p \in Advancers, ProgressFails(p) PROVE Goal
  BY <1>0, <1>27, QuietStep DEF ProgressFails
<1> QED
  BY <1>1, <1>2, <1>3, <1>4, <1>5, <1>6, <1>7, <1>8, <1>9, <1>10, <1>11, <1>12, <1>13, <1>14,
     <1>15, <1>16, <1>17, <1>18, <1>19, <1>20, <1>21, <1>22, <1>23, <1>24, <1>25, <1>26, <1>27
     DEF Next, Work, Fault

LEMMA StoreInit == Init => IInv
<1> SUFFICES ASSUME Init PROVE IInv
  OBVIOUS
<1>1. TypeOK
  BY InitTyped
<1>2. Exclusion
  BY ConstantsAssumption
     DEF Init, Exclusion, HoldsOperation, HoldsAdvance, InFn, ConstantsAssumption
<1>3. Named /\ Drafted /\ ActiveReadable /\ WriterHoldsCurrent /\ ObserverSnapshot
  BY DEF Init, Named, Drafted, ActiveReadable, WriterHoldsCurrent, ObserverSnapshot, InFn
<1> QED
  BY <1>1, <1>2, <1>3 DEF IInv

\* The inductive invariant holds in every reachable state.
THEOREM StoreInvariant == Spec => []IInv
<1>1. Init => IInv
  BY StoreInit
<1>2. IInv /\ [Next]_vars => IInv'
  <2> SUFFICES ASSUME IInv, [Next]_vars PROVE IInv'
    OBVIOUS
  <2>1. TypeOK'
    BY TypedStep DEF IInv
  <2>2. Exclusion'
    BY ExclusionStep DEF IInv
  <2>3. Store'
    BY StoreStep
  <2> QED
    BY <2>1, <2>2, <2>3 DEF IInv, Store
<1> QED
  BY <1>1, <1>2, PTL DEF Spec

\* The selector always names files that exist, for every number of processes,
\* invocations, crashes and failed writes.
THEOREM ActiveAlwaysReadable == Spec => []ActiveReadable
<1>1. IInv => ActiveReadable
  BY DEF IInv
<1> QED
  BY <1>1, StoreInvariant, PTL

\* What an observer read under its shared flock is current until it unlocks.
THEOREM ObserversSeeCurrent == Spec => []ObserverSnapshot
<1>1. IInv => ObserverSnapshot
  BY DEF IInv
<1> QED
  BY <1>1, StoreInvariant, PTL

\* No invocation persists a record derived from one that was replaced meanwhile.
THEOREM NoLostUpdate == Spec => []WriterHoldsCurrent
<1>1. IInv => WriterHoldsCurrent
  BY DEF IInv
<1> QED
  BY <1>1, StoreInvariant, PTL

\* The store implements the durable register of RunRegister.
THEOREM RegisterImplemented == Spec => RegisterRefined
<1>1. Init => Register!Init
  BY DEF Init, Register!Init, ActiveData
<1>2. IInv /\ [Next]_vars => [Register!Next]_ActiveData
  BY StoreStep DEF Register!Next
<1> QED
  BY <1>1, <1>2, StoreInvariant, PTL DEF Spec, RegisterRefined, Register!Spec

-------------------------------------------------------------------------------
(* The operation sidecar *)

Sidecar == SidecarMine /\ SidecarResolved

SidecarStepOK ==
    opFile # NoOperation =>
        IF opFile'.id = opFile.id
        THEN /\ operationPhaseRank(opFile.phase) <= operationPhaseRank(opFile'.phase)
             /\ opFile.state # "active" => opFile' = opFile
        ELSE opFile.state # "active" \/ opFile.id \in abandoned

LEMMA SidecarFacts ==
    ASSUME SidecarInv
    PROVE  /\ pc \in [Advancers -> Labels] /\ op \in [Advancers -> Operation]
           /\ \A p \in Advancers : op[p].id \in Nat
           /\ opFile # NoOperation => opFile.id \in Nat
           /\ nextOp \in Nat
           /\ NoOne \notin Advancers
           /\ \A p, q \in Advancers :
                 pc[p] \in HoldsOperation /\ pc[q] \in HoldsOperation => p = q
           /\ \A p \in Advancers : opLock = p <=> pc[p] \in HoldsOperation
<1>1. /\ pc \in [Advancers -> Labels] /\ op \in [Advancers -> Operation]
      /\ opFile \in Operation \cup {NoOperation} /\ nextOp \in Nat
  BY DEF SidecarInv, TypeOK, InvocationsTyped, FilesTyped, WorldTyped
<1> QED
  BY <1>1, ConstantsAssumption
     DEF Operation, SidecarInv, Exclusion, ConstantsAssumption

\* A step of the lock holder that leaves the sidecar and its operation alone.
LEMMA SidecarQuiet ==
    ASSUME SidecarInv, NEW p \in Advancers, NEW l \in Stored \ {"contended"},
           pc[p] \in Stored \ {"contended"}, pc' = [pc EXCEPT ![p] = l],
           UNCHANGED <<opLock, opFile, op, nextOp, abandoned>>
    PROVE  Sidecar' /\ opFile' = opFile
<1>1. \A q \in Advancers : pc'[q] = IF q = p THEN l ELSE pc[q]
  BY SidecarFacts
<1>2. SidecarMine'
  BY <1>1 DEF SidecarInv, SidecarMine, Stored, InFn
<1>3. SidecarResolved'
  BY <1>1 DEF SidecarInv, SidecarResolved, Stored, InFn
<1> QED
  BY <1>2, <1>3 DEF Sidecar

\* A step of p that leaves the sidecar alone and lets p's operation go, having
\* resolved or abandoned it, or before it was ever stored.
LEMMA SidecarRelease ==
    ASSUME SidecarInv, NEW p \in Advancers, NEW l \in {"idle", "unlock", "release"},
           pc' = [pc EXCEPT ![p] = l],
           pc[p] \in Stored => op[p].id \in abandoned',
           l = "idle" \/ (pc[p] # "idle" /\ op'[p].id = op[p].id),
           \A q \in Advancers \ {p} : op'[q] = op[q] /\ (opLock' = q <=> opLock = q),
           abandoned \subseteq abandoned',
           UNCHANGED <<opFile, nextOp>>
    PROVE  Sidecar' /\ opFile' = opFile
<1>1. \A q \in Advancers : pc'[q] = IF q = p THEN l ELSE pc[q]
  BY SidecarFacts
<1>2. SidecarMine'
  BY <1>1 DEF SidecarInv, SidecarMine, Stored, InFn
<1>3. SidecarResolved'
  <2> SUFFICES ASSUME opFile # NoOperation, opFile.state = "active", opFile.id \notin abandoned'
               PROVE  \E q \in Advancers : /\ opLock' = q /\ op'[q].id = opFile.id
                                            /\ pc'[q] \notin {"stamp", "unlock", "release"}
    BY DEF SidecarResolved
  <2>1. PICK q \in Advancers : /\ opLock = q /\ op[q].id = opFile.id
                               /\ pc[q] \notin {"stamp", "unlock", "release"}
    BY DEF SidecarInv, SidecarResolved
  <2>2. pc[q] \in Stored
    BY <2>1, SidecarFacts DEF HoldsOperation, HoldsAdvance, Stored
  <2>3. q # p
    BY <2>1, <2>2
  <2> QED
    BY <1>1, <2>1, <2>3
<1> QED
  BY <1>2, <1>3 DEF Sidecar

\* A first or last store that fails, with the sidecar written or not.
LEMMA SidecarStoreFails ==
    ASSUME SidecarInv, NEW p \in Advancers, StoreOperationFails(p) \/ ResolveFails(p)
    PROVE  Sidecar' /\ (opFile' = opFile \/ SidecarStepOK)
<1>1. /\ pc \in [Advancers -> Labels] /\ op \in [Advancers -> Operation]
      /\ op[p] # NoOperation /\ op'[p] # NoOperation
  BY SidecarFacts, PlaceholderAssumption
     DEF PlaceholderAssumption, StoreOperationFails, ResolveFails, Operation, TerminalState
<1>2. /\ pc[p] \in {"stamp", "resolve", "contended"}
      /\ \A q \in Advancers \ {p} : pc'[q] = pc[q] /\ op'[q] = op[q]
      /\ pc'[p] \in {"release", "unlock"}
      /\ op'[p].id = op[p].id /\ op'[p].phase = op[p].phase
      /\ opFile' \in {opFile, op'[p]}
      /\ abandoned' = abandoned \cup {op[p].id}
      /\ UNCHANGED <<opLock, nextOp>>
  BY <1>1 DEF StoreOperationFails, ResolveFails, Goto, locks, Operation
<1>3. \A q \in Advancers \ {p} : pc[q] \notin HoldsOperation
  BY <1>2, SidecarFacts DEF HoldsOperation, HoldsAdvance
<1>4. /\ op[p].id < nextOp /\ op[p].id \in Nat
      /\ \A q \in Advancers \ {p} : pc[q] # "idle" => op[p].id # op[q].id
  BY <1>2, SidecarFacts DEF SidecarInv, SidecarMine
<1>5. SidecarMine'
  BY <1>1, <1>2, <1>3, <1>4
     DEF SidecarInv, SidecarMine, Stored, InFn, HoldsOperation, HoldsAdvance
<1>6. SidecarResolved'
  <2>1. CASE opFile' = op'[p]
    BY <1>2, <2>1 DEF SidecarResolved
  <2>2. CASE opFile' = opFile
    <3>1. \A q \in Advancers : opLock = q => q = p
      BY <1>2, <1>3, SidecarFacts
    <3> QED
      BY <1>2, <2>2, <3>1 DEF SidecarInv, SidecarResolved
  <2> QED
    BY <1>2, <2>1, <2>2
<1>7. opFile' = opFile \/ SidecarStepOK
  <2>1. CASE pc[p] = "stamp"
    <3>1. opFile # NoOperation => op[p].id # opFile.id
      BY <2>1 DEF SidecarInv, SidecarMine
    <3>2. opFile # NoOperation /\ opFile.state = "active" => opFile.id \in abandoned
      BY <1>3, <2>1, SidecarFacts DEF SidecarInv, SidecarResolved
    <3> QED
      BY <1>2, <3>1, <3>2 DEF SidecarStepOK
  <2>2. CASE pc[p] \in {"resolve", "contended"}
    <3>1. /\ opFile # NoOperation /\ opFile.id = op[p].id /\ opFile.state = "active"
          /\ operationPhaseRank(opFile.phase) <= operationPhaseRank(op[p].phase)
      BY <2>2 DEF SidecarInv, SidecarMine, Stored
    <3> QED
      BY <1>2, <3>1 DEF SidecarStepOK
  <2> QED
    BY <1>2, <2>1, <2>2
<1> QED
  BY <1>5, <1>6, <1>7 DEF Sidecar

\* The store of the session's progress fails, with the sidecar written or not.
LEMMA SidecarProgressFails ==
    ASSUME SidecarInv, NEW p \in Advancers, ProgressFails(p)
    PROVE  Sidecar' /\ (opFile' = opFile \/ SidecarStepOK)
<1>1. /\ \A q \in Advancers : pc'[q] = IF q = p THEN "resolve" ELSE pc[q]
      /\ \A q \in Advancers \ {p} : op'[q] = op[q]
      /\ op'[p].id = op[p].id /\ op'[p].phase = "validation" /\ op'[p].state = op[p].state
      /\ pc[p] = "revised" /\ opFile' \in {opFile, op'[p]} /\ op'[p] \in Operation
      /\ UNCHANGED <<opLock, nextOp, abandoned>>
  BY SidecarFacts DEF ProgressFails, Operation, Goto, locks
<1>2. \A q \in Advancers \ {p} : pc[q] \notin HoldsOperation
  BY <1>1, SidecarFacts DEF HoldsOperation, HoldsAdvance, InFn
<1>3. /\ opFile # NoOperation /\ opFile.id = op[p].id
      /\ opFile.state = "active" /\ op[p].state = "active" /\ op[p].id < nextOp
      /\ op'[p] # NoOperation
  BY <1>1, PlaceholderAssumption
     DEF SidecarInv, SidecarMine, Stored, InFn, PlaceholderAssumption
<1>4. SidecarMine'
  BY <1>1, <1>2, <1>3
     DEF SidecarInv, SidecarMine, Stored, InFn, HoldsOperation, HoldsAdvance, operationPhaseRank
<1>5. SidecarResolved'
  BY <1>1, <1>3, SidecarFacts DEF SidecarResolved, HoldsOperation, HoldsAdvance, InFn
<1>6. SidecarStepOK
  BY <1>1, <1>3 DEF SidecarStepOK, operationPhaseRank
<1> QED
  BY <1>4, <1>5, <1>6 DEF Sidecar

\* Every step keeps the sidecar's invariant and moves its reports forward.
LEMMA SidecarStep ==
    ASSUME SidecarInv, [Next]_vars
    PROVE  Sidecar' /\ (opFile' = opFile \/ SidecarStepOK)
<1> DEFINE Goal == Sidecar' /\ (opFile' = opFile \/ SidecarStepOK)
<1> USE DEF files, locks, world, Goto
<1>1. ASSUME NEW p \in Advancers,
             \/ LockAdvance(p) \/ LoadActive(p) \/ Return(p) \/ StartRun(p) \/ AdoptOrphan(p)
             \/ RejectOrphan(p) \/ WriteFile(p) \/ Activate(p) \/ WriteFails(p)
             \/ (\E r \in {"failed", "cancelled"} : Abort(p, r))
             \/ (\E phase \in Phases : Revise(p, phase))
      PROVE  Goal
  <2>1. /\ pc[p] \in Stored \ {"contended"}
        /\ \E l \in Stored \ {"contended"} : pc' = [pc EXCEPT ![p] = l]
        /\ UNCHANGED <<opLock, opFile, op, nextOp, abandoned>>
    BY <1>1 DEF LockAdvance, LoadActive, Return, StartRun, AdoptOrphan, RejectOrphan, WriteFile,
                Activate, WriteFails, Abort, Revise, Requalifies, Stored, InFn
  <2> QED
    BY <2>1, SidecarQuiet
<1>2. ASSUME NEW p \in Advancers,
             \/ OperationLockBusy(p) \/ UnlockAdvance(p) \/ UnlockOperation(p) \/ Crash(p)
      PROVE  Goal
  <2>1. /\ \E l \in {"idle", "unlock", "release"} :
              /\ pc' = [pc EXCEPT ![p] = l]
              /\ l = "idle" \/ (pc[p] # "idle" /\ op'[p].id = op[p].id)
        /\ pc[p] \in Stored => op[p].id \in abandoned'
        /\ \A q \in Advancers \ {p} : op'[q] = op[q] /\ (opLock' = q <=> opLock = q)
        /\ abandoned \subseteq abandoned'
        /\ UNCHANGED <<opFile, nextOp>>
    BY <1>2, SidecarFacts
       DEF OperationLockBusy, UnlockAdvance, UnlockOperation,
           Crash, Forget, Stored, InFn, HoldsOperation, HoldsAdvance, Operation
  <2> QED
    BY <2>1, SidecarRelease
<1>3. ASSUME NEW p \in Advancers, Begin(p) PROVE Goal
  <2>1. /\ \A q \in Advancers \ {p} : pc'[q] = pc[q] /\ op'[q] = op[q]
        /\ pc[p] = "idle" /\ pc'[p] = "start" /\ op'[p].id = nextOp /\ nextOp' = nextOp + 1
        /\ op'[p].state = "active"
        /\ UNCHANGED <<opLock, opFile, abandoned>>
    BY <1>3, SidecarFacts DEF Begin
  <2>2. SidecarMine'
    BY <2>1, SidecarFacts DEF SidecarInv, SidecarMine, Stored, InFn
  <2>3. SidecarResolved'
    BY <2>1, SidecarFacts
       DEF SidecarInv, SidecarResolved, HoldsOperation, HoldsAdvance, InFn
  <2> QED
    BY <2>1, <2>2, <2>3 DEF Sidecar
<1>4. ASSUME NEW p \in Advancers, LockOperation(p) PROVE Goal
  <2>1. /\ \A q \in Advancers : pc'[q] = IF q = p THEN "stamp" ELSE pc[q]
        /\ pc[p] = "start" /\ opLock = NoOne
        /\ UNCHANGED <<op, nextOp, opFile, abandoned>>
    BY <1>4, SidecarFacts DEF LockOperation
  <2>2. SidecarMine'
    BY <2>1 DEF SidecarInv, SidecarMine, Stored, InFn
  <2>3. SidecarResolved'
    BY <2>1, SidecarFacts DEF SidecarInv, SidecarResolved
  <2> QED
    BY <2>1, <2>2, <2>3 DEF Sidecar
<1>5. ASSUME NEW p \in Advancers, StoreOperation(p) PROVE Goal
  <2>1. /\ \A q \in Advancers : pc'[q] = IF q = p THEN "flock" ELSE pc[q]
        /\ pc[p] = "stamp" /\ opFile' = op[p] /\ opLock = p
        /\ UNCHANGED <<op, opLock, nextOp, abandoned>>
    BY <1>5, SidecarFacts DEF StoreOperation, HoldsOperation
  <2>2. op[p] # NoOperation
    BY SidecarFacts, PlaceholderAssumption DEF PlaceholderAssumption
  <2>3. op[p].state = "active" /\ op[p].id < nextOp /\ op[p].id \in Nat
        /\ (opFile # NoOperation => op[p].id # opFile.id)
    BY <2>1, SidecarFacts DEF SidecarInv, SidecarMine
  <2>4. \A q \in Advancers \ {p} : pc[q] \notin HoldsOperation
    BY <2>1, SidecarFacts DEF HoldsOperation
  <2>5. SidecarMine'
    BY <2>1, <2>2, <2>3, <2>4
       DEF SidecarInv, SidecarMine, Stored, InFn, HoldsOperation, HoldsAdvance,
           operationPhaseRank
  <2>6. SidecarResolved'
    BY <2>1 DEF SidecarResolved
  <2>7. SidecarStepOK
    BY <2>1, <2>3, SidecarFacts DEF SidecarInv, SidecarResolved, SidecarStepOK
  <2> QED
    BY <2>5, <2>6, <2>7 DEF Sidecar
<1>6. ASSUME NEW p \in Advancers, AdvanceLockBusy(p) \/ AdvanceLockFails(p) PROVE Goal
  <2>1. /\ \A q \in Advancers : pc'[q] = IF q = p THEN "contended" ELSE pc[q]
        /\ \A q \in Advancers \ {p} : op'[q] = op[q]
        /\ op'[p].id = op[p].id /\ op'[p].phase = op[p].phase /\ op'[p].state # "active"
        /\ pc[p] = "flock"
        /\ UNCHANGED <<opFile, opLock, nextOp, abandoned>>
    BY <1>6, SidecarFacts DEF AdvanceLockBusy, AdvanceLockFails, Operation
  <2>2. SidecarMine'
    BY <2>1 DEF SidecarInv, SidecarMine, Stored, InFn
  <2>3. SidecarResolved'
    BY <2>1 DEF SidecarInv, SidecarResolved
  <2> QED
    BY <2>1, <2>2, <2>3 DEF Sidecar
<1>7. ASSUME NEW p \in Advancers, StoreContended(p) \/ Resolve(p) PROVE Goal
  <2>1. /\ \E l \in {"release", "unlock"} : \A q \in Advancers :
              pc'[q] = IF q = p THEN l ELSE pc[q]
        /\ \A q \in Advancers \ {p} : op'[q] = op[q]
        /\ op'[p].id = op[p].id /\ op'[p].phase = op[p].phase /\ op'[p] \in Operation
        /\ pc[p] \in {"contended", "resolve"} /\ opFile' = op'[p]
        /\ UNCHANGED <<opLock, nextOp, abandoned>>
    BY <1>7, SidecarFacts DEF StoreContended, Resolve, Operation, TerminalState
  <2>2. op'[p].state # "active" /\ op'[p] # NoOperation
    BY <1>7, <2>1, SidecarFacts, PlaceholderAssumption
       DEF StoreContended, Resolve, TerminalState, SidecarInv, SidecarMine, Operation,
           PlaceholderAssumption
  <2>3. \A q \in Advancers \ {p} : pc[q] \notin HoldsOperation
    BY <2>1, SidecarFacts DEF HoldsOperation, HoldsAdvance
  <2>4. /\ opFile # NoOperation /\ opFile.id = op[p].id
        /\ operationPhaseRank(opFile.phase) <= operationPhaseRank(op[p].phase)
        /\ opFile.state = "active" /\ op[p].id < nextOp
    BY <2>1 DEF SidecarInv, SidecarMine, Stored
  <2>5. SidecarMine'
    BY <2>1, <2>2, <2>3, <2>4
       DEF SidecarInv, SidecarMine, Stored, InFn, HoldsOperation, HoldsAdvance
  <2>6. SidecarResolved'
    BY <2>1, <2>2 DEF SidecarResolved
  <2>7. SidecarStepOK
    BY <2>1, <2>4 DEF SidecarStepOK, operationPhaseRank
  <2> QED
    BY <2>5, <2>6, <2>7 DEF Sidecar
<1>8. ASSUME NEW p \in Advancers, Progress(p) PROVE Goal
  <2>1. /\ \A q \in Advancers : pc'[q] = IF q = p THEN "validating" ELSE pc[q]
        /\ \A q \in Advancers \ {p} : op'[q] = op[q]
        /\ op'[p].id = op[p].id /\ op'[p].phase = "validation" /\ op'[p].state = op[p].state
        /\ pc[p] = "revised" /\ opFile' = op'[p] /\ op'[p] \in Operation
        /\ UNCHANGED <<opLock, nextOp, abandoned>>
    BY <1>8, SidecarFacts DEF Progress, Operation
  <2>2. \A q \in Advancers \ {p} : pc[q] \notin HoldsOperation
    BY <2>1, SidecarFacts DEF HoldsOperation, HoldsAdvance, InFn
  <2>3. /\ opFile # NoOperation /\ opFile.id = op[p].id
        /\ opFile.state = "active" /\ op[p].state = "active" /\ op[p].id < nextOp
        /\ op'[p] # NoOperation
    BY <2>1, PlaceholderAssumption
       DEF SidecarInv, SidecarMine, Stored, InFn, PlaceholderAssumption
  <2>4. SidecarMine'
    BY <2>1, <2>2, <2>3
       DEF SidecarInv, SidecarMine, Stored, InFn, HoldsOperation, HoldsAdvance,
           operationPhaseRank
  <2>5. SidecarResolved'
    BY <2>1, <2>3, SidecarFacts
       DEF SidecarResolved, HoldsOperation, HoldsAdvance, InFn
  <2>6. SidecarStepOK
    BY <2>1, <2>3 DEF SidecarStepOK, operationPhaseRank
  <2> QED
    BY <2>4, <2>5, <2>6 DEF Sidecar
<1>9. ASSUME (\E o \in Observers : Observe(o)) \/ Environment \/ UNCHANGED vars PROVE Goal
  <2>1. UNCHANGED <<opLock, opFile, pc, op, nextOp, abandoned>>
    BY <1>9 DEF Observe, Share, SelectActive, LoadSelected, Unshare, EndProbe, Environment,
                EditIssue, MoveMain, invocation, vars
  <2>2. SidecarMine' /\ SidecarResolved'
    BY <2>1 DEF SidecarInv, SidecarMine, SidecarResolved
  <2> QED
    BY <2>1, <2>2 DEF Sidecar
<1>10. ASSUME NEW p \in Advancers, StoreOperationFails(p) \/ ResolveFails(p) PROVE Goal
  BY <1>10, SidecarStoreFails
<1>11. ASSUME NEW p \in Advancers, ProgressFails(p) PROVE Goal
  BY <1>11, SidecarProgressFails
<1> QED
  BY <1>1, <1>2, <1>3, <1>4, <1>5, <1>6, <1>7, <1>8, <1>9, <1>10, <1>11 DEF Next, Work, Fault

\* The inductive invariant of the sidecar.
THEOREM SidecarInvariant == Spec => []SidecarInv
<1>1. Init => SidecarInv
  <2> SUFFICES ASSUME Init PROVE SidecarInv
    OBVIOUS
  <2>1. TypeOK /\ Exclusion
    BY StoreInit DEF IInv
  <2>2. SidecarMine /\ SidecarResolved
    BY DEF Init, SidecarMine, SidecarResolved, Stored, InFn
  <2> QED
    BY <2>1, <2>2 DEF SidecarInv
<1>2. SidecarInv /\ [Next]_vars => SidecarInv'
  <2> SUFFICES ASSUME SidecarInv, [Next]_vars PROVE SidecarInv'
    OBVIOUS
  <2>1. TypeOK' /\ Exclusion'
    BY TypedStep, ExclusionStep DEF SidecarInv
  <2>2. Sidecar'
    BY SidecarStep
  <2> QED
    BY <2>1, <2>2 DEF SidecarInv, Sidecar
<1> QED
  BY <1>1, <1>2, PTL DEF Spec

\* The sidecar is resolved before advance.lock is free, crashes and failed
\* terminal stores aside.
THEOREM SidecarAlwaysResolved == Spec => []SidecarResolved
<1>1. SidecarInv => SidecarResolved
  BY DEF SidecarInv
<1> QED
  BY <1>1, SidecarInvariant, PTL

\* Reports of an operation only move forward.
THEOREM SidecarOnlyMovesForward == Spec => SidecarMonotone
<1>1. SidecarInv /\ [Next]_vars =>
        [opFile # NoOperation =>
           IF opFile'.id = opFile.id
           THEN /\ operationPhaseRank(opFile.phase) <= operationPhaseRank(opFile'.phase)
                /\ opFile.state # "active" => opFile' = opFile
           ELSE opFile.state # "active" \/ opFile.id \in abandoned]_opFile
  BY SidecarStep DEF SidecarStepOK
<1> QED
  BY <1>1, SidecarInvariant, PTL DEF Spec, SidecarMonotone
===============================================================================
