------------------------------ MODULE IssueStore ------------------------------
(***************************************************************************)
(* The per-issue directory under the Git common directory: two flocks, the *)
(* operation sidecar, immutable run files, immutable revision files and    *)
(* the active selector, used at once by Advance invocations (writers), by  *)
(* Status and the other observers (readers) and by Watch's lock probe.     *)
(*                                                                         *)
(* Every file write is an atomic temp+fsync+rename, so a process may crash *)
(* between any two steps below but never inside one.  A crash drops the    *)
(* process's flocks and leaves the files as they are.  A write that fails  *)
(* may still have replaced the file: the directory is synced last.         *)
(***************************************************************************)
EXTENDS Naturals, Sequences, FiniteSets

CONSTANTS
    Advancers,      \* processes that run Advance, one invocation after another
    Observers,      \* processes that run Status, review packets, or Watch
    Authorities,    \* digests the issue's compiled authority can have
    Undecided,      \* authorities whose qualification waits for a decision
    Bases,          \* commits origin/main can be at
    FirstAuthority,
    FirstBase,
    NoOne, NoBase, NoData, NoRun, NoFile, NoOperation,
    MaxOperations,  \* bound: Advance invocations in a behaviour
    MaxTrail,       \* bound: transitions recorded in one run
    MaxEdits,       \* bound: edits of the issue and moves of origin/main
    MaxCrashes,     \* bound: crashes of Advance processes
    MaxFaults       \* bound: file writes that fail

ASSUME ConstantsAssumption ==
    /\ FirstAuthority \in Authorities
    /\ Undecided \subseteq Authorities
    /\ FirstBase \in Bases
    /\ NoOne \notin Advancers
    /\ {MaxOperations, MaxTrail, MaxEdits, MaxCrashes, MaxFaults} \subseteq Nat

VARIABLES
    opLock,         \* holder of the exclusive flock on operation.lock
    advLock,        \* holder of the exclusive flock on advance.lock
    shared,         \* observers holding a shared flock on advance.lock
    lockFile,       \* advance.lock exists
    opFile,         \* active-operation.json
    runs,           \* runs/<id>.json, by run identity
    revisions,      \* revisions/<id>/<digest>.json; the digest is the content
    active,         \* active.json: the selected run and revision
    pc, op, seen, draft, result,    \* one Advance process each
    opc, selected, loaded,          \* one observer each
    authority, base,                \* what GitHub and Git currently say
    nextOp, edits, crashes, faults, \* counters the bounds apply to
    abandoned       \* operations that could not store their terminal state

locks == <<opLock, advLock, shared>>
files == <<lockFile, opFile, runs, revisions, active>>
invocation == <<pc, op, seen, draft, result>>
observation == <<opc, selected, loaded>>
world == <<authority, base, nextOp, edits, crashes, faults, abandoned>>
vars == <<locks, files, invocation, observation, world>>

-------------------------------------------------------------------------------
(* Records, selectors and operations *)

Phases == {"open", "published", "completed"}
RunId == Seq(Authorities) \ {<<>>}
Data == [id : RunId, base : Bases \cup {NoBase}, phase : Phases, trail : Seq(Nat)]
Selector == [run : RunId, revision : Data \cup {NoFile}]
Operation == [id : Nat, phase : {"advance", "validation"},
              state : {"active", "completed", "failed", "cancelled"}]

operationPhaseRank(phase) == IF phase = "advance" THEN 1 ELSE 2

\* The placeholders are no records, selectors or operations.
ASSUME PlaceholderAssumption ==
    /\ NoData \notin Data /\ NoFile \notin Data
    /\ NoRun \notin Selector
    /\ NoOperation \notin Operation

AuthorityOf(id) == id[Len(id)]

\* loadActiveRecord and loadActive: the selector, then the file it names.
Readable(s) ==
    /\ s.run \in DOMAIN runs
    /\ s.revision = NoFile \/ s.revision \in revisions

Content(s) == IF s.revision = NoFile THEN runs[s.run] ELSE s.revision

ActiveData == IF active = NoRun THEN NoData ELSE Content(active)

\* Fault variant of RunIdentity: the superseded run is left out of the digest.
UnchainedIdentity(a, prior) == <<a>>

\* runIdentity: the authority digest and the identity of the superseded run.
RunIdentity(a, prior) == IF prior = NoData THEN <<a>> ELSE Append(prior.id, a)

\* compileAuthority: an authority with an open question compiles no evidence,
\* and only evidence carries the observed base commit.
CompiledBase(a, b) == IF a \in Undecided THEN NoBase ELSE b

InFn == {"read", "decide", "write", "activate", "adopted", "revised", "validating"}
HoldsAdvance == InFn \cup {"resolve", "unlock"}
HoldsOperation == HoldsAdvance \cup {"stamp", "flock", "contended", "release"}

Labels == HoldsOperation \cup {"idle", "start"}
Seen == [base : Bases, authority : Authorities, record : Data \cup {NoData}]
Results == {"none", "ok", "contended", "failed", "orphan", "cancelled"}
ObserverLabels == {"idle", "select", "load", "hold", "probe"}

LocksTyped ==
    /\ opLock \in Advancers \cup {NoOne}
    /\ advLock \in Advancers \cup {NoOne}
    /\ shared \subseteq Observers

FilesTyped ==
    /\ lockFile \in BOOLEAN
    /\ opFile \in Operation \cup {NoOperation}
    /\ DOMAIN runs \subseteq RunId
    /\ runs \in [DOMAIN runs -> Data]
    /\ revisions \subseteq Data
    /\ active \in Selector \cup {NoRun}

InvocationsTyped ==
    /\ pc \in [Advancers -> Labels]
    /\ op \in [Advancers -> Operation]
    /\ seen \in [Advancers -> Seen]
    /\ draft \in [Advancers -> Data \cup {NoData}]
    /\ \A p \in Advancers : pc[p] \in {"write", "activate"} => draft[p] # NoData
    /\ result \in [Advancers -> Results]

ObserversTyped ==
    /\ opc \in [Observers -> ObserverLabels]
    /\ selected \in [Observers -> Selector \cup {NoRun}]
    /\ \A o \in Observers : opc[o] = "load" => selected[o] # NoRun
    /\ loaded \in [Observers -> Data \cup {NoData}]

WorldTyped ==
    /\ authority \in Authorities /\ base \in Bases
    /\ nextOp \in Nat /\ edits \in Nat /\ crashes \in Nat /\ faults \in Nat
    /\ abandoned \subseteq Nat

TypeOK ==
    LocksTyped /\ FilesTyped /\ InvocationsTyped /\ ObserversTyped /\ WorldTyped

NoOp == [id |-> 0, phase |-> "advance", state |-> "completed"]
NothingSeen == [base |-> FirstBase, authority |-> FirstAuthority, record |-> NoData]

Init ==
    /\ opLock = NoOne /\ advLock = NoOne /\ shared = {}
    /\ lockFile = FALSE /\ opFile = NoOperation
    /\ runs = [i \in {} |-> NoData] /\ revisions = {} /\ active = NoRun
    /\ pc = [p \in Advancers |-> "idle"]
    /\ op = [p \in Advancers |-> NoOp]
    /\ seen = [p \in Advancers |-> NothingSeen]
    /\ draft = [p \in Advancers |-> NoData]
    /\ result = [p \in Advancers |-> "none"]
    /\ opc = [o \in Observers |-> "idle"]
    /\ selected = [o \in Observers |-> NoRun]
    /\ loaded = [o \in Observers |-> NoData]
    /\ authority = FirstAuthority /\ base = FirstBase
    /\ nextOp = 1 /\ edits = 0 /\ crashes = 0 /\ faults = 0
    /\ abandoned = {}

-------------------------------------------------------------------------------
(* One Advance invocation *)

Goto(p, label) == pc' = [pc EXCEPT ![p] = label]

\* The invocation has returned or died: its local variables are gone.
Forget(p) ==
    /\ Goto(p, "idle")
    /\ op' = [op EXCEPT ![p] = NoOp]
    /\ seen' = [seen EXCEPT ![p] = NothingSeen]
    /\ draft' = [draft EXCEPT ![p] = NoData]

\* Git is observed before any lock is taken, and the operation gets an identity.
Begin(p) ==
    /\ pc[p] = "idle"
    /\ nextOp <= MaxOperations
    /\ nextOp' = nextOp + 1
    /\ op' = [op EXCEPT ![p] = [id |-> nextOp, phase |-> "advance", state |-> "active"]]
    /\ seen' = [seen EXCEPT ![p].base = base]
    /\ result' = [result EXCEPT ![p] = "none"]
    /\ Goto(p, "start")
    /\ UNCHANGED <<locks, files, draft, observation, authority, base, edits, crashes,
                   faults, abandoned>>

\* Fault variant of LockOperation: the sidecar is used without its flock.
UnguardedLockOperation(p) ==
    /\ pc[p] = "start"
    /\ opLock' = p
    /\ Goto(p, "stamp")
    /\ UNCHANGED <<advLock, shared, files, op, seen, draft, result, observation, world>>

LockOperation(p) ==
    /\ pc[p] = "start"
    /\ opLock = NoOne
    /\ opLock' = p
    /\ Goto(p, "stamp")
    /\ UNCHANGED <<advLock, shared, files, op, seen, draft, result, observation, world>>

\* operation.lock is busy: nothing is stored and the caller is told to retry.
OperationLockBusy(p) ==
    /\ pc[p] = "start"
    /\ opLock # NoOne
    /\ result' = [result EXCEPT ![p] = "contended"]
    /\ Forget(p)
    /\ UNCHANGED <<locks, files, observation, world>>

StoreOperation(p) ==
    /\ pc[p] = "stamp"
    /\ opFile' = op[p]
    /\ Goto(p, "flock")
    /\ UNCHANGED <<locks, lockFile, runs, revisions, active, op, seen, draft, result,
                   observation, world>>

\* The first store fails: the invocation returns before it takes advance.lock.
StoreOperationFails(p) ==
    /\ pc[p] = "stamp"
    /\ faults < MaxFaults
    /\ faults' = faults + 1
    /\ opFile' \in {opFile, op[p]}
    /\ abandoned' = abandoned \cup {op[p].id}
    /\ result' = [result EXCEPT ![p] = "failed"]
    /\ Goto(p, "release")
    /\ UNCHANGED <<locks, lockFile, runs, revisions, active, op, seen, draft, observation,
                   authority, base, nextOp, edits, crashes>>

LockAdvance(p) ==
    /\ pc[p] = "flock"
    /\ advLock = NoOne /\ shared = {}
    /\ lockFile' = TRUE
    /\ advLock' = p
    /\ Goto(p, "read")
    /\ UNCHANGED <<opLock, shared, opFile, runs, revisions, active, op, seen, draft,
                   result, observation, world>>

\* Fault variant of AdvanceLockBusy: return without resolving the sidecar.
UnresolvedAdvanceLockBusy(p) ==
    /\ pc[p] = "flock"
    /\ advLock # NoOne \/ shared # {}
    /\ lockFile' = TRUE
    /\ result' = [result EXCEPT ![p] = "contended"]
    /\ Goto(p, "release")
    /\ UNCHANGED <<locks, opFile, runs, revisions, active, op, seen, draft, observation,
                   world>>

\* Fault variant of AdvanceLockBusy: flock without LOCK_NB, which waits.
BlockingAdvanceLockBusy(p) ==
    /\ pc[p] = "flock"
    /\ advLock # NoOne \/ shared # {}
    /\ UNCHANGED vars

AdvanceLockBusy(p) ==
    /\ pc[p] = "flock"
    /\ advLock # NoOne \/ shared # {}
    /\ lockFile' = TRUE
    /\ op' = [op EXCEPT ![p].state = "completed"]
    /\ result' = [result EXCEPT ![p] = "contended"]
    /\ Goto(p, "contended")
    /\ UNCHANGED <<locks, opFile, runs, revisions, active, seen, draft, observation, world>>

\* advance.lock cannot be opened: the operation is stored as failed.
AdvanceLockFails(p) ==
    /\ pc[p] = "flock"
    /\ faults < MaxFaults
    /\ faults' = faults + 1
    /\ op' = [op EXCEPT ![p].state = "failed"]
    /\ result' = [result EXCEPT ![p] = "failed"]
    /\ Goto(p, "contended")
    /\ UNCHANGED <<locks, files, seen, draft, observation, authority, base, nextOp,
                   edits, crashes, abandoned>>

\* The sidecar takes the operation's terminal state without advance.lock.
StoreContended(p) ==
    /\ pc[p] = "contended"
    /\ opFile' = op[p]
    /\ Goto(p, "release")
    /\ UNCHANGED <<locks, lockFile, runs, revisions, active, op, seen, draft, result,
                   observation, world>>

\* The issue is observed under the lock, then the active record is loaded.
LoadActive(p) ==
    /\ pc[p] = "read"
    /\ active # NoRun => Readable(active)
    /\ seen' = [seen EXCEPT ![p].authority = authority, ![p].record = ActiveData]
    /\ Goto(p, "decide")
    /\ UNCHANGED <<locks, files, op, draft, result, observation, world>>

SameAuthority(p) ==
    /\ seen[p].record # NoData
    /\ AuthorityOf(seen[p].record.id) = seen[p].authority

\* The handler ends: Advance returns with no error and resolves as completed.
Return(p) ==
    /\ \/ pc[p] = "decide" /\ SameAuthority(p)
       \/ pc[p] = "decide" /\ seen[p].record # NoData /\ seen[p].record.phase # "open"
       \/ pc[p] \in {"adopted", "revised", "validating"}
    /\ result' = [result EXCEPT ![p] = "ok"]
    /\ Goto(p, "resolve")
    /\ UNCHANGED <<locks, files, op, seen, draft, observation, world>>

\* An observation, a decoder, an external call or the context fails.
Abort(p, r) ==
    /\ pc[p] \in {"read", "decide", "adopted", "revised", "validating"}
    /\ result' = [result EXCEPT ![p] = r]
    /\ Goto(p, "resolve")
    /\ UNCHANGED <<locks, files, op, seen, draft, observation, world>>

\* What a handler may turn the loaded record into.  A published run is first
\* checked for a merge, whatever the authority now is; qualification of an
\* adopted run and a validation session leave it unpublished.
NextPhases(p) ==
    LET d == seen[p].record IN
    CASE pc[p] = "decide" /\ d.phase = "published" /\ ~SameAuthority(p)
             -> {"published", "completed"}
      [] pc[p] = "decide" /\ d.phase = "published" /\ SameAuthority(p)
             -> {"open", "published", "completed"}
      [] pc[p] = "decide" /\ d.phase = "open" /\ SameAuthority(p)
             -> {"open", "published"}
      [] pc[p] \in {"adopted", "validating"} -> {"open"}
      [] OTHER -> {}

\* persistAssuranceTransition: the record gets one more Timing entry.
Revised(d, phase, o) ==
    [id |-> d.id, base |-> d.base, phase |-> phase, trail |-> Append(d.trail, o)]

Revise(p, phase) ==
    /\ pc[p] \in {"decide", "adopted", "validating"}
    /\ seen[p].record # NoData
    /\ seen[p].record.phase # "completed"
    /\ phase \in NextPhases(p)
    /\ Len(seen[p].record.trail) < MaxTrail
    /\ seen[p].record.id \in DOMAIN runs
    /\ draft' = [draft EXCEPT ![p] = Revised(seen[p].record, phase, op[p].id)]
    /\ Goto(p, "write")
    /\ UNCHANGED <<locks, files, op, seen, result, observation, world>>

NewRun(p) ==
    [id |-> RunIdentity(seen[p].authority, seen[p].record),
     base |-> CompiledBase(seen[p].authority, seen[p].base),
     phase |-> "open", trail |-> <<op[p].id>>]

Requalifies(p) ==
    /\ pc[p] = "decide"
    /\ ~SameAuthority(p)
    /\ seen[p].record # NoData => seen[p].record.phase # "completed"

\* Fault variant of StartRun: the selector is switched and no run file written.
UnwrittenStartRun(p) ==
    /\ Requalifies(p)
    /\ NewRun(p).id \notin DOMAIN runs
    /\ draft' = [draft EXCEPT ![p] = NewRun(p)]
    /\ Goto(p, "activate")
    /\ UNCHANGED <<locks, files, op, seen, result, observation, world>>

StartRun(p) ==
    /\ Requalifies(p)
    /\ NewRun(p).id \notin DOMAIN runs
    /\ draft' = [draft EXCEPT ![p] = NewRun(p)]
    /\ Goto(p, "write")
    /\ UNCHANGED <<locks, files, op, seen, result, observation, world>>

\* A run file nobody activated is left from a crash: it is adopted if it is
\* what this invocation would have written, timestamps aside.
compatibleOrphan(d, n) == d.base = n.base

AdoptOrphan(p) ==
    /\ Requalifies(p)
    /\ NewRun(p).id \in DOMAIN runs
    /\ compatibleOrphan(runs[NewRun(p).id], NewRun(p))
    /\ draft' = [draft EXCEPT ![p] = runs[NewRun(p).id]]
    /\ Goto(p, "activate")
    /\ UNCHANGED <<locks, files, op, seen, result, observation, world>>

RejectOrphan(p) ==
    /\ Requalifies(p)
    /\ NewRun(p).id \in DOMAIN runs
    /\ ~compatibleOrphan(runs[NewRun(p).id], NewRun(p))
    /\ result' = [result EXCEPT ![p] = "orphan"]
    /\ Goto(p, "resolve")
    /\ UNCHANGED <<locks, files, op, seen, draft, observation, world>>

\* Both files are immutable: an existing one is reused, never rewritten.
IsRun(d) == Len(d.trail) = 1

StoreDraft(d) ==
    IF IsRun(d)
    THEN /\ runs' = [i \in DOMAIN runs \cup {d.id} |->
                       IF i \in DOMAIN runs THEN runs[i] ELSE d]
         /\ UNCHANGED revisions
    ELSE /\ revisions' = revisions \cup {d}
         /\ UNCHANGED runs

WriteFile(p) ==
    /\ pc[p] = "write"
    /\ StoreDraft(draft[p])
    /\ Goto(p, "activate")
    /\ UNCHANGED <<locks, lockFile, opFile, active, op, seen, draft, result, observation,
                   world>>

SelectorOf(d) == [run |-> d.id, revision |-> IF IsRun(d) THEN NoFile ELSE d]

\* active.json is replaced.  A fresh run ends the invocation, an adopted one is
\* qualified at once, and after a revision the handler may go on.
Activate(p) ==
    /\ pc[p] = "activate"
    /\ active' = SelectorOf(draft[p])
    /\ seen' = [seen EXCEPT ![p].record = draft[p]]
    /\ IF draft[p].trail = <<op[p].id>>
       THEN /\ Goto(p, "resolve")
            /\ result' = [result EXCEPT ![p] = "ok"]
       ELSE /\ Goto(p, IF IsRun(draft[p]) THEN "adopted" ELSE "revised")
            /\ UNCHANGED result
    /\ UNCHANGED <<locks, lockFile, opFile, runs, revisions, op, draft, observation, world>>

WriteFails(p) ==
    /\ pc[p] \in {"write", "activate"}
    /\ faults < MaxFaults
    /\ faults' = faults + 1
    /\ \/ UNCHANGED <<runs, revisions, active>>
       \/ pc[p] = "write" /\ StoreDraft(draft[p]) /\ UNCHANGED active
       \/ pc[p] = "activate" /\ active' = SelectorOf(draft[p]) /\ UNCHANGED <<runs, revisions>>
    /\ result' = [result EXCEPT ![p] = "failed"]
    /\ Goto(p, "resolve")
    /\ UNCHANGED <<locks, lockFile, opFile, op, seen, draft, observation, authority, base,
                   nextOp, edits, crashes, abandoned>>

\* advanceOperationProgress: the stored session start is being executed.  An
\* invocation starts at most one session, so the phase it raises is "advance".
Progress(p) ==
    /\ pc[p] = "revised"
    /\ seen[p].record.phase = "open"
    /\ op[p].phase = "advance"
    /\ op' = [op EXCEPT ![p].phase = "validation"]
    /\ opFile' = op'[p]
    /\ Goto(p, "validating")
    /\ UNCHANGED <<locks, lockFile, runs, revisions, active, seen, draft, result,
                   observation, world>>

\* The operation in memory has moved on, whether or not the sidecar has.
ProgressFails(p) ==
    /\ pc[p] = "revised"
    /\ seen[p].record.phase = "open"
    /\ op[p].phase = "advance"
    /\ faults < MaxFaults
    /\ faults' = faults + 1
    /\ op' = [op EXCEPT ![p].phase = "validation"]
    /\ opFile' \in {opFile, op'[p]}
    /\ result' = [result EXCEPT ![p] = "failed"]
    /\ Goto(p, "resolve")
    /\ UNCHANGED <<locks, lockFile, runs, revisions, active, seen, draft, observation,
                   authority, base, nextOp, edits, crashes, abandoned>>

\* Fault variant of TerminalState: the outcome is stored as it is.
RawTerminalState(r) == r

TerminalState(r) ==
    CASE r = "cancelled" -> "cancelled"
      [] r \in {"failed", "orphan"} -> "failed"
      [] OTHER -> "completed"

\* The deferred calls: store the terminal state, unlock advance.lock, then
\* operation.lock.
Resolve(p) ==
    /\ pc[p] = "resolve"
    /\ op' = [op EXCEPT ![p].state = TerminalState(result[p])]
    /\ opFile' = op'[p]
    /\ Goto(p, "unlock")
    /\ UNCHANGED <<locks, lockFile, runs, revisions, active, seen, draft, result,
                   observation, world>>

\* The terminal store fails; the locks are released all the same.
ResolveFails(p) ==
    /\ pc[p] \in {"resolve", "contended"}
    /\ faults < MaxFaults
    /\ faults' = faults + 1
    /\ op' = [op EXCEPT ![p].state =
                IF pc[p] = "resolve" THEN TerminalState(result[p]) ELSE @]
    /\ opFile' \in {opFile, op'[p]}
    /\ result' = [result EXCEPT ![p] = IF pc[p] = "resolve" THEN "failed" ELSE @]
    /\ abandoned' = abandoned \cup {op[p].id}
    /\ Goto(p, IF pc[p] = "resolve" THEN "unlock" ELSE "release")
    /\ UNCHANGED <<locks, lockFile, runs, revisions, active, seen, draft, observation,
                   authority, base, nextOp, edits, crashes>>

UnlockAdvance(p) ==
    /\ pc[p] = "unlock"
    /\ advLock' = NoOne
    /\ Goto(p, "release")
    /\ UNCHANGED <<opLock, shared, files, op, seen, draft, result, observation, world>>

UnlockOperation(p) ==
    /\ pc[p] = "release"
    /\ opLock' = NoOne
    /\ Forget(p)
    /\ UNCHANGED <<advLock, shared, files, result, observation, world>>

\* The kernel drops a dead process's flocks; its files stay as they are.
Crash(p) ==
    /\ pc[p] # "idle"
    /\ crashes < MaxCrashes
    /\ crashes' = crashes + 1
    /\ opLock' = IF opLock = p THEN NoOne ELSE opLock
    /\ advLock' = IF advLock = p THEN NoOne ELSE advLock
    /\ abandoned' = abandoned \cup {op[p].id}
    /\ result' = [result EXCEPT ![p] = "none"]
    /\ Forget(p)
    /\ UNCHANGED <<shared, files, observation, authority, base, nextOp,
                   edits, faults>>

-------------------------------------------------------------------------------
(* Observers *)

ObserverGoto(o, label) == opc' = [opc EXCEPT ![o] = label]

\* Fault variant of Share: the flock is not tried before reading.
UnlockedShare(o, label) ==
    /\ opc[o] = "idle"
    /\ lockFile
    /\ shared' = shared \cup {o}
    /\ ObserverGoto(o, label)
    /\ UNCHANGED <<opLock, advLock, files, invocation, selected, loaded, world>>

\* observeIssue and issueLockAvailable take a shared flock without waiting; when
\* it is busy they return at once and have changed nothing.
Share(o, label) ==
    /\ opc[o] = "idle"
    /\ lockFile
    /\ advLock = NoOne
    /\ shared' = shared \cup {o}
    /\ ObserverGoto(o, label)
    /\ UNCHANGED <<opLock, advLock, files, invocation, selected, loaded, world>>

\* active.json is read first, the file it selects second, both under the flock.
SelectActive(o) ==
    /\ opc[o] = "select"
    /\ active # NoRun
    /\ selected' = [selected EXCEPT ![o] = active]
    /\ ObserverGoto(o, "load")
    /\ UNCHANGED <<locks, files, invocation, loaded, world>>

LoadSelected(o) ==
    /\ opc[o] = "load"
    /\ Readable(selected[o])
    /\ loaded' = [loaded EXCEPT ![o] = Content(selected[o])]
    /\ ObserverGoto(o, "hold")
    /\ UNCHANGED <<locks, files, invocation, selected, world>>

\* The flock is dropped when the external reads end, at the first error, or
\* when the process dies.
Unshare(o) ==
    /\ opc[o] \in {"select", "load", "hold"}
    /\ shared' = shared \ {o}
    /\ selected' = [selected EXCEPT ![o] = NoRun]
    /\ loaded' = [loaded EXCEPT ![o] = NoData]
    /\ ObserverGoto(o, "idle")
    /\ UNCHANGED <<opLock, advLock, files, invocation, world>>

EndProbe(o) ==
    /\ opc[o] = "probe"
    /\ shared' = shared \ {o}
    /\ ObserverGoto(o, "idle")
    /\ UNCHANGED <<opLock, advLock, files, invocation, selected, loaded, world>>

-------------------------------------------------------------------------------
(* The issue and origin/main change under the program *)

EditIssue(a) ==
    /\ edits < MaxEdits
    /\ a # authority
    /\ authority' = a
    /\ edits' = edits + 1
    /\ UNCHANGED <<locks, files, invocation, observation, base, nextOp, crashes, faults,
                   abandoned>>

MoveMain(b) ==
    /\ edits < MaxEdits
    /\ b # base
    /\ base' = b
    /\ edits' = edits + 1
    /\ UNCHANGED <<locks, files, invocation, observation, authority, nextOp, crashes,
                   faults, abandoned>>

-------------------------------------------------------------------------------

\* The steps of an invocation that is under way and meets no fault.
Work(p) ==
    \/ LockOperation(p) \/ OperationLockBusy(p) \/ StoreOperation(p)
    \/ LockAdvance(p) \/ AdvanceLockBusy(p) \/ StoreContended(p)
    \/ LoadActive(p) \/ Return(p)
    \/ \E phase \in Phases : Revise(p, phase)
    \/ StartRun(p) \/ AdoptOrphan(p) \/ RejectOrphan(p)
    \/ WriteFile(p) \/ Activate(p) \/ Progress(p)
    \/ Resolve(p) \/ UnlockAdvance(p) \/ UnlockOperation(p)

Fault(p) ==
    \/ StoreOperationFails(p) \/ AdvanceLockFails(p)
    \/ \E r \in {"failed", "cancelled"} : Abort(p, r)
    \/ WriteFails(p) \/ ProgressFails(p) \/ ResolveFails(p) \/ Crash(p)

Observe(o) ==
    \/ \E label \in {"select", "probe"} : Share(o, label)
    \/ SelectActive(o) \/ LoadSelected(o)
    \/ Unshare(o) \/ EndProbe(o)

Environment ==
    \/ \E a \in Authorities : EditIssue(a)
    \/ \E b \in Bases : MoveMain(b)

Next ==
    \/ \E p \in Advancers : Begin(p) \/ Work(p) \/ Fault(p)
    \/ \E o \in Observers : Observe(o)
    \/ Environment

Spec == Init /\ [][Next]_vars

\* The scheduler runs a started invocation on: its calls and waits are bounded
\* by the command context and the flocks are never waited for.
Fairness == \A p \in Advancers : WF_vars(Work(p))

FairSpec == Spec /\ Fairness
-------------------------------------------------------------------------------
(* What the store guarantees *)

\* Whatever crashed and wherever, the selector in active.json names files that
\* exist, so the next invocation can load the run (loadActive never reports a
\* missing run or revision), and so can it load every run that one superseded.
ActiveReadable ==
    /\ active # NoRun => Readable(active)
    /\ \A i \in DOMAIN runs :
          Len(i) > 1 => SubSeq(i, 1, Len(i) - 1) \in DOMAIN runs

\* While an observer is between its two reads, or still using what it read, no
\* Advance replaces the record: what Status reports is the current record.
ObserverSnapshot ==
    \A o \in Observers :
        /\ opc[o] = "load" => selected[o] = active
        /\ opc[o] = "hold" => loaded[o] = ActiveData

\* Between loading the record and persisting what it derived from it, an
\* invocation holds the only right to write: the record it holds is current.
WriterHoldsCurrent ==
    \A p \in Advancers :
        pc[p] \in InFn \ {"read"} => seen[p].record = ActiveData

\* An operation the sidecar shows as active is being run by the process that
\* holds operation.lock, unless it died or could not store its end: completion,
\* failure and cancellation resolve the sidecar before advance.lock is free.
SidecarResolved ==
    (opFile # NoOperation /\ opFile.state = "active" /\ opFile.id \notin abandoned)
        => \E p \in Advancers :
              /\ opLock = p
              /\ op[p].id = opFile.id
              /\ pc[p] \notin {"stamp", "unlock", "release"}

\* Reports of one operation only move forward: its phase never drops, a terminal
\* state is final, and the next operation replaces it only once it is terminal,
\* unless its process died or could not store its end.
SidecarMonotone ==
    [][opFile # NoOperation =>
         IF opFile'.id = opFile.id
         THEN /\ operationPhaseRank(opFile.phase) <= operationPhaseRank(opFile'.phase)
              /\ opFile.state # "active" => opFile' = opFile
         ELSE opFile.state # "active" \/ opFile.id \in abandoned]_opFile

\* The store is a durable register of the active record: each published record
\* revises or supersedes the one it replaces, whatever the interleaving of
\* invocations and crashes, and a completed run is never replaced.
Register == INSTANCE RunRegister WITH record <- ActiveData

RegisterRefined == Register!Spec

\* Every invocation ends, whatever others hold, and has let go of both locks: neither
\* is waited for, and each path out of Advance releases what it took.
InvocationEnds ==
    \A p \in Advancers : pc[p] = "start" ~> pc[p] = "idle" /\ opLock # p /\ advLock # p

\* advance.go reports contention as "another Advance call is active for this
\* issue": then some other process is inside Advance.
ContentionMeansAdvance ==
    [][\A p \in Advancers :
         result'[p] = "contended" /\ result[p] # "contended"
             => \E q \in Advancers \ {p} : pc[q] \in HoldsOperation]_result

\* An invocation that finds the run file its crashed predecessor left for the
\* same authority resumes from it.
CrashedStartResumes == \A p \in Advancers : result[p] # "orphan"

-------------------------------------------------------------------------------
(* The inductive invariant the safety properties above rest on *)

\* A flock is held exactly during the steps that need it.
Exclusion ==
    /\ \A p \in Advancers : opLock = p <=> pc[p] \in HoldsOperation
    /\ \A p \in Advancers : advLock = p <=> pc[p] \in HoldsAdvance
    /\ \A o \in Observers : o \in shared <=> opc[o] # "idle"
    /\ advLock # NoOne => shared = {}

\* Every file is what its name says.
Named ==
    /\ \A i \in DOMAIN runs : runs[i].id = i /\ runs[i].phase = "open" /\ IsRun(runs[i])
    /\ \A d \in revisions : Len(d.trail) > 1
    /\ active # NoRun /\ active.revision # NoFile => active.revision.id = active.run

\* A record about to be published may follow the one the writer loaded, and
\* once its file is written the selector for it reads it back.
Drafted ==
    \A p \in Advancers :
        /\ pc[p] \in {"write", "activate"} => Register!Publishes(seen[p].record, draft[p])
        /\ pc[p] = "write" => (draft[p].id \in DOMAIN runs <=> ~IsRun(draft[p]))
        /\ pc[p] = "activate" => /\ Readable(SelectorOf(draft[p]))
                                 /\ Content(SelectorOf(draft[p])) = draft[p]

IInv ==
    /\ TypeOK /\ Exclusion /\ Named /\ Drafted
    /\ ActiveReadable /\ WriterHoldsCurrent /\ ObserverSnapshot

\* Operation identities are drawn once, and from its first store to its last the
\* holder of operation.lock finds in the sidecar what it stored there.
Stored == InFn \cup {"flock", "contended", "resolve"}

SidecarMine ==
    \A p \in Advancers :
        /\ pc[p] # "idle" => op[p].id < nextOp
        /\ \A q \in Advancers \ {p} :
              pc[p] # "idle" /\ pc[q] # "idle" => op[p].id # op[q].id
        /\ opFile # NoOperation => opFile.id < nextOp
        /\ pc[p] \in {"start", "stamp"} /\ opFile # NoOperation => op[p].id # opFile.id
        /\ pc[p] \in Stored => /\ opFile # NoOperation
                               /\ opFile.id = op[p].id
                               /\ operationPhaseRank(opFile.phase)
                                      <= operationPhaseRank(op[p].phase)
                               /\ opFile.state = "active"
        /\ pc[p] \in InFn \cup {"start", "stamp", "flock", "resolve"} => op[p].state = "active"
        /\ pc[p] = "contended" => op[p].state # "active"

SidecarInv == TypeOK /\ Exclusion /\ SidecarMine /\ SidecarResolved
===============================================================================
