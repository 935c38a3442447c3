------------------------ MODULE NonLocalDeliveryProofs ------------------------
(***************************************************************************)
(* The safety of non-local delivery, for any required contexts and any     *)
(* number of candidates, positions of main, failures, edits and faults.    *)
(***************************************************************************)
EXTENDS NonLocalDelivery, WellFoundedInduction, TLAPS

-------------------------------------------------------------------------------
(* The inductive invariant *)

\* The steps of an invocation: those that publish or wait for checks, those that
\* hold checks the disk does not have yet, those that clean up locally, and all
\* that a record with an adopted merge allows.
Proving == {"readiness", "verify", "merge", "retry"}
Publications == {"push", "pushed", "create", "label", "confirm"} \cup Proving
Cleaning == {"cleanup", "remove-worktree", "delete-local-branch", "fast-forward"}
Finishing == {"capture", "delete-branch"} \cup Cleaning
Steps == {"idle", "resume", "candidate", "save"} \cup Publications \cup Finishing

Tips == 0..MaxCandidates \cup {Stranger}
Run == [run : Runs, conclusion : Conclusions, base : Mains]
Verdict == [run : Runs, attribution : {"infrastructure", "candidate"}]

\* Families of the required contexts, any of which may be missing.
Families(T) == UNION {[S -> T] : S \in SUBSET Required}

CheckLists == Families(Check)
RunLists == Families(Run)
VerdictLists == Families(Verdict)

Deliveries ==
    [branch : BOOLEAN, pr : {0} \cup Mains, prIntent : IntentStates, labelIntent : IntentStates,
     checks : CheckLists, status : Statuses, retries : SUBSET (Required \X Runs),
     failure : {NoFailure} \cup (Required \X Runs), mergeIntent : {NoIntent} \cup Intent,
     merge : BOOLEAN]
Records == [cand : Candidates, ready : BOOLEAN, state : States, nl : {NoDelivery} \cup Deliveries]
Views == [git : Candidates, issue : {"OPEN", "CLOSED"}, authorize : BOOLEAN,
          attr : VerdictLists, origin : {0} \cup Mains]
Request == [state : {"none", "OPEN", "MERGED"}, base : {0} \cup Mains, head : Tips,
            label : {"none", "exact", "other"}, visible : BOOLEAN]

Typed ==
    /\ disk \in Records /\ draft \in Records
    /\ pc \in Steps
    /\ IF pc = "idle" THEN view = NoView ELSE view \in Views
    /\ branch \in Tips /\ pr \in Request
    /\ ci \in [head : 0..MaxCandidates, of : RunLists]
    /\ merging \in [head : Tips, ours : BOOLEAN]
    /\ issue \in {"OPEN", "CLOSED"} /\ main \in Mains
    /\ gitHead \in Candidates /\ worktree \in BOOLEAN /\ localBranch \in BOOLEAN
    /\ localMain \in Mains /\ operator \in Nat
    /\ edits \in 0..MaxEdits /\ faults \in Nat /\ reran \in [Required -> Nat]

Merged(r) == r.nl # NoDelivery /\ r.nl.merge

\* What GitHub shows is about candidates up to the recorded one, and a request
\* and its checks about positions main has reached.
HubOrdered ==
    /\ pr.state = "none" => DOMAIN ci.of = {}
    /\ pr.state # "none" => 1 <= pr.base /\ pr.base <= main
    /\ pr.state = "MERGED" => pr.base < main
    /\ pr.state # "MERGED" => main <= MaxMain /\ issue = "OPEN"
    /\ \A id \in DOMAIN ci.of :
          ci.of[id].base <= pr.base /\ ci.of[id].run <= edits + ci.of[id].base
    /\ ci.head <= disk.cand /\ disk.cand <= gitHead /\ draft.cand <= gitHead
    /\ ci.head = disk.cand => disk.nl # NoDelivery
    /\ pc # "idle" =>
          /\ view.issue = "CLOSED" => issue = "CLOSED"
          /\ disk.cand <= view.git /\ view.git <= gitHead
    /\ pc = "confirm" => Listed

\* A record that may replace another: that of a later candidate, or one that
\* keeps the journal and an adopted merge with its proof.
Replaces(new, old) ==
    \/ new.cand > old.cand /\ new.nl = NoDelivery /\ ~Merged(old)
    \/ /\ new.cand = old.cand
       /\ old.nl # NoDelivery => new.nl # NoDelivery /\ old.nl.retries \subseteq new.nl.retries
       /\ Merged(old) => /\ new.nl.merge /\ new.nl.checks = old.nl.checks
                         /\ new.nl.pr = old.nl.pr

\* Until it is saved, a draft differs from the disk only in the checks it has
\* observed, and in the intent that these have ended.
DraftFollows ==
    /\ pc \notin Proving \cup {"save"} => draft = disk
    /\ pc \in Proving =>
          /\ draft.cand = disk.cand /\ draft.state = disk.state /\ disk.nl # NoDelivery
          /\ draft.nl.retries = disk.nl.retries /\ draft.nl.pr # 0
          /\ pc # "retry" => MergeGate(draft) /\ draft.nl.mergeIntent = disk.nl.mergeIntent
    /\ pc \in {"verify", "merge"} => draft.nl.mergeIntent # NoIntent
    /\ pc = "save" => Replaces(draft, disk)
    /\ pc \in Publications =>
          draft.nl # NoDelivery /\ draft.ready /\ ~Merged(disk) /\ ~Merged(draft)
    /\ pc = "resume" => HasPullRequest(disk)
    /\ pc # "idle" => Decodable(disk) /\ disk.state # "completed"

\* A record whose readiness, failure and merge agree, in a state it may have.
Sound(r, state) ==
    IF r.nl = NoDelivery THEN state # "completed"
    ELSE /\ ReadinessCoherent(r) /\ FailureCoherent(r)
         /\ r.nl.failure # NoFailure => r.nl.status = "candidate-failure"
         /\ r.nl.merge => /\ MergeGate(r) /\ r.nl.failure = NoFailure
                          /\ state \in {"waiting", "blocked", "completed"}
         /\ state = "completed" => r.nl.merge /\ r.nl.mergeIntent # NoIntent

RecordsSound == Sound(disk, disk.state) /\ Sound(draft, draft.state)

\* What an adopted merge says is so, and stays so while the workspace is cleaned.
MergeStands ==
    /\ \A r \in {disk, draft} : Merged(r) => pr.state = "MERGED" /\ pr.head = r.cand
    /\ Merged(disk) => pc \in {"idle", "save", "resume"} \cup Finishing
    /\ pc \in Finishing => Merged(disk)
    /\ pc \in Cleaning =>
          /\ disk.nl.mergeIntent # NoIntent
          /\ issue = "CLOSED" /\ branch = 0 /\ view.origin > pr.base
    /\ pc = "delete-local-branch" => ~worktree
    /\ pc = "fast-forward" => ~localBranch

CleanedInOrder ==
    /\ ~worktree => Merged(disk) /\ issue = "CLOSED" /\ branch = 0
    /\ ~localBranch => ~worktree
    /\ localMain # 1 => ~localBranch
    /\ draft.state = "completed" =>
          /\ pc \in {"save", "idle"} /\ Merged(draft) /\ ~localBranch /\ localMain > pr.base

\* The journal of the record the next save leaves, if it is of this candidate.
Journal == IF pc = "save" /\ draft.cand = disk.cand THEN draft.nl.retries ELSE disk.nl.retries

RetriesCounted ==
    /\ pc = "retry" =>
          /\ ci.head = disk.cand
          /\ Retry(draft) \in Required \X Runs /\ Retry(draft) \notin draft.nl.retries
    /\ \A id \in Required :
          /\ id \notin DOMAIN ci.of => reran[id] = 0
          /\ reran[id] <= 1 + faults
          /\ ci.head = disk.cand /\ id \in DOMAIN ci.of /\ <<id, ci.of[id].run>> \notin Journal =>
                reran[id] <= faults

IInv ==
    /\ Typed /\ HubOrdered /\ DraftFollows /\ RecordsSound
    /\ MergeStands /\ CleanedInOrder /\ RetriesCounted
-------------------------------------------------------------------------------
(* Families and records *)

\* A family over some of the contexts is a function on its domain.
LEMMA FamilyDef ==
    ASSUME NEW T, NEW f
    PROVE  f \in Families(T) <=> DOMAIN f \in SUBSET Required /\ f \in [DOMAIN f -> T]
  BY DEF Families

\* The records of TypeOK, without naming the contexts they have checks of.
LEMMA RecordsDef ==
    ASSUME NEW r
    PROVE  r \in Records <=> \E S \in SUBSET Required : r \in Record(S)
<1>1. ASSUME NEW S \in SUBSET Required, r \in Record(S)
      PROVE  r \in Records
  <2>1. [S -> Check] \subseteq CheckLists
    BY DEF CheckLists, Families
  <2>2. Delivery(S) \subseteq Deliveries
    BY <2>1 DEF Delivery, Deliveries
  <2> QED
    BY <1>1, <2>2 DEF Record, Records
<1>2. ASSUME r \in Records
      PROVE  \E S \in SUBSET Required : r \in Record(S)
  <2>1. CASE r.nl = NoDelivery
    BY <1>2, <2>1 DEF Record, Records
  <2>2. CASE r.nl # NoDelivery
    <3>1. r.nl \in Deliveries
      BY <1>2, <2>2 DEF Records
    <3>2. PICK S \in SUBSET Required : r.nl.checks \in [S -> Check]
      BY <3>1 DEF Deliveries, CheckLists, Families
    <3>3. r.nl \in Delivery(S)
      BY <3>1, <3>2 DEF Deliveries, Delivery
    <3> QED
      BY <1>2, <3>3 DEF Records, Record
  <2> QED
    BY <2>1, <2>2
<1> QED
  BY <1>1, <1>2

\* The placeholder is no delivery, whichever contexts that has checks of.
LEMMA NoneIsDelivery == NoDelivery \notin Deliveries
<1> SUFFICES ASSUME NoDelivery \in Deliveries
             PROVE  FALSE
  OBVIOUS
<1>1. PICK S \in SUBSET Required : NoDelivery.checks \in [S -> Check]
  BY DEF Deliveries, CheckLists, Families
<1>2. NoDelivery \in Delivery(S)
  BY <1>1 DEF Deliveries, Delivery
<1> QED
  BY <1>2, PlaceholderAssumption

\* A record or a commit without checks has the empty family.
LEMMA EmptyFamily == ASSUME NEW T PROVE Nothing \in Families(T) /\ DOMAIN Nothing = {}
  BY FamilyDef DEF Nothing

(* The constants. *)

\* What the proofs use of the constants.
LEMMA Constants ==
    /\ Governance \in Required
    /\ MaxCandidates \in Nat /\ MaxCandidates >= 1 /\ MaxMain \in Nat /\ MaxMain >= 1
    /\ MaxEdits \in Nat /\ Stranger \notin 0..MaxCandidates
    /\ Stranger \notin Candidates /\ Stranger # 0
    /\ NoFailure \notin Required \X Runs /\ NoIntent \notin Intent /\ NoDelivery \notin Deliveries
    /\ \A c \in Candidates : c \in Nat /\ c >= 1 /\ c <= MaxCandidates /\ c \in Commits
    /\ \A m \in Mains : m \in Nat /\ m >= 1 /\ m <= MaxMain + 1
  BY PolicyAssumption, DeliveryAssumption, PlaceholderAssumption, NoneIsDelivery DEF Candidates, Mains
-------------------------------------------------------------------------------
(* A record that is about to be saved *)

\* Nothing outside moves, whether or not the call failed.
Quiet == Untouched /\ faults' \in Nat /\ faults' >= faults

\* Settling a record changes its state and nothing else.
LEMMA Stated ==
    ASSUME NEW r \in Records, NEW state \in States
    PROVE  /\ [r EXCEPT !.state = state] \in Records
           /\ [r EXCEPT !.state = state].state = state
           /\ [r EXCEPT !.state = state].cand = r.cand
           /\ [r EXCEPT !.state = state].ready = r.ready
           /\ [r EXCEPT !.state = state].nl = r.nl
  BY DEF Records

\* Soundness does not depend on the state that is replaced.
LEMMA SoundOfParts ==
    ASSUME NEW r, NEW s, r.cand = s.cand, r.ready = s.ready, r.nl = s.nl, NEW state
    PROVE  Sound(r, state) <=> Sound(s, state)
  BY DEF Sound, ReadinessCoherent, FailureCoherent, MergeGate

\* persistAssuranceTransition: a record that may replace the one on disk can be
\* left to be written, from any step of an invocation.
LEMMA SettleSafe ==
    ASSUME IInv, NEW record \in Records, NEW state \in States, pc \notin {"idle", "save"},
           Settle(record, state), Quiet,
           Replaces(record, disk), record.cand <= gitHead, Sound(record, state),
           Merged(record) => pr.state = "MERGED" /\ pr.head = record.cand,
           state = "completed" => Merged(record) /\ ~localBranch /\ localMain > pr.base
    PROVE  IInv'
<1> DEFINE r == [record EXCEPT !.state = state]
<1>1. /\ r \in Records /\ r.state = state /\ r.cand = record.cand
      /\ r.ready = record.ready /\ r.nl = record.nl
  BY Stated
<1>2. pc' = "save" /\ draft' = r /\ UNCHANGED <<disk, view>>
  BY DEF Settle, GoTo
<1>3. UNCHANGED <<branch, pr, ci, merging, issue, main, gitHead, worktree, localBranch,
                  localMain, operator, edits, reran>>
  BY DEF Quiet, Untouched, hub, workspace
<1>4. Replaces(r, disk) /\ Merged(r) = Merged(record)
  BY <1>1 DEF Replaces, Merged
<1> HIDE DEF r
<1>5. Typed'
  BY <1>1, <1>2, <1>3 DEF IInv, Typed, Steps, Quiet
<1>6. HubOrdered'
  BY <1>1, <1>2, <1>3 DEF IInv, HubOrdered
<1>7. DraftFollows'
  BY <1>2, <1>3, <1>4 DEF IInv, DraftFollows, Proving, Publications, HasPullRequest, Decodable, Replaces, Merged
<1>8. RecordsSound'
  <2>1. Sound(r, r.state)
    BY <1>1, SoundOfParts
  <2> QED
    BY <1>2, <2>1 DEF IInv, RecordsSound
<1>9. MergeStands'
  BY <1>1, <1>2, <1>3, <1>4 DEF IInv, MergeStands, Finishing, Cleaning, Merged
<1>10. CleanedInOrder'
  BY <1>1, <1>2, <1>3, <1>4 DEF IInv, CleanedInOrder, Merged
<1>11. RetriesCounted'
  <2>1. Journal \subseteq Journal' \/ ci.head # disk.cand
    <3>1. CASE r.cand = disk.cand
      BY <1>1, <1>2, <1>4, <3>1, Constants DEF IInv, Typed, Records, HubOrdered, Journal, Replaces
    <3>2. CASE r.cand # disk.cand
      BY <1>1, <1>2, <3>2 DEF IInv, HubOrdered, Journal
    <3> QED
      BY <3>1, <3>2
  <2> QED
    BY <1>2, <1>3, <2>1 DEF IInv, Typed, RetriesCounted, Quiet
<1> QED
  BY <1>5, <1>6, <1>7, <1>8, <1>9, <1>10, <1>11 DEF IInv

\* The draft as it is may be saved, in any state its merge allows.
LEMMA HaltSafe ==
    ASSUME IInv, pc \notin {"idle", "save"}, NEW state \in States \ {"completed"},
           Merged(draft) => state \in {"waiting", "blocked"},
           Settle(draft, state), Quiet
    PROVE  IInv'
<1>1. draft \in Records
  BY DEF IInv, Typed
<1>2. Replaces(draft, disk)
  <2>1. CASE draft = disk
    BY <2>1 DEF Replaces, Merged
  <2>2. CASE pc \in Proving
    BY <2>2 DEF IInv, DraftFollows, Replaces, Publications
  <2> QED
    BY <2>1, <2>2 DEF IInv, DraftFollows
<1>3. Sound(draft, state)
  BY DEF IInv, RecordsSound, Sound, Merged
<1>4. Merged(draft) => pr.state = "MERGED" /\ pr.head = draft.cand
  BY DEF IInv, MergeStands
<1>5. draft.cand <= gitHead
  BY DEF IInv, HubOrdered
<1> QED
  BY <1>1, <1>2, <1>3, <1>4, <1>5, SettleSafe

\* An invocation that goes on with the record it has read.
LEMMA MoveSafe ==
    ASSUME IInv, pc \notin {"idle", "save"} \cup Proving,
           NEW p \in Steps \ ({"idle", "save", "resume"} \cup Proving), GoTo(p, draft), Quiet,
           p \in Publications => draft.nl # NoDelivery /\ draft.ready,
           IF Merged(disk) THEN p \in Finishing ELSE p \notin Finishing,
           p \in Cleaning => pc \in Cleaning,
           p = "confirm" => Listed,
           p = "delete-local-branch" => ~worktree,
           p = "fast-forward" => ~localBranch
    PROVE  IInv'
<1>1. pc' = p /\ draft = disk /\ UNCHANGED <<disk, draft, view>>
  BY DEF GoTo, IInv, DraftFollows
<1>2. UNCHANGED <<branch, pr, ci, merging, issue, main, gitHead, worktree, localBranch,
                  localMain, operator, edits, reran>>
  BY DEF Quiet, Untouched, hub, workspace
<1>3. Typed'
  BY <1>1, <1>2 DEF IInv, Typed, Quiet
<1>4. HubOrdered'
  BY <1>1, <1>2 DEF IInv, HubOrdered, Listed
<1>5. DraftFollows'
  BY <1>1, <1>2 DEF IInv, DraftFollows, Merged, HasPullRequest, Proving, Publications, Finishing,
                    Cleaning, Decodable
<1>6. RecordsSound'
  BY <1>1 DEF IInv, RecordsSound
<1>7. MergeStands'
  BY <1>1, <1>2 DEF IInv, MergeStands, Merged, Cleaning
<1>8. CleanedInOrder'
  BY <1>1, <1>2 DEF IInv, CleanedInOrder, DraftFollows, Merged
<1>9. RetriesCounted'
  BY <1>1, <1>2 DEF IInv, Typed, RetriesCounted, Journal, Quiet, Proving
<1> QED
  BY <1>3, <1>4, <1>5, <1>6, <1>7, <1>8, <1>9 DEF IInv

\* An invocation that ends without saving, as it should or because it dies.
LEMMA ReturnSafe ==
    ASSUME IInv, pc # "idle", Return, Quiet,
           pc = "save" => faults' > faults
    PROVE  IInv'
<1>1. pc' = "idle" /\ view' = NoView /\ draft' = disk /\ disk' = disk
  BY DEF Return
<1>2. UNCHANGED <<branch, pr, ci, merging, issue, main, gitHead, worktree, localBranch,
                  localMain, operator, edits, reran>>
  BY DEF Quiet, Untouched, hub, workspace
<1>3. Typed'
  BY <1>1, <1>2 DEF IInv, Typed, Steps, Quiet
<1>4. HubOrdered'
  BY <1>1, <1>2 DEF IInv, HubOrdered
<1>5. DraftFollows'
  BY <1>1 DEF DraftFollows, Proving, Publications
<1>6. RecordsSound'
  BY <1>1 DEF IInv, RecordsSound
<1>7. MergeStands'
  BY <1>1, <1>2 DEF IInv, MergeStands, Merged, Finishing, Cleaning
<1>8. CleanedInOrder'
  BY <1>1, <1>2 DEF IInv, CleanedInOrder, DraftFollows, Merged
<1>9. RetriesCounted'
  <2>1. Journal' = disk.nl.retries
    BY <1>1 DEF Journal
  <2>2. ASSUME NEW id \in Required
        PROVE  /\ reran[id] \in Nat /\ faults \in Nat /\ faults' \in Nat /\ faults <= faults'
               /\ reran[id] <= 1 + faults /\ (id \notin DOMAIN ci.of => reran[id] = 0)
    BY DEF IInv, RetriesCounted, Typed, Quiet
  <2>3. CASE pc = "save"
    BY <1>1, <1>2, <2>1, <2>2, <2>3 DEF RetriesCounted
  <2>4. CASE pc # "save"
    BY <1>1, <1>2, <2>1, <2>2, <2>4 DEF IInv, RetriesCounted, Journal
  <2> QED
    BY <2>3, <2>4
<1> QED
  BY <1>3, <1>4, <1>5, <1>6, <1>7, <1>8, <1>9 DEF IInv

\* A call that fails or answers without an effect changes nothing outside.
LEMMA CallsAreQuiet ==
    ASSUME IInv, Untouched, Works \/ Falters
    PROVE  Quiet /\ (Falters => faults' > faults)
  BY DEF Works, Falters, Quiet, IInv, Typed

-------------------------------------------------------------------------------
(* The steps of an invocation *)

\* An invocation begins with a record that loading accepts.
LEMMA BeginSafe == ASSUME IInv, Begin PROVE IInv'
<1>1. /\ pc = "idle" /\ Decodable(disk) /\ disk.state \notin {"completed", "superseded"}
      /\ pc' = IF HasPullRequest(disk) THEN "resume" ELSE "candidate"
      /\ UNCHANGED <<disk, draft, branch, pr, ci, merging, issue, main, gitHead, worktree,
                     localBranch, localMain, operator, edits, reran, faults>>
  BY DEF Begin, Works, Untouched, hub, workspace
<1>2. PICK authorize \in BOOLEAN, attr \in Attributable :
         view' = [git |-> gitHead, issue |-> issue, authorize |-> authorize,
                  attr |-> attr, origin |-> 0]
  BY DEF Begin
<1>3. attr \in VerdictLists
  <2>1. ci.of \in RunLists
    BY DEF IInv, Typed
  <2>2. DOMAIN ci.of \in SUBSET Required /\ \A id \in DOMAIN ci.of : ci.of[id] \in Run
    BY <2>1, FamilyDef DEF RunLists
  <2>3. PICK S \in SUBSET DOMAIN ci.of :
           attr \in [S -> UNION {[run : {ci.of[id].run}, attribution : {"infrastructure", "candidate"}] : id \in S}]
    BY DEF Attributable
  <2>4. \A id \in S : ci.of[id].run \in Runs
    BY <2>2, <2>3 DEF Run
  <2>5. UNION {[run : {ci.of[id].run}, attribution : {"infrastructure", "candidate"}] : id \in S} \subseteq Verdict
    BY <2>4 DEF Verdict
  <2>6. attr \in [S -> Verdict] /\ S \in SUBSET Required
    BY <2>2, <2>3, <2>5
  <2> QED
    BY <2>6 DEF VerdictLists, Families
<1>4. view'.git = gitHead /\ view'.issue = issue /\ view' \in Views
  BY <1>2, <1>3 DEF IInv, Typed, Views
<1>5. pc' \in {"resume", "candidate"} /\ draft = disk
  BY <1>1 DEF IInv, DraftFollows, Proving
<1>6. Typed'
  BY <1>1, <1>4, <1>5 DEF IInv, Typed, Steps
<1>7. HubOrdered'
  BY <1>1, <1>4 DEF IInv, HubOrdered, Typed, Candidates
<1>8. DraftFollows'
  BY <1>1, <1>5 DEF DraftFollows, Proving, Publications, HasPullRequest, Decodable, ReadinessCoherent,
                    JournalCoherent, StatusCoherent, IntentCoherent, FailureCoherent, MergeCoherent, MergeGate
<1>9. RecordsSound'
  BY <1>1 DEF IInv, RecordsSound
<1>10. MergeStands'
  <2>1. Merged(disk) => HasPullRequest(disk)
    BY DEF IInv, RecordsSound, Sound, Merged, MergeGate, HasPullRequest
  <2> QED
    BY <1>1, <1>5, <2>1 DEF IInv, MergeStands, Merged, Finishing, Cleaning
<1>11. CleanedInOrder'
  BY <1>1, <1>5 DEF IInv, CleanedInOrder, Merged
<1>12. RetriesCounted'
  BY <1>1, <1>5 DEF IInv, RetriesCounted, Journal
<1> QED
  BY <1>6, <1>7, <1>8, <1>9, <1>10, <1>11, <1>12 DEF IInv

\* The record is written: it replaces the one on disk, and the invocation ends.
LEMMA SaveSafe == ASSUME IInv, Save PROVE IInv'
<1>1. /\ pc = "save" /\ disk' = draft /\ pc' = "idle" /\ view' = NoView
      /\ UNCHANGED <<draft, branch, pr, ci, merging, issue, main, gitHead, worktree,
                     localBranch, localMain, operator, edits, reran, faults>>
  BY DEF Save, Works, Untouched, hub, workspace
<1>2. Replaces(draft, disk)
  BY <1>1 DEF IInv, DraftFollows
<1>3. disk.cand \in Nat /\ draft.cand \in Nat /\ gitHead \in Nat /\ ci.head \in Nat
  BY Constants DEF IInv, Typed, Records
<1>4. Typed'
  BY <1>1 DEF IInv, Typed, Steps
<1>5. HubOrdered'
  <2>1. ci.head <= draft.cand /\ (ci.head = draft.cand => draft.nl # NoDelivery)
    BY <1>2, <1>3 DEF IInv, HubOrdered, Replaces
  <2> QED
    BY <1>1, <2>1 DEF IInv, HubOrdered
<1>6. DraftFollows'
  BY <1>1 DEF DraftFollows, Proving, Publications
<1>7. RecordsSound'
  BY <1>1 DEF IInv, RecordsSound
<1>8. MergeStands'
  BY <1>1 DEF IInv, MergeStands, Merged, Finishing, Cleaning
<1>9. CleanedInOrder'
  <2>1. Merged(disk) => Merged(draft)
    BY <1>2 DEF Replaces, Merged
  <2> QED
    BY <1>1, <2>1 DEF IInv, CleanedInOrder, Merged
<1>10. RetriesCounted'
  <2>1. ASSUME ci.head = draft.cand
        PROVE  draft.cand = disk.cand
    BY <1>2, <1>3, <2>1 DEF IInv, HubOrdered, Replaces
  <2> QED
    BY <1>1, <2>1 DEF IInv, RetriesCounted, Journal
<1> QED
  BY <1>4, <1>5, <1>6, <1>7, <1>8, <1>9, <1>10 DEF IInv

\* An invocation dies, and leaves the disk as it was.
LEMMA CrashSafe == ASSUME IInv, Crash PROVE IInv'
  BY CallsAreQuiet, ReturnSafe DEF Crash

\* Every stop of an unmerged delivery, and every stop with an answer.
LEMMA StopSafe ==
    ASSUME IInv, pc \notin {"idle", "save"}, NEW state \in {"waiting", "blocked"},
           Settle(draft, state), Untouched, Works \/ Falters
    PROVE  IInv'
  BY CallsAreQuiet, HaltSafe DEF States

\* resumeMergedBeforeAuthority: a merge is adopted with its proof, or stops.
LEMMA ResumeSafe ==
    ASSUME IInv, \/ ResumeUnobserved \/ ResumeUnmerged \/ AdoptMerge
                 \/ ResumeAdopted \/ CaptureOperator
    PROVE  IInv'
<1>1. draft = disk /\ draft \in Records
  <2>1. pc \in {"resume", "capture"}
    BY DEF ResumeUnobserved, ResumeUnmerged, AdoptMerge, ResumeAdopted, CaptureOperator
  <2> QED
    BY <2>1 DEF IInv, DraftFollows, Proving, Typed
<1>2. ASSUME pc = "resume", ~draft.nl.merge, GoTo("candidate", draft), Untouched, Works \/ Falters
      PROVE  IInv'
  BY <1>1, <1>2, CallsAreQuiet, MoveSafe
     DEF Merged, Steps, Publications, Proving, Finishing, Cleaning
<1>3. CASE ResumeUnobserved
  BY <1>2, <1>3, StopSafe DEF ResumeUnobserved
<1>4. CASE ResumeUnmerged
  BY <1>2, <1>4, StopSafe DEF ResumeUnmerged
<1>5. CASE AdoptMerge
  <2>1. CASE Settle(draft, "blocked")
    BY <1>5, <2>1, StopSafe DEF AdoptMerge
  <2>2. CASE pr.head = Commit /\ MergeGate(draft) /\ Settle([draft EXCEPT !.nl.merge = TRUE], "waiting")
    <3> DEFINE r == [draft EXCEPT !.nl.merge = TRUE]
    <3>1. draft.nl \in Deliveries /\ draft.nl # NoDelivery
      BY <1>1, <1>5 DEF IInv, DraftFollows, HasPullRequest, AdoptMerge, Records
    <3>2. /\ r \in Records /\ r.cand = draft.cand /\ r.ready = draft.ready
          /\ r.nl \in Deliveries /\ r.nl.merge
          /\ \A f \in {"branch", "pr", "checks", "status", "retries", "failure", "mergeIntent"} :
                r.nl[f] = draft.nl[f]
      BY <1>1, <3>1 DEF Records, Deliveries
    <3>3. Replaces(r, disk) /\ r.cand <= gitHead
      BY <1>1, <1>5, <3>1, <3>2, NoneIsDelivery DEF Replaces, Merged, AdoptMerge, IInv, HubOrdered
    <3>4. Sound(r, "waiting")
      BY <1>1, <2>2, <3>1, <3>2, NoneIsDelivery
         DEF IInv, RecordsSound, Sound, ReadinessCoherent, FailureCoherent, MergeGate
    <3>5. pr.state = "MERGED" /\ pr.head = r.cand
      BY <1>5, <2>2, <3>2 DEF AdoptMerge, ObservesMerge, Commit
    <3>6. Quiet
      BY <1>5, CallsAreQuiet DEF AdoptMerge
    <3> QED
      BY <1>5, <2>2, <3>2, <3>3, <3>4, <3>5, <3>6, SettleSafe DEF AdoptMerge, States
  <2> QED
    BY <1>5, <2>1, <2>2 DEF AdoptMerge
<1>6. CASE ResumeAdopted
  <2>1. Merged(disk) /\ Quiet /\ pr.state = "MERGED"
    BY <1>1, <1>6, CallsAreQuiet DEF ResumeAdopted, IInv, DraftFollows, HasPullRequest, Merged, ObservesMerge
  <2>2. CASE \E p \in {"capture", "delete-branch"} : GoTo(p, draft)
    BY <1>6, <2>1, <2>2, MoveSafe DEF ResumeAdopted, Steps, Finishing, Cleaning, Publications, Proving
  <2>3. CASE \E state \in {"waiting", "blocked"} : Settle(draft, state)
    BY <1>6, <2>3, StopSafe DEF ResumeAdopted
  <2>4. CASE /\ draft.nl.mergeIntent # NoIntent /\ view.issue = "CLOSED" /\ branch \in {0, Commit}
             /\ branch # Commit /\ pc' = "cleanup" /\ view' = [view EXCEPT !.origin = main]
             /\ UNCHANGED <<disk, draft>>
    <3>1. UNCHANGED <<branch, pr, ci, merging, issue, main, gitHead, worktree, localBranch,
                      localMain, operator, edits, reran>>
      BY <2>1 DEF Quiet, Untouched, hub, workspace
    <3>2. view \in Views /\ pc = "resume"
      BY <1>6 DEF IInv, Typed, ResumeAdopted
    <3>3. /\ view' \in Views /\ view'.origin = main
          /\ view'.issue = view.issue /\ view'.git = view.git
      BY <2>4, <3>2 DEF Views, IInv, Typed
    <3>4. issue = "CLOSED" /\ branch = 0 /\ main > pr.base
      BY <2>1, <2>4, <3>2, Constants DEF IInv, HubOrdered, Typed, Request
    <3>5. Typed'
      BY <2>1, <2>4, <3>1, <3>3 DEF IInv, Typed, Steps, Finishing, Cleaning, Quiet
    <3>6. HubOrdered'
      BY <2>4, <3>1, <3>2, <3>3 DEF IInv, HubOrdered
    <3>7. DraftFollows'
      BY <1>1, <2>4, <3>2 DEF IInv, DraftFollows, Merged, HasPullRequest, Proving, Publications, Decodable
    <3>8. RecordsSound'
      BY <2>4 DEF IInv, RecordsSound
    <3>9. MergeStands'
      BY <1>1, <2>1, <2>4, <3>1, <3>3, <3>4 DEF IInv, MergeStands, Merged, Cleaning, Finishing
    <3>10. CleanedInOrder'
      BY <1>1, <2>4, <3>1, <3>2 DEF IInv, CleanedInOrder, Merged
    <3>11. RetriesCounted'
      BY <2>1, <2>4, <3>1, <3>2 DEF IInv, Typed, RetriesCounted, Journal, Quiet
    <3> QED
      BY <3>5, <3>6, <3>7, <3>8, <3>9, <3>10, <3>11 DEF IInv
  <2> QED
    BY <1>6, <2>2, <2>3, <2>4 DEF ResumeAdopted
<1>7. CASE CaptureOperator
  <2>1. CASE Settle(draft, "waiting")
    BY <1>7, <2>1, StopSafe DEF CaptureOperator
  <2>2. CASE Settle([draft EXCEPT !.nl.mergeIntent = IntentOf(draft)], "waiting")
    <3> DEFINE r == [draft EXCEPT !.nl.mergeIntent = IntentOf(draft)]
    <3>1. draft.nl \in Deliveries /\ draft.nl # NoDelivery /\ draft.nl.merge /\ draft.nl.pr # 0
      BY <1>1, <1>7 DEF IInv, MergeStands, Finishing, Merged, CaptureOperator, Records, RecordsSound, Sound, MergeGate
    <3>2. IntentOf(draft) \in Intent
      BY <3>1 DEF IntentOf, Intent, Deliveries, IInv, Typed
    <3>3. /\ r \in Records /\ r.cand = draft.cand /\ r.ready = draft.ready
          /\ r.nl \in Deliveries /\ r.nl.mergeIntent \in Intent
          /\ \A f \in {"branch", "pr", "checks", "status", "retries", "failure", "merge"} :
                r.nl[f] = draft.nl[f]
      BY <1>1, <3>1, <3>2 DEF Records, Deliveries
    <3>4. Replaces(r, disk) /\ r.cand <= gitHead
      BY <1>1, <3>1, <3>3, NoneIsDelivery DEF Replaces, Merged, IInv, HubOrdered
    <3>5. Sound(r, "waiting")
      BY <1>1, <3>1, <3>3, NoneIsDelivery
         DEF IInv, RecordsSound, Sound, ReadinessCoherent, FailureCoherent, MergeGate
    <3>6. pr.state = "MERGED" /\ pr.head = r.cand
      BY <3>1, <3>3 DEF IInv, MergeStands, Merged
    <3>7. Quiet
      BY <1>7, CallsAreQuiet DEF CaptureOperator
    <3> QED
      BY <1>7, <2>2, <3>3, <3>4, <3>5, <3>6, <3>7, SettleSafe DEF CaptureOperator, States
  <2> QED
    BY <1>7, <2>1, <2>2 DEF CaptureOperator
<1> QED
  BY <1>3, <1>4, <1>5, <1>6, <1>7

\* A new candidate, a closed issue, readiness and authorization.
LEMMA CandidateSafe ==
    ASSUME IInv,
           NewCandidate \/ Supersede \/ OffBranch \/ FailureStands \/ BecomeReady \/ Authorize
    PROVE  IInv'
<1>1. pc = "candidate" /\ Quiet
  BY CallsAreQuiet
     DEF NewCandidate, Supersede, OffBranch, FailureStands, BecomeReady, Authorize, AtCandidate
<1>2. /\ draft = disk /\ draft \in Records /\ ~Merged(disk) /\ view \in Views
      /\ disk.cand <= view.git /\ view.git <= gitHead /\ disk.cand <= gitHead
  BY <1>1 DEF IInv, DraftFollows, Proving, Typed, MergeStands, Finishing, Cleaning, HubOrdered
<1>3. CASE NewCandidate
  <2> DEFINE r == [draft EXCEPT !.cand = view.git, !.ready = FALSE, !.nl = NoDelivery]
  <2>1. r \in Records /\ r.cand = view.git /\ r.nl = NoDelivery
    BY <1>2 DEF Records, Views
  <2>2. view.git > disk.cand
    BY <1>2, <1>3, Constants DEF NewCandidate, Commit, Records, Views
  <2> QED
    BY <1>1, <1>2, <1>3, <2>1, <2>2, SettleSafe
       DEF NewCandidate, Replaces, Sound, Merged, States
<1>4. CASE Supersede
  BY <1>1, <1>2, <1>4, HaltSafe DEF Supersede, States
<1>5. CASE FailureStands
  BY <1>1, <1>5, ReturnSafe DEF FailureStands
<1>6. CASE BecomeReady
  <2> DEFINE r == [draft EXCEPT !.ready = TRUE]
  <2>1. r \in Records /\ r.cand = draft.cand /\ r.nl = NoDelivery
    BY <1>2, <1>6 DEF Records, BecomeReady
  <2> QED
    BY <1>1, <1>2, <1>6, <2>1, SettleSafe DEF BecomeReady, Replaces, Sound, Merged, States
<1>7. CASE Authorize
  <2> DEFINE r == [draft EXCEPT !.nl = Authorized]
  <2>1. CASE Return
    BY <1>1, <2>1, ReturnSafe
  <2>2. CASE Settle(r, "waiting")
    <3>1. /\ Authorized.pr = 0 /\ Authorized.checks = Nothing /\ Authorized.merge = FALSE
          /\ Authorized.failure = NoFailure
      BY DEF Authorized
    <3>2. Authorized \in Deliveries /\ DOMAIN Nothing = {}
      BY EmptyFamily DEF Authorized, Deliveries, CheckLists, IntentStates, Statuses
    <3>3. r \in Records /\ r.cand = draft.cand /\ r.ready = draft.ready /\ r.nl = Authorized
      BY <1>2, <3>2 DEF Records
    <3>4. draft.ready /\ draft.nl = NoDelivery
      BY <1>7 DEF Authorize
    <3> HIDE DEF r
    <3>5. Sound(r, "waiting")
      BY <3>1, <3>2, <3>3, <3>4, NoneIsDelivery
         DEF Sound, ReadinessCoherent, FailureCoherent
    <3>6. Replaces(r, disk) /\ ~Merged(r)
      BY <1>2, <3>1, <3>2, <3>3, <3>4, NoneIsDelivery DEF Replaces, Merged
    <3> QED
      BY <1>1, <1>2, <2>2, <3>3, <3>5, <3>6, SettleSafe DEF States
  <2> QED
    BY <1>7, <2>1, <2>2 DEF Authorize
<1>8. CASE OffBranch
  BY <1>1, <1>8, StopSafe DEF OffBranch
<1> QED
  BY <1>3, <1>4, <1>5, <1>6, <1>7, <1>8

\* What an amended record keeps, if it keeps its candidate, checks and intents.
LEMMA AmendSound ==
    ASSUME IInv, pc \in Publications \cup {"candidate"}, draft = disk,
           disk.nl # NoDelivery, disk.ready,
           NEW r \in Records, r.cand = draft.cand, r.ready = draft.ready, r.nl # NoDelivery,
           r.nl.checks = draft.nl.checks, r.nl.retries = draft.nl.retries,
           r.nl.failure = draft.nl.failure, r.nl.merge = draft.nl.merge,
           r.nl.pr # 0 \/ r.nl.pr = draft.nl.pr, r.nl.pr # 0 => r.nl.branch
    PROVE  Replaces(r, disk) /\ r.cand <= gitHead /\ ~Merged(r) /\ ~Merged(disk)
           /\ \A state \in {"waiting", "blocked"} : Sound(r, state)
<1>1. ~Merged(disk)
  BY DEF IInv, MergeStands, Publications, Proving, Finishing, Cleaning
<1>2. Sound(draft, draft.state)
  BY DEF IInv, RecordsSound
<1>3. draft.nl.failure = NoFailure
  BY <1>2 DEF Sound, FailureCoherent
<1>4. Replaces(r, disk) /\ r.cand <= gitHead
  BY <1>1 DEF Replaces, Merged, IInv, HubOrdered
<1>5. ~Merged(r)
  BY <1>1 DEF Merged
<1>6. ASSUME NEW state \in {"waiting", "blocked"}
      PROVE  Sound(r, state)
  BY <1>1, <1>2, <1>3, <1>5 DEF Sound, ReadinessCoherent, FailureCoherent, Merged
<1> QED
  BY <1>1, <1>4, <1>5, <1>6

\* What is under way on GitHub when an unmerged delivery acts there and then saves.
LEMMA EffectSafe ==
    ASSUME IInv, pc \in Publications \ {"save"},
           NEW record \in Records, NEW state \in {"waiting", "blocked"}, Settle(record, state),
           Replaces(record, disk), record.cand <= gitHead, ~Merged(record), Sound(record, state),
           UNCHANGED <<issue, main, workspace, edits>>, faults' \in Nat, faults' >= faults,
           branch' \in Tips, pr' \in Request, ci' \in [head : 0..MaxCandidates, of : RunLists],
           merging' \in [head : Tips, ours : BOOLEAN], reran' \in [Required -> Nat],
           HubOrdered',
           \A id \in Required :
              /\ id \notin DOMAIN ci'.of => reran'[id] = 0
              /\ reran'[id] <= 1 + faults'
              /\ ci'.head = disk.cand /\ id \in DOMAIN ci'.of /\ <<id, ci'.of[id].run>> \notin Journal' =>
                    reran'[id] <= faults'
    PROVE  IInv'
<1> DEFINE r == [record EXCEPT !.state = state]
<1>1. /\ r \in Records /\ r.state = state /\ r.cand = record.cand
      /\ r.ready = record.ready /\ r.nl = record.nl
  <2>1. state \in States
    BY DEF States
  <2> QED
    BY <2>1, Stated
<1>2. pc' = "save" /\ draft' = r /\ UNCHANGED <<disk, view>>
  BY DEF Settle, GoTo
<1>3. UNCHANGED <<gitHead, worktree, localBranch, localMain, operator>>
  BY DEF workspace
<1>4. Replaces(r, disk) /\ ~Merged(r)
  BY <1>1 DEF Replaces, Merged
<1>5. ~Merged(disk)
  BY DEF IInv, DraftFollows
<1> HIDE DEF r
<1>6. Typed'
  BY <1>1, <1>2, <1>3 DEF IInv, Typed, Steps, Publications, Proving
<1>7. DraftFollows'
  BY <1>2, <1>4 DEF IInv, DraftFollows, Proving, Publications, HasPullRequest, Decodable, Replaces, Merged
<1>8. RecordsSound'
  <2>1. Sound(r, r.state)
    BY <1>1, SoundOfParts
  <2> QED
    BY <1>2, <2>1 DEF IInv, RecordsSound
<1>9. MergeStands'
  BY <1>2, <1>4, <1>5 DEF MergeStands, Finishing, Cleaning, Merged
<1>10. CleanedInOrder'
  BY <1>1, <1>2, <1>3, <1>5 DEF IInv, CleanedInOrder, Merged
<1>11. RetriesCounted'
  BY <1>2 DEF RetriesCounted
<1> QED
  BY <1>6, <1>7, <1>8, <1>9, <1>10, <1>11 DEF IInv

\* advanceNonLocal: what is observed of branch, requests and label.
LEMMA PublishSafe ==
    ASSUME IInv, \/ PublishUnobserved \/ FindBranchBehind \/ PushedUnobserved
                 \/ FindStrangerOnBranch \/ RecordBranch \/ FindNoPullRequest
                 \/ FindOtherPullRequest \/ FindUnlabelled \/ FindPullRequest
    PROVE  IInv'
<1> USE DEF SeesRequests, SeesBranch, Publishing, AtCandidate
<1>1. pc \in {"candidate", "pushed"} /\ Untouched
  BY DEF PublishUnobserved, FindBranchBehind, PushedUnobserved, FindStrangerOnBranch, RecordBranch,
         FindNoPullRequest, FindOtherPullRequest, FindUnlabelled, FindPullRequest
<1>2. /\ draft = disk /\ draft \in Records /\ draft.nl # NoDelivery /\ draft.nl \in Deliveries
      /\ draft.ready /\ ~Merged(disk)
  <2>1. draft = disk /\ draft \in Records /\ ~Merged(disk)
    BY <1>1 DEF IInv, DraftFollows, Proving, Typed, MergeStands, Finishing, Cleaning
  <2>2. draft.nl # NoDelivery /\ draft.ready
    BY <1>1 DEF IInv, DraftFollows, Publications,
         PublishUnobserved, FindBranchBehind, PushedUnobserved, FindStrangerOnBranch, RecordBranch,
         FindNoPullRequest, FindOtherPullRequest, FindUnlabelled, FindPullRequest
  <2> QED
    BY <2>1, <2>2 DEF Records
<1>3. ASSUME NEW state \in {"waiting", "blocked"}, Settle(draft, state), Works \/ Falters
      PROVE  IInv'
  BY <1>1, <1>3, StopSafe
<1>4. ASSUME NEW p \in {"push", "create", "label", "confirm"}, p = "confirm" => Listed,
             GoTo(p, draft), Works
      PROVE  IInv'
  BY <1>1, <1>2, <1>4, CallsAreQuiet, MoveSafe DEF Steps, Publications, Proving, Finishing, Cleaning
<1>5. ASSUME NEW r \in Records, Settle(r, "waiting"), Works, r.cand = draft.cand, r.ready = draft.ready,
             r.nl # NoDelivery, r.nl.checks = draft.nl.checks, r.nl.retries = draft.nl.retries,
             r.nl.failure = draft.nl.failure, r.nl.merge = draft.nl.merge,
             r.nl.pr # 0 \/ r.nl.pr = draft.nl.pr, r.nl.pr # 0 => r.nl.branch
      PROVE  IInv'
  <2>1. Replaces(r, disk) /\ r.cand <= gitHead /\ ~Merged(r) /\ Sound(r, "waiting")
    BY <1>1, <1>2, <1>5, AmendSound DEF Publications
  <2> QED
    BY <1>1, <1>5, <2>1, CallsAreQuiet, SettleSafe DEF States
<1>6. draft.nl.pr # 0 => draft.nl.branch
  BY <1>2 DEF IInv, RecordsSound, Sound, ReadinessCoherent
<1>7. CASE PublishUnobserved
  BY <1>3, <1>7 DEF PublishUnobserved
<1>8. CASE FindBranchBehind
  BY <1>4, <1>8 DEF FindBranchBehind
<1>9. CASE PushedUnobserved
  BY <1>3, <1>9 DEF PushedUnobserved
<1>10. CASE FindStrangerOnBranch
  BY <1>3, <1>10 DEF FindStrangerOnBranch
<1>11. CASE RecordBranch
  <2> DEFINE r == [draft EXCEPT !.nl.branch = TRUE]
  <2>1. /\ r \in Records /\ r.cand = draft.cand /\ r.ready = draft.ready
        /\ r.nl \in Deliveries /\ r.nl.branch
        /\ \A f \in {"pr", "checks", "retries", "failure", "merge"} : r.nl[f] = draft.nl[f]
    BY <1>2 DEF Records, Deliveries
  <2> QED
    BY <1>5, <1>11, <2>1, NoneIsDelivery DEF RecordBranch
<1>12. CASE FindNoPullRequest
  <2> DEFINE r == [draft EXCEPT !.nl.prIntent = "prepared"]
  <2>1. /\ r \in Records /\ r.cand = draft.cand /\ r.ready = draft.ready /\ r.nl \in Deliveries
        /\ \A f \in {"branch", "pr", "checks", "retries", "failure", "merge"} :
              r.nl[f] = draft.nl[f]
    BY <1>2 DEF Records, Deliveries, IntentStates
  <2>2. CASE Settle(r, "waiting")
    BY <1>5, <1>6, <1>12, <2>1, <2>2, NoneIsDelivery DEF FindNoPullRequest
  <2> QED
    BY <1>3, <1>4, <1>12, <2>2 DEF FindNoPullRequest
<1>13. CASE FindOtherPullRequest
  BY <1>3, <1>13 DEF FindOtherPullRequest
<1>14. CASE FindUnlabelled
  <2> DEFINE r == [draft EXCEPT !.nl.labelIntent = "prepared"]
  <2>1. /\ r \in Records /\ r.cand = draft.cand /\ r.ready = draft.ready /\ r.nl \in Deliveries
        /\ \A f \in {"branch", "pr", "checks", "retries", "failure", "merge"} :
              r.nl[f] = draft.nl[f]
    BY <1>2 DEF Records, Deliveries, IntentStates
  <2>2. CASE Settle(r, "waiting")
    BY <1>5, <1>6, <1>14, <2>1, <2>2, NoneIsDelivery DEF FindUnlabelled
  <2> QED
    BY <1>3, <1>4, <1>14, <2>2 DEF FindUnlabelled
<1>15. CASE FindPullRequest
  <2> DEFINE r == [draft EXCEPT !.nl.pr = pr.base]
  <2>1. CASE GoTo("confirm", draft)
    BY <1>4, <1>15, <2>1 DEF FindPullRequest
  <2>2. CASE Settle(r, "waiting")
    <3>1. pr.base \in {0} \cup Mains /\ pr.base # 0 /\ draft.nl.branch
      BY <1>15 DEF FindPullRequest, Listed, IInv, Typed, Request, HubOrdered
    <3>2. /\ r \in Records /\ r.cand = draft.cand /\ r.ready = draft.ready
          /\ r.nl \in Deliveries /\ r.nl.pr # 0
          /\ \A f \in {"branch", "checks", "retries", "failure", "merge"} : r.nl[f] = draft.nl[f]
      BY <1>2, <3>1 DEF Records, Deliveries
    <3> QED
      BY <1>5, <1>15, <2>2, <3>1, <3>2, NoneIsDelivery DEF FindPullRequest
  <2> QED
    BY <1>15, <2>1, <2>2 DEF FindPullRequest
<1> QED
  BY <1>7, <1>8, <1>9, <1>10, <1>11, <1>12, <1>13, <1>14, <1>15

\* What every effect before the merge starts from and ends with.
LEMMA EffectContext ==
    ASSUME IInv, pc \in Publications
    PROVE  /\ draft \in Records /\ draft.nl # NoDelivery /\ draft.nl \in Deliveries
           /\ draft.ready /\ ~Merged(draft) /\ ~Merged(disk) /\ draft.cand = disk.cand
           /\ disk.nl # NoDelivery /\ disk.cand \in 0..MaxCandidates
           /\ Replaces(draft, disk) /\ draft.cand <= gitHead
           /\ \A state \in {"waiting", "blocked"} : Sound(draft, state)
<1>1. draft \in Records /\ draft.nl # NoDelivery /\ draft.ready /\ ~Merged(draft) /\ ~Merged(disk)
  BY DEF IInv, Typed, DraftFollows
<1>2. draft.cand = disk.cand /\ disk.nl # NoDelivery /\ draft.cand <= gitHead
  BY <1>1 DEF IInv, DraftFollows, Publications, HubOrdered
<1>3. Replaces(draft, disk)
  <2>1. draft.nl.retries = disk.nl.retries
    BY DEF IInv, DraftFollows, Publications
  <2> QED
    BY <1>1, <1>2, <2>1 DEF Replaces
<1>4. \A state \in {"waiting", "blocked"} : Sound(draft, state)
  BY <1>1 DEF IInv, RecordsSound, Sound, Merged
<1>5. draft.nl \in Deliveries
  BY <1>1 DEF Records
<1>6. disk.cand \in 0..MaxCandidates
  BY Constants DEF IInv, Typed, Records
<1> QED
  BY <1>1, <1>2, <1>3, <1>4, <1>5, <1>6

\* PushIssueBranch: the push, made, refused, failing or unreported.
LEMMA PushSafe == ASSUME IInv, Push PROVE IInv'
<1>1. pc = "push" /\ draft = disk /\ faults' \in Nat /\ faults' >= faults
  BY DEF Push, IInv, DraftFollows, Proving, Works, Falters, Typed
<1>2. CASE Untouched /\ Settle(draft, "waiting")
  BY <1>1, <1>2, StopSafe DEF Push
<1>3. CASE Pushable /\ Pushed
  <2>0. /\ draft \in Records /\ draft.cand = disk.cand /\ disk.nl # NoDelivery
        /\ disk.cand \in 0..MaxCandidates /\ ~Merged(draft) /\ ~Merged(disk)
        /\ Replaces(draft, disk) /\ draft.cand <= gitHead /\ Sound(draft, "waiting")
    BY <1>1, EffectContext DEF Publications
  <2>1. /\ branch' = disk.cand /\ UNCHANGED <<issue, main, workspace, failures, edits>>
        /\ pr' = IF pr.state = "OPEN" THEN [pr EXCEPT !.head = disk.cand] ELSE pr
        /\ ci' = IF ci.head = disk.cand THEN ci ELSE [head |-> disk.cand, of |-> Nothing]
        /\ merging' = IF merging.head = disk.cand THEN merging ELSE [head |-> 0, ours |-> FALSE]
        /\ reran' = IF ci.head = disk.cand THEN reran ELSE [id \in Required |-> 0]
    BY <1>1, <1>3 DEF Pushed, Commit
  <2>2. branch' \in Tips /\ pr' \in Request /\ merging' \in [head : Tips, ours : BOOLEAN]
    <3>1. disk.cand \in Tips /\ 0 \in Tips
      BY <2>0, Constants DEF Tips
    <3>2. pr \in Request /\ merging \in [head : Tips, ours : BOOLEAN]
      BY DEF IInv, Typed
    <3>3. pr' \in Request
      BY <2>1, <3>1, <3>2 DEF Request
    <3> QED
      BY <2>1, <3>1, <3>2, <3>3
  <2>3. /\ pr'.state = pr.state /\ pr'.base = pr.base
    BY <2>1 DEF IInv, Typed, Request
  <2>4. ci' \in [head : 0..MaxCandidates, of : RunLists] /\ ci'.head = disk.cand
    BY <2>0, <2>1, EmptyFamily DEF IInv, Typed, RunLists
  <2>5. ci' = ci \/ (ci.head # disk.cand /\ DOMAIN ci'.of = {})
    <3>1. ci'.of = Nothing \/ ci' = ci
      BY <2>1
    <3> QED
      BY <2>1, <3>1, EmptyFamily
  <2>6. reran' \in [Required -> Nat] /\ ((ci' = ci /\ reran' = reran) \/ \A id \in Required : reran'[id] = 0)
    BY <2>1 DEF IInv, Typed
  <2>7. ASSUME UNCHANGED <<disk, view>>, draft' = disk \/ draft' = [disk EXCEPT !.state = "waiting"],
               pc' \notin {"idle", "confirm"}
        PROVE  HubOrdered'
    <3>1. draft'.cand = disk.cand
      BY <1>1, <2>0, <2>7 DEF Records
    <3>2. UNCHANGED gitHead
      BY <2>1 DEF workspace
    <3>3. \A id \in DOMAIN ci'.of :
             ci'.of[id].base <= pr'.base /\ ci'.of[id].run <= edits' + ci'.of[id].base
      BY <2>1, <2>3, <2>5 DEF IInv, HubOrdered
    <3>4. pr'.state = "none" => DOMAIN ci'.of = {}
      BY <2>3, <2>5 DEF IInv, HubOrdered
    <3> QED
      BY <1>1, <2>0, <2>1, <2>3, <2>4, <2>7, <3>1, <3>2, <3>3, <3>4, Constants DEF IInv, HubOrdered, Typed
  <2>8. ASSUME disk' = disk, Journal' = disk.nl.retries
        PROVE  \A id \in Required :
                  /\ id \notin DOMAIN ci'.of => reran'[id] = 0
                  /\ reran'[id] <= 1 + faults'
                  /\ ci'.head = disk.cand /\ id \in DOMAIN ci'.of /\ <<id, ci'.of[id].run>> \notin Journal' =>
                        reran'[id] <= faults'
    <3>1. CASE ci' = ci /\ reran' = reran
      BY <1>1, <2>8, <3>1 DEF IInv, RetriesCounted, Journal, Typed
    <3>2. CASE \A id \in Required : reran'[id] = 0
      BY <1>1, <3>2
    <3> QED
      BY <2>6, <3>1, <3>2
  <2>9. CASE Settle(draft, "waiting")
    <3>1. pc' = "save" /\ draft' = [draft EXCEPT !.state = "waiting"] /\ UNCHANGED <<disk, view>>
      BY <2>9 DEF Settle, GoTo
    <3>2. Journal' = disk.nl.retries
      BY <1>1, <2>0, <3>1, Stated DEF Journal, States
    <3>3. HubOrdered'
      BY <1>1, <2>7, <3>1
    <3> QED
      BY <1>1, <2>0, <2>1, <2>2, <2>4, <2>6, <2>8, <2>9, <3>1, <3>2, <3>3, EffectSafe DEF Publications
  <2>10. CASE GoTo("pushed", draft)
    <3>1. pc' = "pushed" /\ UNCHANGED <<disk, view, draft>>
      BY <2>10 DEF GoTo
    <3>2. UNCHANGED <<gitHead, worktree, localBranch, localMain, operator>>
      BY <2>1 DEF workspace
    <3>3. Typed'
      BY <1>1, <2>1, <2>2, <2>4, <2>6, <3>1, <3>2 DEF IInv, Typed, Steps, Publications
    <3>4. HubOrdered'
      BY <1>1, <2>7, <3>1
    <3>5. DraftFollows'
      BY <1>1, <3>1 DEF IInv, DraftFollows, Publications, Proving, Merged, HasPullRequest, Decodable
    <3>6. RecordsSound'
      BY <3>1 DEF IInv, RecordsSound
    <3>7. MergeStands'
      BY <2>0, <3>1 DEF MergeStands, Merged, Finishing, Cleaning
    <3>8. CleanedInOrder'
      BY <1>1, <2>0, <3>1, <3>2 DEF IInv, CleanedInOrder, Merged
    <3>9. RetriesCounted'
      BY <2>8, <3>1 DEF RetriesCounted, Journal
    <3> QED
      BY <3>3, <3>4, <3>5, <3>6, <3>7, <3>8, <3>9 DEF IInv
  <2> QED
    BY <1>3, <2>9, <2>10 DEF Push, Untouched
<1> QED
  BY <1>2, <1>3 DEF Push

\* An effect that leaves the branch and the checks alone.
LEMMA RequestSafe ==
    ASSUME IInv, pc \in Publications,
           NEW record \in Records, Settle(record, "waiting"), record.cand = disk.cand,
           Replaces(record, disk), record.cand <= gitHead, ~Merged(record), Sound(record, "waiting"),
           UNCHANGED <<branch, ci, issue, main, workspace, edits, reran>>,
           Works \/ Falters, pr' \in Request, merging' \in [head : Tips, ours : BOOLEAN],
           \/ pr'.state = pr.state /\ pr'.base = pr.base
           \/ pr.state = "none" /\ pr'.state = "OPEN" /\ pr'.base = main
    PROVE  IInv'
<1>1. faults' \in Nat /\ faults' >= faults
  BY DEF IInv, Typed, Works, Falters
<1>2. pc' = "save" /\ draft' = [record EXCEPT !.state = "waiting"] /\ UNCHANGED <<disk, view>>
  BY DEF Settle, GoTo
<1>3. draft'.cand = disk.cand /\ draft'.nl = record.nl
  BY <1>2 DEF Records
<1>4. UNCHANGED gitHead
  BY DEF workspace
<1>5. HubOrdered'
  <2>1. pr.state = "none" => DOMAIN ci.of = {}
    BY DEF IInv, HubOrdered
  <2>2. main \in Nat /\ main >= 1
    BY Constants DEF IInv, Typed
  <2>3. pc # "idle"
    BY DEF Publications, Proving
  <2> QED
    BY <1>2, <1>3, <1>4, <2>1, <2>2, <2>3 DEF IInv, HubOrdered
<1>6. disk.nl.retries \subseteq Journal'
  BY <1>2, <1>3, EffectContext DEF Journal, Replaces
<1>7. ASSUME NEW id \in Required
      PROVE  /\ id \notin DOMAIN ci'.of => reran'[id] = 0
             /\ reran'[id] <= 1 + faults'
             /\ ci'.head = disk.cand /\ id \in DOMAIN ci'.of /\ <<id, ci'.of[id].run>> \notin Journal' =>
                   reran'[id] <= faults'
  <2>1. Journal = disk.nl.retries
    BY DEF Journal, Publications, Proving
  <2> QED
    BY <1>1, <1>6, <2>1 DEF IInv, RetriesCounted, Typed
<1>8. branch \in Tips /\ ci \in [head : 0..MaxCandidates, of : RunLists] /\ reran \in [Required -> Nat]
  BY DEF IInv, Typed
<1> QED
  BY <1>1, <1>5, <1>7, <1>8, EffectSafe DEF Publications, Proving

\* EnsurePullRequest: the request, made, found, refused or unreported.
LEMMA CreateSafe == ASSUME IInv, CreatePullRequest PROVE IInv'
<1> DEFINE r == [draft EXCEPT !.nl.prIntent = "dispatched"]
<1>1. pc = "create" /\ draft = disk
  BY DEF CreatePullRequest, IInv, DraftFollows, Proving
<1>2. /\ draft \in Records /\ draft.nl \in Deliveries /\ draft.nl # NoDelivery /\ draft.ready
      /\ draft.cand = disk.cand /\ ~Merged(draft) /\ Replaces(draft, disk) /\ draft.cand <= gitHead
      /\ Sound(draft, "waiting")
  BY <1>1, EffectContext DEF Publications
<1>3. /\ r \in Records /\ r.cand = draft.cand /\ r.ready = draft.ready /\ r.nl \in Deliveries
      /\ \A f \in {"branch", "pr", "checks", "retries", "failure", "merge"} : r.nl[f] = draft.nl[f]
  BY <1>2 DEF Records, Deliveries, IntentStates
<1> HIDE DEF r
<1>4. Replaces(r, disk) /\ r.cand <= gitHead /\ ~Merged(r) /\ Sound(r, "waiting")
  <2>1. draft.nl.pr # 0 => draft.nl.branch
    BY <1>2 DEF Sound, ReadinessCoherent
  <2> QED
    BY <1>1, <1>2, <1>3, <2>1, NoneIsDelivery, AmendSound DEF Publications
<1>5. PICK record \in {draft, r} : Settle(record, "waiting")
  BY DEF CreatePullRequest, r
<1>6. Works \/ Falters
  BY DEF CreatePullRequest
<1>7. CASE Untouched
  BY <1>1, <1>2, <1>3, <1>4, <1>5, <1>6, <1>7, CallsAreQuiet, SettleSafe DEF States
<1>8. CASE Created
  <2>1. /\ pr.state = "none"
        /\ pr' = [state |-> "OPEN", base |-> main, head |-> branch, label |-> "exact", visible |-> FALSE]
        /\ UNCHANGED <<branch, ci, merging, issue, main, workspace, edits, reran>>
    BY <1>8 DEF Created
  <2>2. pr' \in Request /\ pr'.state = "OPEN" /\ pr'.base = main
    BY <2>1 DEF IInv, Typed, Request
  <2>3. merging \in [head : Tips, ours : BOOLEAN]
    BY DEF IInv, Typed
  <2> QED
    BY <1>1, <1>2, <1>3, <1>4, <1>5, <1>6, <2>1, <2>2, <2>3, RequestSafe DEF Publications
<1> QED
  BY <1>7, <1>8 DEF CreatePullRequest

\* EnsurePullRequestProfile: the label, set, refused or unreported.
LEMMA LabelSafe == ASSUME IInv, LabelPullRequest PROVE IInv'
<1> DEFINE r == [draft EXCEPT !.nl.labelIntent = "dispatched"]
<1>1. pc = "label" /\ draft = disk
  BY DEF LabelPullRequest, IInv, DraftFollows, Proving
<1>2. /\ draft \in Records /\ draft.nl \in Deliveries /\ draft.nl # NoDelivery /\ draft.ready
      /\ draft.cand = disk.cand /\ ~Merged(draft) /\ Replaces(draft, disk) /\ draft.cand <= gitHead
      /\ Sound(draft, "waiting")
  BY <1>1, EffectContext DEF Publications
<1>3. /\ r \in Records /\ r.cand = draft.cand /\ r.ready = draft.ready /\ r.nl \in Deliveries
      /\ \A f \in {"branch", "pr", "checks", "retries", "failure", "merge"} : r.nl[f] = draft.nl[f]
  BY <1>2 DEF Records, Deliveries, IntentStates
<1> HIDE DEF r
<1>4. Replaces(r, disk) /\ r.cand <= gitHead /\ ~Merged(r) /\ Sound(r, "waiting")
  <2>1. draft.nl.pr # 0 => draft.nl.branch
    BY <1>2 DEF Sound, ReadinessCoherent
  <2> QED
    BY <1>1, <1>2, <1>3, <2>1, NoneIsDelivery, AmendSound DEF Publications
<1>5. PICK record \in {draft, r} : Settle(record, "waiting")
  BY DEF LabelPullRequest, r
<1>6. Works \/ Falters
  BY DEF LabelPullRequest
<1>7. CASE Untouched
  BY <1>1, <1>2, <1>3, <1>4, <1>5, <1>6, <1>7, CallsAreQuiet, SettleSafe DEF States
<1>8. CASE Labelled
  <2>1. /\ pr' = [pr EXCEPT !.label = "exact"]
        /\ UNCHANGED <<branch, ci, merging, issue, main, workspace, edits, reran>>
    BY <1>8 DEF Labelled
  <2>2. pr' \in Request /\ pr'.state = pr.state /\ pr'.base = pr.base
    BY <2>1 DEF IInv, Typed, Request
  <2>3. merging \in [head : Tips, ours : BOOLEAN]
    BY DEF IInv, Typed
  <2> QED
    BY <1>1, <1>2, <1>3, <1>4, <1>5, <1>6, <2>1, <2>2, <2>3, RequestSafe DEF Publications
<1> QED
  BY <1>7, <1>8 DEF LabelPullRequest

-------------------------------------------------------------------------------
(* Required checks *)

\* The policy answers with one of its states.
LEMMA PolicyAnswers ==
    ASSUME NEW obs, NEW head, NEW base
    PROVE  evaluateCIPolicy(obs, head, base) \in Statuses
  BY DEF evaluateCIPolicy, Statuses

\* A failure that is blamed on a is a check of that attribution which failed.
LEMMA BlameIsListed ==
    ASSUME NEW obs, NEW head, NEW a, Blamed(obs, head, a)
    PROVE  \E i \in DOMAIN obs : obs[i].attribution = a /\ obs[i].conclusion \in Failing
<1>1. PICK id \in Failures(obs, head) : ReportOf(obs, id).attribution = a
  BY DEF Blamed
<1>2. Class(obs, head, id) \in {"failed", "cancelled"}
  BY DEF Failures
<1>3. Reported(obs, id) # {} /\ Classification(head, ReportOf(obs, id)) \in {"failed", "cancelled"}
  BY <1>2 DEF Class
<1>4. PICK i \in Reported(obs, id) : ReportOf(obs, id) = obs[i]
  BY <1>3 DEF ReportOf
<1>5. obs[i].conclusion \in Failing
  BY <1>3, <1>4 DEF Classification, Failing
<1> QED
  BY <1>1, <1>4, <1>5 DEF Reported

\* Of the checks that failed so, firstFailedAttributedCheck takes one.
LEMMA FirstFailedExists ==
    ASSUME NEW checks \in CheckLists, NEW a,
           \E id \in DOMAIN checks : checks[id].attribution = a /\ checks[id].conclusion \in Failing
    PROVE  LET id == FirstFailed(checks, a)
           IN  /\ id \in DOMAIN checks /\ checks[id].attribution = a
               /\ id \in Required /\ checks[id].run \in Runs
<1> DEFINE Failed(id) == checks[id].attribution = a /\ checks[id].conclusion \in Failing
           F == {id \in DOMAIN checks : Failed(id)}
           T == {Rank[id] : id \in F}
<1>1. DOMAIN checks \subseteq Required /\ \A id \in DOMAIN checks : checks[id] \in Check
  BY FamilyDef DEF CheckLists
<1>2. T \subseteq Nat /\ T # {}
  BY <1>1, DeliveryAssumption
<1>3. \E n \in T : \A m \in T : ~(m < n)
  <2> HIDE DEF T
  <2>1. PICK n \in T : \A m \in T : <<m, n>> \notin OpToRel(<, Nat)
    BY <1>2, NatLessThanWellFounded, WFMin
  <2> QED
    BY <1>2, <2>1, Zenon DEF OpToRel
<1>4. PICK n \in T : \A m \in T : n <= m
  <2> HIDE DEF T
  <2> QED
    BY <1>2, <1>3
<1>5. PICK id \in F : Rank[id] = n
  BY <1>3
<1>6. id \in DOMAIN checks /\ Failed(id) /\ \A j \in DOMAIN checks : Failed(j) => Rank[id] <= Rank[j]
  BY <1>4, <1>5
<1>7. FirstFailed(checks, a) \in DOMAIN checks /\ Failed(FirstFailed(checks, a))
  <2> HIDE DEF Failed
  <2>1. FirstFailed(checks, a) =
          CHOOSE i \in DOMAIN checks :
             Failed(i) /\ \A j \in DOMAIN checks : Failed(j) => Rank[i] <= Rank[j]
    BY DEF FirstFailed, Failed
  <2> QED
    BY <1>6, <2>1
<1> QED
  BY <1>1, <1>7 DEF Check

\* The observed checks are those a record can hold.
LEMMA ChecksTyped ==
    ASSUME IInv, pc \notin {"idle", "save"}
    PROVE  Checks(Commit) \in CheckLists
<1>1. draft.cand \in Candidates /\ draft.cand \in Nat
  BY Constants DEF IInv, Typed, Records
<1>2. CASE ~(Listed /\ ci.head = draft.cand)
  BY <1>2, EmptyFamily DEF Checks, Commit, CheckLists
<1>3. CASE Listed /\ ci.head = draft.cand
  <2>1. DOMAIN ci.of \in SUBSET Required /\ \A id \in DOMAIN ci.of : ci.of[id] \in Run
    BY FamilyDef DEF IInv, Typed, RunLists
  <2>2. \A id \in DOMAIN view.attr : view.attr[id] \in Verdict
    BY FamilyDef DEF IInv, Typed, Views, VerdictLists
  <2>3. pr.base \in Nat
    BY Constants DEF IInv, Typed, Request
  <2>4. ASSUME NEW id \in DOMAIN ci.of
        PROVE  [identity |-> id, conclusion |-> ci.of[id].conclusion, head |-> draft.cand,
                kind |-> IF id = Governance THEN "commit-status" ELSE "check-run",
                ref |-> IF id = Governance THEN pr.base ELSE draft.cand, linked |-> TRUE,
                attribution |-> IF id \in DOMAIN view.attr THEN view.attr[id].attribution ELSE "",
                run |-> ci.of[id].run] \in Check
    <3>1. id \in Required /\ ci.of[id].conclusion \in Conclusions /\ ci.of[id].run \in Runs
      BY <2>1 DEF Run
    <3>2. (IF id \in DOMAIN view.attr THEN view.attr[id].attribution ELSE "") \in Attributions
      BY <2>2 DEF Verdict, Attributions
    <3>3. (IF id = Governance THEN pr.base ELSE draft.cand) \in Nat
      BY <1>1, <2>3
    <3> QED
      BY <1>1, <3>1, <3>2, <3>3 DEF Check
  <2>5. Checks(Commit) \in [DOMAIN ci.of -> Check]
    BY <1>3, <2>4 DEF Checks, Commit
  <2> QED
    BY <2>1, <2>5 DEF CheckLists, Families
<1> QED
  BY <1>2, <1>3

\* What a confirmed delivery holds of the record it has read.
LEMMA EvaluatedSound ==
    ASSUME IInv, Confirms, Unchanged
    PROVE  /\ Evaluated \in Records /\ Evaluated.cand = disk.cand /\ Evaluated.ready
           /\ Evaluated.state = disk.state /\ Evaluated.nl \in Deliveries
           /\ Evaluated.nl.checks = Checks(Commit) /\ Evaluated.nl.status = Policy
           /\ Evaluated.nl.retries = disk.nl.retries /\ Evaluated.nl.pr = pr.base
           /\ Evaluated.nl.pr # 0 /\ Evaluated.nl.branch /\ Evaluated.nl.failure = NoFailure
           /\ Evaluated.nl.mergeIntent =
                IF Policy = "success" THEN disk.nl.mergeIntent ELSE NoIntent
           /\ ~Evaluated.nl.merge /\ Replaces(Evaluated, disk)
           /\ \A state \in {"waiting", "blocked"} : Sound(Evaluated, state)
           /\ draft = disk /\ disk.nl # NoDelivery /\ disk.nl \in Deliveries /\ ~Merged(disk)
           /\ disk.cand <= gitHead /\ disk \in Records /\ ci.head = disk.cand /\ Quiet
<1>1. pc = "confirm" /\ draft = disk
  BY DEF Confirms, IInv, DraftFollows, Proving
<1>2. /\ draft \in Records /\ draft.nl \in Deliveries /\ draft.nl # NoDelivery /\ draft.ready
      /\ ~Merged(draft) /\ draft.cand <= gitHead
  BY <1>1, EffectContext DEF Publications
<1>3. Checks(Commit) \in CheckLists /\ Policy \in Statuses
  BY <1>1, ChecksTyped, PolicyAnswers DEF Policy
<1>4. /\ Evaluated \in Records /\ Evaluated.cand = draft.cand /\ Evaluated.ready = draft.ready
      /\ Evaluated.state = draft.state
      /\ Evaluated.nl \in Deliveries
      /\ Evaluated.nl.checks = Checks(Commit) /\ Evaluated.nl.status = Policy
      /\ Evaluated.nl.mergeIntent = IF Policy = "success" THEN draft.nl.mergeIntent ELSE NoIntent
      /\ \A f \in {"branch", "pr", "retries", "failure", "merge"} :
            Evaluated.nl[f] = draft.nl[f]
  BY <1>2, <1>3 DEF Evaluated, Records, Deliveries
<1>5. pr.base = draft.nl.pr /\ pr.base # 0
  BY Constants DEF Unchanged, ExactPullRequest, IInv, HubOrdered, Typed, Request
<1>6. draft.nl.failure = NoFailure /\ draft.nl.branch
  BY <1>1, <1>2, <1>5 DEF IInv, RecordsSound, Sound, FailureCoherent, ReadinessCoherent
<1>7. ~draft.nl.merge
  BY <1>2 DEF Merged
<1>8. Replaces(Evaluated, disk)
  BY <1>1, <1>2, <1>4, NoneIsDelivery DEF Replaces
<1>9. ASSUME NEW state \in {"waiting", "blocked"}
      PROVE  Sound(Evaluated, state)
  BY <1>1, <1>2, <1>4, <1>5, <1>6, <1>7, NoneIsDelivery DEF Sound, ReadinessCoherent, FailureCoherent
<1>10. ci.head = disk.cand
  <2>1. DOMAIN Checks(Commit) # {}
    BY DEF Confirms, NilChecks, IInv, HubOrdered
  <2> QED
    BY <1>1, <2>1, EmptyFamily DEF Checks, Commit
<1>11. Quiet
  BY CallsAreQuiet DEF Confirms
<1> QED
  BY <1>1, <1>2, <1>4, <1>5, <1>6, <1>7, <1>8, <1>9, <1>10, <1>11

\* An invocation that goes on with the checks it has just observed.
LEMMA ProvingSafe ==
    ASSUME IInv, Confirms, Unchanged, NEW p \in {"readiness", "retry"}, GoTo(p, Evaluated),
           p = "readiness" => Policy = "success",
           p = "retry" => /\ Retry(Evaluated) \in Required \X Runs
                          /\ Retry(Evaluated) \notin disk.nl.retries
    PROVE  IInv'
<1> DEFINE E == Evaluated
<1>1. /\ E \in Records /\ E.cand = disk.cand /\ E.ready /\ E.state = disk.state
      /\ E.nl # NoDelivery /\ E.nl.checks = Checks(Commit) /\ E.nl.status = Policy
      /\ E.nl.retries = disk.nl.retries /\ E.nl.pr = pr.base /\ E.nl.pr # 0
      /\ E.nl.mergeIntent = (IF Policy = "success" THEN disk.nl.mergeIntent ELSE NoIntent)
      /\ ~E.nl.merge /\ \A state \in {"waiting", "blocked"} : Sound(E, state)
  BY EvaluatedSound, NoneIsDelivery
<1>2. /\ draft = disk /\ disk.nl # NoDelivery /\ ~Merged(disk) /\ disk.cand <= gitHead
      /\ ci.head = disk.cand /\ Quiet /\ pc = "confirm"
  BY EvaluatedSound DEF Confirms
<1>3. pc' = p /\ draft' = E /\ UNCHANGED <<disk, view>>
  BY DEF GoTo
<1>4. UNCHANGED <<branch, pr, ci, merging, issue, main, gitHead, worktree, localBranch,
                  localMain, operator, edits, reran>>
  BY <1>2 DEF Quiet, Untouched, hub, workspace
<1>5. p = "readiness" => MergeGate(E)
  BY <1>1, <1>2 DEF MergeGate, Policy, Commit
<1> HIDE DEF E
<1>6. Typed'
  BY <1>1, <1>2, <1>3, <1>4 DEF IInv, Typed, Steps, Publications, Proving, Quiet
<1>7. HubOrdered'
  BY <1>1, <1>2, <1>3, <1>4 DEF IInv, HubOrdered
<1>8. DraftFollows'
  BY <1>1, <1>2, <1>3, <1>5 DEF IInv, DraftFollows, Publications, Proving, Merged, Decodable, E
<1>9. RecordsSound'
  <2>1. disk.state # "completed" /\ Sound(E, "waiting") /\ E.nl.failure = NoFailure
    BY <1>1, <1>2, EvaluatedSound DEF IInv, DraftFollows, E
  <2>2. Sound(E, E.state)
    BY <1>1, <2>1 DEF Sound
  <2> QED
    BY <1>3, <2>2 DEF IInv, RecordsSound
<1>10. MergeStands'
  BY <1>1, <1>2, <1>3 DEF MergeStands, Merged, Finishing, Cleaning
<1>11. CleanedInOrder'
  BY <1>1, <1>2, <1>3, <1>4 DEF IInv, CleanedInOrder, DraftFollows, Merged
<1>12. RetriesCounted'
  <2>1. p = "retry" => Retry(E) \in Required \X Runs /\ Retry(E) \notin E.nl.retries
    BY <1>1 DEF E
  <2>2. (pc = "retry")' => /\ ci'.head = disk'.cand
                           /\ Retry(draft') \in Required \X Runs /\ Retry(draft') \notin draft'.nl.retries
    BY <1>2, <1>3, <1>4, <2>1
  <2> QED
    BY <1>2, <1>3, <1>4, <2>2 DEF IInv, Typed, RetriesCounted, Journal, Quiet
<1> QED
  BY <1>6, <1>7, <1>8, <1>9, <1>10, <1>11, <1>12 DEF IInv

\* advanceRequiredCI: the second observation and each of the policy's answers.
LEMMA ConfirmSafe ==
    ASSUME IInv, \/ ConfirmUnobserved \/ ConfirmChanged \/ ConfirmWaits \/ ConfirmGreen
                 \/ ConfirmInfrastructure \/ ConfirmCandidateFailure
    PROVE  IInv'
<1>1. CASE ConfirmUnobserved
  BY <1>1, StopSafe DEF ConfirmUnobserved
<1>2. CASE ConfirmChanged
  BY <1>2, StopSafe DEF ConfirmChanged, Confirms
<1>3. ASSUME Confirms, Unchanged, NEW state \in {"waiting", "blocked"}, Settle(Evaluated, state)
      PROVE  IInv'
  BY <1>3, EvaluatedSound, SettleSafe DEF Confirms, States, Merged
<1>4. CASE ConfirmWaits
  BY <1>3, <1>4 DEF ConfirmWaits
<1>5. CASE ConfirmGreen
  BY <1>5, ProvingSafe DEF ConfirmGreen
<1>6. CASE ConfirmInfrastructure
  <2>1. Confirms /\ Unchanged /\ Policy = "infrastructure-failure"
    BY <1>6 DEF ConfirmInfrastructure
  <2>2. Retry(Evaluated) \in Required \X Runs
    <3>1. Evaluated.nl.checks = Checks(Commit) /\ Checks(Commit) \in CheckLists
      BY <2>1, EvaluatedSound, ChecksTyped DEF Confirms
    <3>2. Blamed(Checks(Commit), Commit, "infrastructure")
      BY <2>1 DEF Policy, evaluateCIPolicy
    <3> QED
      BY <3>1, <3>2, BlameIsListed, FirstFailedExists DEF Retry
  <2>3. CASE Settle(Evaluated, "waiting")
    BY <1>3, <2>1, <2>3
  <2>4. CASE GoTo("retry", Evaluated) /\ Retry(Evaluated) \notin draft.nl.retries
    BY <2>1, <2>2, <2>4, EvaluatedSound, ProvingSafe
  <2> QED
    BY <1>6, <2>3, <2>4 DEF ConfirmInfrastructure
<1>7. CASE ConfirmCandidateFailure
  <2> DEFINE id == FirstFailed(Evaluated.nl.checks, "candidate")
             r == [Evaluated EXCEPT !.ready = FALSE, !.nl.failure = <<id, Evaluated.nl.checks[id].run>>]
  <2>1. Confirms /\ Unchanged /\ Policy = "candidate-failure" /\ Settle(r, "needs-review")
    BY <1>7 DEF ConfirmCandidateFailure
  <2>2. /\ Evaluated \in Records /\ Evaluated.cand = disk.cand
        /\ Evaluated.nl \in Deliveries /\ Evaluated.nl.checks = Checks(Commit)
        /\ Evaluated.nl.status = Policy /\ Evaluated.nl.pr # 0 /\ Evaluated.nl.branch
        /\ Evaluated.nl.mergeIntent = NoIntent /\ ~Evaluated.nl.merge
        /\ Evaluated.nl.retries = disk.nl.retries /\ ~Merged(disk)
        /\ disk.cand <= gitHead /\ Quiet
    BY <2>1, EvaluatedSound
  <2>3. id \in DOMAIN Evaluated.nl.checks /\ id \in Required /\ Evaluated.nl.checks[id].run \in Runs
        /\ Evaluated.nl.checks[id].attribution = "candidate"
    <3>1. Blamed(Checks(Commit), Commit, "candidate") /\ Checks(Commit) \in CheckLists
      BY <2>1, ChecksTyped DEF Policy, evaluateCIPolicy, Confirms
    <3> QED
      BY <2>2, <3>1, BlameIsListed, FirstFailedExists
  <2> HIDE DEF id
  <2>4. /\ r \in Records /\ r.cand = disk.cand /\ ~r.ready /\ r.nl \in Deliveries
        /\ r.nl.failure = <<id, Evaluated.nl.checks[id].run>>
        /\ \A f \in {"branch", "pr", "checks", "status", "retries", "mergeIntent", "merge"} :
              r.nl[f] = Evaluated.nl[f]
    BY <2>2, <2>3 DEF Records, Deliveries
  <2> HIDE DEF r
  <2>5. r.nl # NoDelivery /\ r.nl.failure # NoFailure
    BY <2>3, <2>4, Constants
  <2>6. Sound(r, "needs-review")
    BY <2>1, <2>2, <2>3, <2>4, <2>5 DEF Sound, ReadinessCoherent, FailureCoherent
  <2>7. Replaces(r, disk) /\ ~Merged(r)
    BY <2>2, <2>4, <2>5 DEF Replaces, Merged
  <2> QED
    BY <2>1, <2>2, <2>4, <2>6, <2>7, SettleSafe DEF Confirms, States
<1> QED
  BY <1>1, <1>2, <1>4, <1>5, <1>6, <1>7

\* RetryInfrastructureCheck: the re-run, made, refused, failing or unreported.
LEMMA RetrySafe == ASSUME IInv, RetryInfrastructure PROVE IInv'
<1> DEFINE retry == Retry(draft)
           r == [draft EXCEPT !.nl.retries = @ \cup {retry}]
<1>1. pc = "retry" /\ (Works \/ Falters)
  BY DEF RetryInfrastructure
<1>2. /\ draft \in Records /\ draft.nl \in Deliveries /\ draft.nl # NoDelivery /\ draft.ready
      /\ draft.cand = disk.cand /\ ~Merged(draft) /\ ~Merged(disk) /\ Replaces(draft, disk)
      /\ draft.cand <= gitHead /\ \A state \in {"waiting", "blocked"} : Sound(draft, state)
  BY <1>1, EffectContext DEF Publications, Proving
<1>3. /\ ci.head = disk.cand /\ retry \in Required \X Runs
      /\ retry \notin disk.nl.retries /\ draft.nl.retries = disk.nl.retries
  BY <1>1 DEF IInv, RetriesCounted, DraftFollows, Proving
<1> HIDE DEF retry
<1>4. /\ r \in Records /\ r.cand = draft.cand /\ r.ready = draft.ready /\ r.nl \in Deliveries
      /\ r.nl.retries = draft.nl.retries \cup {retry}
      /\ \A f \in {"branch", "pr", "checks", "status", "failure", "mergeIntent", "merge"} :
            r.nl[f] = draft.nl[f]
  BY <1>2, <1>3 DEF Records, Deliveries
<1>5. /\ Replaces(r, disk) /\ ~Merged(r) /\ r.cand <= gitHead /\ Sound(r, "waiting")
  BY <1>2, <1>3, <1>4, NoneIsDelivery
     DEF Replaces, Merged, Sound, ReadinessCoherent, FailureCoherent, MergeGate
<1>6. CASE Untouched /\ Settle(draft, "waiting")
  BY <1>1, <1>6, StopSafe DEF RetryInfrastructure
<1>7. ASSUME Reran(retry[1], retry[2]), NEW record \in {draft, r}, Settle(record, "waiting"),
             IF record = r THEN Works ELSE Falters
      PROVE  IInv'
  <2> DEFINE job == retry[1]
  <2>1. /\ job \in DOMAIN ci.of /\ ci.of[job].run = retry[2]
        /\ ci' = [ci EXCEPT !.of[job].conclusion = ""]
        /\ reran' = [reran EXCEPT ![job] = @ + 1]
        /\ UNCHANGED <<branch, pr, merging, issue, main, workspace, edits>>
    BY <1>7 DEF Reran
  <2>2. retry = <<job, ci.of[job].run>> /\ job \in Required
    <3>1. retry = <<retry[1], retry[2]>> /\ retry[1] \in Required
      BY <1>3
    <3> QED
      BY <2>1, <3>1
  <2> HIDE DEF job
  <2>3. DOMAIN ci.of \in SUBSET Required /\ (\A id \in DOMAIN ci.of : ci.of[id] \in Run)
        /\ ci.of \in [DOMAIN ci.of -> Run] /\ ci \in [head : 0..MaxCandidates, of : RunLists]
    BY FamilyDef DEF IInv, Typed, RunLists
  <2>4. /\ ci'.head = ci.head /\ ci'.of = [ci.of EXCEPT ![job].conclusion = ""]
    BY <2>1, <2>3
  <2>5. /\ DOMAIN ci'.of = DOMAIN ci.of /\ ci'.of \in [DOMAIN ci.of -> Run]
        /\ \A id \in DOMAIN ci.of : ci'.of[id].run = ci.of[id].run /\ ci'.of[id].base = ci.of[id].base
    BY <2>1, <2>3, <2>4 DEF Run, Conclusions
  <2>6. ci' \in [head : 0..MaxCandidates, of : RunLists]
    <3>1. ci'.of \in RunLists
      BY <2>3, <2>5 DEF RunLists, Families
    <3> QED
      BY <2>1, <2>3, <3>1
  <2>7. faults' \in Nat /\ faults' >= faults /\ (record = r \/ faults' = faults + 1)
    BY <1>7 DEF IInv, Typed, Works, Falters
  <2>8. pc' = "save" /\ draft' = [record EXCEPT !.state = "waiting"] /\ UNCHANGED <<disk, view>>
    BY <1>7 DEF Settle, GoTo
  <2>9. /\ record \in Records /\ record.cand = disk.cand /\ draft'.cand = disk.cand
        /\ draft'.nl = record.nl /\ Replaces(record, disk) /\ ~Merged(record)
        /\ record.cand <= gitHead /\ Sound(record, "waiting")
    BY <1>2, <1>4, <1>5, <2>8 DEF Records
  <2>10. Journal' = record.nl.retries
    BY <2>8, <2>9 DEF Journal
  <2>11. HubOrdered'
    BY <1>1, <2>1, <2>4, <2>5, <2>8, <2>9 DEF IInv, HubOrdered, workspace
  <2>12. ASSUME NEW id \in Required
         PROVE  /\ id \notin DOMAIN ci'.of => reran'[id] = 0
                /\ reran'[id] <= 1 + faults'
                /\ ci'.head = disk.cand /\ id \in DOMAIN ci'.of /\ <<id, ci'.of[id].run>> \notin Journal' =>
                      reran'[id] <= faults'
    <3>1. /\ reran \in [Required -> Nat] /\ faults \in Nat /\ reran[id] \in Nat
          /\ Journal = disk.nl.retries
      BY <1>1 DEF IInv, Typed, Journal
    <3>2. CASE id # job
      <4>1. reran'[id] = reran[id] /\ disk.nl.retries \subseteq Journal'
        BY <1>3, <1>4, <1>7, <2>1, <2>10, <3>1, <3>2
      <4>2. /\ id \notin DOMAIN ci.of => reran[id] = 0
            /\ reran[id] <= 1 + faults
            /\ id \in DOMAIN ci.of /\ <<id, ci.of[id].run>> \notin disk.nl.retries => reran[id] <= faults
        BY <1>3, <3>1 DEF IInv, RetriesCounted
      <4> QED
        BY <2>5, <2>7, <3>1, <4>1, <4>2
    <3>3. CASE id = job
      <4>1. reran[id] <= faults /\ reran'[id] = reran[id] + 1
        BY <1>3, <2>1, <2>2, <3>1, <3>3 DEF IInv, RetriesCounted
      <4>2. record = r => <<id, ci'.of[id].run>> \in Journal'
        BY <1>4, <2>1, <2>2, <2>5, <2>10, <3>3
      <4>3. id \in DOMAIN ci'.of /\ (record = r \/ faults' = faults + 1)
        BY <1>7, <2>1, <2>5, <2>7, <3>3
      <4> QED
        BY <2>7, <3>1, <4>1, <4>2, <4>3
    <3> QED
      BY <3>2, <3>3
  <2>13. branch' \in Tips /\ pr' \in Request /\ merging' \in [head : Tips, ours : BOOLEAN]
         /\ reran' \in [Required -> Nat]
    <3>1. branch \in Tips /\ pr \in Request /\ merging \in [head : Tips, ours : BOOLEAN]
          /\ reran \in [Required -> Nat]
      BY DEF IInv, Typed
    <3>2. reran[job] + 1 \in Nat
      BY <2>2, <3>1
    <3>3. reran' \in [Required -> Nat]
      BY <2>1, <3>1, <3>2
    <3> QED
      BY <2>1, <3>1, <3>3
  <2> QED
    BY <1>1, <1>7, <2>1, <2>6, <2>7, <2>9, <2>11, <2>12, <2>13, EffectSafe
       DEF Publications, Proving, Reran
<1>8. \/ Settle(draft, "waiting") /\ Untouched
      \/ Works /\ Reran(retry[1], retry[2]) /\ Settle(r, "waiting")
      \/ Falters /\ Reran(retry[1], retry[2]) /\ Settle(draft, "waiting")
  BY DEF RetryInfrastructure, retry
<1>9. r # draft
  BY <1>2, <1>3, <1>4
<1> QED
  BY <1>6, <1>7, <1>8, <1>9

-------------------------------------------------------------------------------
(* The merge and the cleanup *)

\* advanceMerge, up to the request: the intent is durable before it goes on.
LEMMA MergeSafe == ASSUME IInv, MergeReadiness \/ VerifyRequest PROVE IInv'
<1>1. pc \in {"readiness", "verify"} /\ Untouched /\ (Works \/ Falters)
  BY DEF MergeReadiness, VerifyRequest
<1>2. /\ draft \in Records /\ draft.nl \in Deliveries /\ draft.nl # NoDelivery /\ draft.ready
      /\ draft.cand = disk.cand /\ ~Merged(draft) /\ ~Merged(disk) /\ Replaces(draft, disk)
      /\ draft.cand <= gitHead /\ \A state \in {"waiting", "blocked"} : Sound(draft, state)
      /\ MergeGate(draft) /\ draft.nl.pr # 0 /\ Quiet
  BY <1>1, EffectContext, CallsAreQuiet DEF Publications, Proving, IInv, DraftFollows
<1>3. ASSUME NEW state \in {"waiting", "blocked"}, Settle(draft, state)
      PROVE  IInv'
  BY <1>1, <1>3, StopSafe
<1>4. ASSUME NEW p \in {"verify", "merge"}, GoTo(p, draft), draft.nl.mergeIntent # NoIntent
      PROVE  IInv'
  <2>1. pc' = p /\ UNCHANGED <<disk, view, draft>>
    BY <1>4 DEF GoTo
  <2>2. UNCHANGED <<branch, pr, ci, merging, issue, main, gitHead, worktree, localBranch,
                    localMain, operator, edits, reran>>
    BY <1>2 DEF Quiet, Untouched, hub, workspace
  <2>3. Typed'
    BY <1>1, <1>2, <2>1, <2>2 DEF IInv, Typed, Steps, Publications, Proving, Quiet
  <2>4. HubOrdered'
    BY <1>1, <2>1, <2>2 DEF IInv, HubOrdered
  <2>5. DraftFollows'
    BY <1>1, <1>4, <2>1 DEF IInv, DraftFollows, Publications, Proving, Merged, Decodable
  <2>6. RecordsSound'
    BY <2>1 DEF IInv, RecordsSound
  <2>7. MergeStands'
    BY <1>2, <2>1 DEF MergeStands, Merged, Finishing, Cleaning
  <2>8. CleanedInOrder'
    BY <1>1, <2>1, <2>2 DEF IInv, CleanedInOrder, Merged
  <2>9. RetriesCounted'
    BY <1>1, <1>2, <2>1, <2>2 DEF IInv, Typed, RetriesCounted, Journal, Quiet
  <2> QED
    BY <2>3, <2>4, <2>5, <2>6, <2>7, <2>8, <2>9 DEF IInv
<1>5. CASE MergeReadiness
  <2> DEFINE r == [draft EXCEPT !.nl.mergeIntent = IntentOf(draft)]
  <2>1. CASE Settle(r, "waiting")
    <3>1. IntentOf(draft) \in Intent
      BY <1>2 DEF IntentOf, Intent, Deliveries, IInv, Typed
    <3>2. /\ r \in Records /\ r.cand = draft.cand /\ r.ready = draft.ready /\ r.nl \in Deliveries
          /\ \A f \in {"branch", "pr", "checks", "status", "retries", "failure", "merge"} :
                r.nl[f] = draft.nl[f]
      BY <1>2, <3>1 DEF Records, Deliveries
    <3> HIDE DEF r
    <3>3. draft.nl.failure = NoFailure
      BY <1>2 DEF Sound, FailureCoherent
    <3>4. Replaces(r, disk) /\ ~Merged(r) /\ r.cand <= gitHead /\ Sound(r, "waiting")
      BY <1>2, <3>2, <3>3, NoneIsDelivery
         DEF Replaces, Merged, Sound, ReadinessCoherent, FailureCoherent, MergeGate
    <3> QED
      BY <1>1, <1>2, <2>1, <3>2, <3>4, SettleSafe DEF States
  <2> QED
    BY <1>3, <1>4, <1>5, <2>1 DEF MergeReadiness
<1>6. CASE VerifyRequest
  BY <1>3, <1>4, <1>6 DEF VerifyRequest, IInv, DraftFollows
<1> QED
  BY <1>5, <1>6

\* EnsureMerge: the merge asked for, refused, failing or unreported.
LEMMA EnsureSafe == ASSUME IInv, EnsureMerge PROVE IInv'
<1> DEFINE r == [draft EXCEPT !.nl.mergeIntent.dispatched = TRUE]
<1>1. pc = "merge" /\ (Works \/ Falters)
  BY DEF EnsureMerge
<1>2. /\ draft \in Records /\ draft.nl \in Deliveries /\ draft.nl # NoDelivery /\ draft.ready
      /\ draft.cand = disk.cand /\ ~Merged(draft) /\ ~Merged(disk) /\ Replaces(draft, disk)
      /\ draft.cand <= gitHead /\ \A state \in {"waiting", "blocked"} : Sound(draft, state)
      /\ draft.nl.mergeIntent \in Intent /\ disk.cand \in 0..MaxCandidates
  BY <1>1, EffectContext DEF Publications, Proving, IInv, DraftFollows, Deliveries
<1>3. /\ r \in Records /\ r.cand = draft.cand /\ r.ready = draft.ready /\ r.nl \in Deliveries
      /\ \A f \in {"branch", "pr", "checks", "status", "retries", "failure", "merge"} :
            r.nl[f] = draft.nl[f]
  BY <1>2 DEF Records, Deliveries, Intent
<1> HIDE DEF r
<1>4. Replaces(r, disk) /\ ~Merged(r) /\ r.cand <= gitHead /\ Sound(r, "waiting")
  <2>1. draft.nl.failure = NoFailure
    BY <1>2 DEF Sound, FailureCoherent
  <2> QED
    BY <1>2, <1>3, <2>1, NoneIsDelivery
       DEF Replaces, Merged, Sound, ReadinessCoherent, FailureCoherent, MergeGate
<1>5. CASE Untouched /\ Settle(draft, "waiting")
  BY <1>1, <1>5, StopSafe
<1>6. ASSUME RequestMerge, NEW record \in {draft, r}, Settle(record, "waiting")
      PROVE  IInv'
  <2>1. /\ merging' = [head |-> disk.cand, ours |-> TRUE]
        /\ UNCHANGED <<branch, pr, ci, issue, main, workspace, edits, reran>>
    BY <1>2, <1>6 DEF RequestMerge, Commit
  <2>2. pr \in Request /\ merging' \in [head : Tips, ours : BOOLEAN]
    BY <1>2, <2>1 DEF IInv, Typed, Tips
  <2> QED
    BY <1>1, <1>2, <1>3, <1>4, <1>6, <2>1, <2>2, RequestSafe DEF Publications, Proving
<1> QED
  BY <1>5, <1>6 DEF EnsureMerge, r

\* A cleanup step: the draft is saved as it is, whatever was done.
LEMMA CleanSafe ==
    ASSUME IInv, pc \in Finishing, Settle(draft, "waiting"), Works \/ Falters,
           UNCHANGED <<pr, ci, merging, issue, main, gitHead, operator, edits, reran>>,
           branch' = branch \/ branch' = 0,
           worktree' \in BOOLEAN, localBranch' \in BOOLEAN, localMain' \in Mains,
           ~worktree' => ~worktree \/ (issue = "CLOSED" /\ branch' = 0),
           ~localBranch' => ~worktree',
           localMain' # 1 => ~localBranch'
    PROVE  IInv'
<1>1. draft = disk /\ draft \in Records /\ Merged(disk) /\ pc \notin {"idle", "save"} /\ disk.state # "completed"
  BY DEF IInv, DraftFollows, Finishing, Cleaning, Proving, Typed, MergeStands
<1>2. pc' = "save" /\ draft' = [draft EXCEPT !.state = "waiting"] /\ UNCHANGED <<disk, view>>
  BY DEF Settle, GoTo
<1>3. /\ draft' \in Records /\ draft'.state = "waiting" /\ draft'.cand = disk.cand
      /\ draft'.ready = disk.ready /\ draft'.nl = disk.nl
  BY <1>1, <1>2 DEF Records, States
<1>4. Replaces(draft', disk) /\ Merged(draft')
  BY <1>1, <1>3 DEF Replaces, Merged
<1>5. faults' \in Nat /\ faults' >= faults
  BY DEF IInv, Typed, Works, Falters
<1>6. Typed'
  BY <1>2, <1>3, <1>5, Constants DEF IInv, Typed, Steps, Finishing, Cleaning, Tips
<1>7. HubOrdered'
  BY <1>1, <1>2, <1>3 DEF IInv, HubOrdered
<1>8. DraftFollows'
  BY <1>1, <1>2, <1>4 DEF IInv, DraftFollows, Proving, Publications, HasPullRequest, Decodable
<1>9. RecordsSound'
  <2>1. Sound(draft', "waiting")
    BY <1>1, <1>3 DEF IInv, RecordsSound, Sound, Merged, ReadinessCoherent, FailureCoherent, MergeGate
  <2> QED
    BY <1>2, <1>3, <2>1 DEF IInv, RecordsSound
<1>10. MergeStands'
  BY <1>1, <1>2, <1>3, <1>4 DEF IInv, MergeStands, Merged, Finishing, Cleaning
<1>11. CleanedInOrder'
  BY <1>1, <1>2, <1>3 DEF IInv, CleanedInOrder, Merged
<1>12. RetriesCounted'
  BY <1>1, <1>2, <1>3, <1>5 DEF IInv, Typed, RetriesCounted, Journal
<1> QED
  BY <1>6, <1>7, <1>8, <1>9, <1>10, <1>11, <1>12 DEF IInv

\* advancePostMerge: remote branch, worktree, local branch, local main.
LEMMA CleanupSafe ==
    ASSUME IInv, \/ DeleteRemoteBranch \/ LocalCleanup \/ RemoveWorktree \/ DeleteLocalBranch
                 \/ FastForward
    PROVE  IInv'
<1>1. /\ pc \in Finishing /\ draft = disk /\ draft \in Records /\ Merged(disk) /\ draft.nl # NoDelivery
      /\ pr.state = "MERGED" /\ pr.head = disk.cand
  <2>1. pc \in {"delete-branch"} \cup Cleaning
    BY DEF DeleteRemoteBranch, LocalCleanup, RemoveWorktree, DeleteLocalBranch, FastForward, CleanUp, Cleaning
  <2> QED
    BY <2>1 DEF IInv, DraftFollows, MergeStands, Merged, Finishing, Cleaning, Proving, Typed
<1>2. /\ pc \in Cleaning =>
            /\ issue = "CLOSED" /\ branch = 0 /\ view.origin > pr.base /\ disk.nl.mergeIntent # NoIntent
      /\ worktree \in BOOLEAN /\ localBranch \in BOOLEAN /\ localMain \in Mains
      /\ (~localBranch => ~worktree) /\ (localMain # 1 => ~localBranch)
  BY DEF IInv, MergeStands, Typed, CleanedInOrder
<1>3. CASE DeleteRemoteBranch
  <2>1. UNCHANGED <<pr, ci, merging, issue, main, gitHead, worktree, localBranch, localMain,
                    operator, edits, reran>> /\ (branch' = branch \/ branch' = 0)
    BY <1>3 DEF DeleteRemoteBranch, workspace
  <2> QED
    BY <1>1, <1>2, <1>3, <2>1, CleanSafe DEF DeleteRemoteBranch
<1>4. CASE LocalCleanup
  <2>1. pc = "cleanup" /\ Quiet
    BY <1>4, CallsAreQuiet DEF LocalCleanup
  <2>2. CASE \E state \in {"waiting", "blocked"} : Settle(draft, state)
    BY <1>4, <2>2, StopSafe DEF LocalCleanup
  <2>3. CASE GoTo("remove-worktree", draft)
    BY <1>1, <2>1, <2>3, MoveSafe DEF Steps, Publications, Proving, Finishing, Cleaning
  <2>4. CASE GoTo("delete-local-branch", draft) /\ ~worktree
    BY <1>1, <2>1, <2>4, MoveSafe DEF Steps, Publications, Proving, Finishing, Cleaning
  <2>5. CASE GoTo("fast-forward", draft) /\ ~localBranch
    BY <1>1, <2>1, <2>5, MoveSafe DEF Steps, Publications, Proving, Finishing, Cleaning
  <2>6. CASE Settle(draft, "completed") /\ ~localBranch /\ localMain = view.origin
    <3>1. localMain > pr.base
      BY <1>2, <2>1, <2>6 DEF Cleaning
    <3>2. Replaces(draft, disk) /\ draft.cand <= gitHead
      BY <1>1 DEF Replaces, Merged, IInv, HubOrdered
    <3>3. Sound(draft, "completed")
      BY <1>1, <1>2, <2>1 DEF IInv, RecordsSound, Sound, Merged, Cleaning
    <3> QED
      BY <1>1, <2>1, <2>6, <3>1, <3>2, <3>3, SettleSafe DEF States
  <2> QED
    BY <1>4, <2>2, <2>3, <2>4, <2>5, <2>6 DEF LocalCleanup
<1>5. CASE RemoveWorktree
  <2>1. /\ pc = "remove-worktree" /\ Settle(draft, "waiting") /\ (Works \/ Falters)
        /\ UNCHANGED <<branch, pr, ci, merging, issue, main, gitHead, localBranch, localMain,
                       operator, edits, reran>> /\ worktree' \in BOOLEAN
        /\ (worktree' = worktree \/ ~worktree')
    BY <1>2, <1>5 DEF RemoveWorktree, CleanUp, hub, workspace
  <2> QED
    BY <1>1, <1>2, <2>1, CleanSafe DEF Cleaning
<1>6. CASE DeleteLocalBranch
  <2>1. /\ pc = "delete-local-branch" /\ Settle(draft, "waiting") /\ (Works \/ Falters)
        /\ UNCHANGED <<branch, pr, ci, merging, issue, main, gitHead, worktree, localMain,
                       operator, edits, reran>> /\ localBranch' \in BOOLEAN
        /\ (localBranch' = localBranch \/ ~localBranch')
    BY <1>2, <1>6 DEF DeleteLocalBranch, CleanUp, hub, workspace
  <2>2. ~worktree
    BY <2>1 DEF IInv, MergeStands
  <2> QED
    BY <1>1, <1>2, <2>1, <2>2, CleanSafe
<1>7. CASE FastForward
  <2>1. /\ pc = "fast-forward" /\ Settle(draft, "waiting") /\ (Works \/ Falters)
        /\ UNCHANGED <<branch, pr, ci, merging, issue, main, gitHead, worktree, localBranch,
                       operator, edits, reran>>
        /\ (localMain' = localMain \/ localMain' = view.origin)
    BY <1>7 DEF FastForward, CleanUp, hub, workspace
  <2>2. ~localBranch /\ view.origin \in Mains
    <3>1. view.origin \in {0} \cup Mains /\ view.origin > pr.base /\ pr.base \in {0} \cup Mains
      BY <1>2, <2>1 DEF IInv, Typed, Views, Request, Cleaning
    <3> QED
      BY <2>1, <3>1, Constants DEF IInv, MergeStands
  <2> QED
    BY <1>1, <1>2, <2>1, <2>2, CleanSafe
<1> QED
  BY <1>3, <1>4, <1>5, <1>6, <1>7

-------------------------------------------------------------------------------
(* GitHub, the developer and operators *)

\* What happens outside leaves the records and the invocation alone.
LEMMA OutsideSafe ==
    ASSUME IInv, UNCHANGED <<disk, pc, view, draft>>,
           Typed', HubOrdered', MergeStands', CleanedInOrder', RetriesCounted'
    PROVE  IInv'
<1>1. DraftFollows' /\ RecordsSound'
  BY DEF IInv, DraftFollows, RecordsSound
<1> QED
  BY <1>1 DEF IInv

\* One check of the commit pushed last starts, ends or is run again.
LEMMA CheckSafe ==
    ASSUME IInv, UNCHANGED <<disk, pc, view, draft, branch, pr, merging, issue, main, workspace, faults>>,
           NEW id \in Required, NEW new \in [DOMAIN ci.of \cup {id} -> Run],
           ci' = [ci EXCEPT !.of = new], \A j \in DOMAIN ci.of \ {id} : new[j] = ci.of[j],
           pr.state # "none", new[id].base <= pr.base, new[id].run <= edits' + new[id].base,
           edits' \in 0..MaxEdits, edits' >= edits,
           reran' \in [Required -> Nat], \A j \in Required \ {id} : reran'[j] = reran[j],
           \/ reran'[id] = 0
           \/ reran'[id] = reran[id] /\ id \in DOMAIN ci.of /\ new[id].run = ci.of[id].run
    PROVE  IInv'
<1>1. UNCHANGED <<gitHead, worktree, localBranch, localMain, operator>>
  BY DEF workspace
<1>2. /\ DOMAIN ci.of \in SUBSET Required /\ (\A j \in DOMAIN ci.of : ci.of[j] \in Run)
      /\ ci \in [head : 0..MaxCandidates, of : RunLists]
  BY FamilyDef DEF IInv, Typed, RunLists
<1>3. ci'.head = ci.head /\ ci'.of = new
  BY <1>2
<1>4. DOMAIN new = DOMAIN ci.of \cup {id}
  OBVIOUS
<1>6. ci' \in [head : 0..MaxCandidates, of : RunLists]
  <2>1. new \in RunLists
    BY <1>2 DEF RunLists, Families
  <2> QED
    BY <1>2, <2>1
<1>7. Typed'
  BY <1>1, <1>6 DEF IInv, Typed
<1>8. HubOrdered'
  <2>1. ASSUME NEW j \in DOMAIN ci'.of
        PROVE  ci'.of[j].base <= pr.base /\ ci'.of[j].run <= edits' + ci'.of[j].base
    <3>1. CASE j = id
      BY <1>3, <3>1
    <3>2. CASE j # id
      <4>1. j \in DOMAIN ci.of /\ ci'.of[j] = ci.of[j]
        BY <1>3, <1>4, <2>1, <3>2
      <4>2. ci.of[j].run \in Nat /\ ci.of[j].base \in Nat /\ edits \in Nat
        BY <1>2, <4>1, Constants DEF Run, Runs, IInv, Typed
      <4> QED
        BY <4>1, <4>2 DEF IInv, HubOrdered
    <3> QED
      BY <3>1, <3>2
  <2> QED
    BY <1>1, <1>3, <2>1 DEF IInv, HubOrdered, Listed
<1>9. MergeStands'
  BY <1>1 DEF IInv, MergeStands, Merged
<1>10. CleanedInOrder'
  BY <1>1 DEF IInv, CleanedInOrder, Merged
<1>11. RetriesCounted'
  <2>1. ASSUME NEW j \in Required
        PROVE  /\ j \notin DOMAIN ci'.of => reran'[j] = 0
               /\ reran'[j] <= 1 + faults
               /\ ci'.head = disk.cand /\ j \in DOMAIN ci'.of /\ <<j, ci'.of[j].run>> \notin Journal =>
                     reran'[j] <= faults
    <3>1. faults \in Nat
      BY DEF IInv, Typed
    <3>2. CASE j = id
      <4>1. id \in DOMAIN ci'.of /\ ci'.of[id] = new[id] /\ ci'.head = ci.head
        BY <1>3, <1>4
      <4>2. CASE reran'[id] = 0
        BY <3>1, <3>2, <4>1, <4>2
      <4>3. CASE reran'[id] = reran[id] /\ id \in DOMAIN ci.of /\ new[id].run = ci.of[id].run
        BY <3>2, <4>1, <4>3 DEF IInv, RetriesCounted
      <4> QED
        BY <4>2, <4>3
    <3>3. CASE j # id
      <4>1. (j \in DOMAIN ci'.of <=> j \in DOMAIN ci.of) /\ (j \in DOMAIN ci.of => ci'.of[j] = ci.of[j])
        BY <1>3, <1>4, <3>3
      <4>2. reran'[j] = reran[j] /\ ci'.head = ci.head
        BY <1>3, <1>4, <3>3
      <4> QED
        BY <4>1, <4>2 DEF IInv, RetriesCounted
    <3> QED
      BY <3>2, <3>3
  <2>2. Journal' = Journal
    BY DEF Journal
  <2> QED
    BY <1>3, <2>1, <2>2 DEF IInv, RetriesCounted
<1> QED
  BY <1>7, <1>8, <1>9, <1>10, <1>11, OutsideSafe

\* The checks' own steps, and those that operators take with them.
LEMMA ChecksSafe ==
    ASSUME IInv, NEW id \in Required,
           \/ CheckStarts(id) \/ CheckPasses(id) \/ CheckFails(id)
           \/ OperatorReruns(id) \/ (id = Governance /\ GovernanceStarts)
    PROVE  IInv'
<1>1. /\ DOMAIN ci.of \in SUBSET Required
      /\ \A j \in DOMAIN ci.of :
            ci.of[j] \in [run : Nat \ {0}, conclusion : Conclusions, base : Mains] /\ ci.of[j].base <= pr.base
            /\ ci.of[j].run <= edits + ci.of[j].base
      /\ ci.of \in [DOMAIN ci.of -> Run] /\ ci \in [head : 0..MaxCandidates, of : RunLists]
      /\ (DOMAIN ci.of # {} => pr.state # "none")
  <2>1. DOMAIN ci.of \in SUBSET Required /\ ci.of \in [DOMAIN ci.of -> Run]
    BY FamilyDef DEF IInv, Typed, RunLists
  <2>2. Runs \subseteq Nat \ {0}
    BY Constants DEF Runs
  <2>3. Run \subseteq [run : Nat \ {0}, conclusion : Conclusions, base : Mains]
    BY <2>2 DEF Run
  <2> QED
    BY <2>1, <2>3 DEF IInv, HubOrdered, Typed
<1>2. /\ pr \in Request /\ edits \in 0..MaxEdits /\ edits \in Nat /\ reran \in [Required -> Nat]
      /\ (pr.state # "none" => pr.base \in Mains /\ pr.base \in Nat /\ pr.base >= 1)
  BY Constants DEF IInv, Typed, Request, HubOrdered
<1>3. \A j \in Required : j \notin DOMAIN ci.of => reran[j] = 0
  BY DEF IInv, RetriesCounted
<1>4. \A j \in DOMAIN ci.of : ci.of[j].run \in Nat /\ ci.of[j].run >= 1 /\ ci.of[j].conclusion \in Conclusions
                              /\ ci.of[j].base \in Mains
  BY <1>1
<1>5. "" \in Conclusions /\ "success" \in Conclusions /\ "failure" \in Conclusions /\ "skipped" \in Conclusions
  BY DEF Conclusions, Failing
<1>6. CASE CheckStarts(id)
  <2>1. /\ pr.state # "none" /\ id \notin DOMAIN ci.of
        /\ UNCHANGED <<disk, pc, view, draft, branch, pr, merging, issue, main, workspace, faults,
                       edits, reran>>
    BY <1>6 DEF CheckStarts, Outside, invocation
  <2> DEFINE new == [j \in DOMAIN ci.of \cup {id} |->
                       IF j = id THEN [run |-> 1, conclusion |-> "", base |-> pr.base] ELSE ci.of[j]]
  <2>2. ci' = [ci EXCEPT !.of = new]
    BY <1>1, <1>6 DEF CheckStarts
  <2>3. [run |-> 1, conclusion |-> "", base |-> pr.base] \in Run
    <3>1. 1 \in Runs
      BY Constants DEF Runs
    <3> QED
      BY <1>2, <1>5, <2>1, <3>1 DEF Run
  <2>4. new \in [DOMAIN ci.of \cup {id} -> Run] /\ \A j \in DOMAIN ci.of \ {id} : new[j] = ci.of[j]
    BY <1>1, <2>3
  <2>5. new[id].base = pr.base /\ new[id].run = 1 /\ edits' = edits
    BY <2>1
  <2>6. new[id].base <= pr.base /\ new[id].run <= edits' + new[id].base
        /\ edits' \in 0..MaxEdits /\ edits' >= edits
    <3>1. pr.base \in Nat /\ pr.base >= 1 /\ edits \in Nat /\ edits \in 0..MaxEdits
      BY <1>2, <2>1
    <3> HIDE DEF new
    <3> QED
      BY <2>5, <3>1
  <2>7. reran'[id] = 0 /\ reran' = reran /\ reran' \in [Required -> Nat]
    BY <1>2, <1>3, <2>1
  <2> HIDE DEF new
  <2> QED
    BY <2>1, <2>2, <2>4, <2>6, <2>7, CheckSafe
<1>7. ASSUME id \in DOMAIN ci.of, NEW run \in Runs, NEW conclusion \in Conclusions, NEW base \in Mains,
             ci' = [ci EXCEPT !.of[id] = [run |-> run, conclusion |-> conclusion, base |-> base]],
             base <= pr.base, run <= edits' + base, edits' \in 0..MaxEdits, edits' >= edits,
             UNCHANGED <<disk, pc, view, draft, branch, pr, merging, issue, main, workspace, faults>>,
             \/ reran' = [reran EXCEPT ![id] = 0]
             \/ reran' = reran /\ run = ci.of[id].run
      PROVE  IInv'
  <2> DEFINE end == [run |-> run, conclusion |-> conclusion, base |-> base]
             new == [ci.of EXCEPT ![id] = end]
  <2>1. end \in Run /\ end.base = base /\ end.run = run
    BY <1>7 DEF Run
  <2>2. ci' = [ci EXCEPT !.of = new]
    BY <1>1, <1>7
  <2> HIDE DEF end
  <2>3. /\ new \in [DOMAIN ci.of \cup {id} -> Run] /\ (\A j \in DOMAIN ci.of \ {id} : new[j] = ci.of[j])
        /\ new[id] = end
    <3>1. DOMAIN ci.of \cup {id} = DOMAIN ci.of
      BY <1>7
    <3> QED
      BY <1>1, <1>7, <2>1, <3>1
  <2>4. /\ reran' \in [Required -> Nat] /\ (\A j \in Required \ {id} : reran'[j] = reran[j])
        /\ reran'[id] = 0 \/ (reran' = reran /\ run = ci.of[id].run)
    BY <1>2, <1>7
  <2> HIDE DEF new
  <2> QED
    BY <1>1, <1>7, <2>1, <2>2, <2>3, <2>4, CheckSafe
<1>8. /\ id \in DOMAIN ci.of => ci.of[id].run \in Runs
      /\ id \in DOMAIN ci.of => ci.of[id] = [run |-> ci.of[id].run, conclusion |-> ci.of[id].conclusion,
                                             base |-> ci.of[id].base]
  BY <1>1 DEF Run
<1>9. ASSUME id \in DOMAIN ci.of, NEW conclusion \in Conclusions,
             ci' = [ci EXCEPT !.of[id].conclusion = conclusion],
             UNCHANGED <<disk, pc, view, draft, branch, pr, merging, issue, main, workspace, faults,
                         edits, reran>>
      PROVE  IInv'
  <2>1. ci' = [ci EXCEPT !.of[id] = [run |-> ci.of[id].run, conclusion |-> conclusion,
                                     base |-> ci.of[id].base]]
    BY <1>1, <1>8, <1>9
  <2>2. ci.of[id].base <= pr.base /\ ci.of[id].run <= edits + ci.of[id].base
    BY <1>1, <1>9
  <2> QED
    BY <1>2, <1>4, <1>7, <1>8, <1>9, <2>1, <2>2
<1>10. CASE CheckPasses(id)
  BY <1>5, <1>9, <1>10 DEF CheckPasses, Outside, invocation
<1>11. CASE CheckFails(id)
  <2>1. PICK c \in {"failure", "skipped"} : ci' = [ci EXCEPT !.of[id].conclusion = c]
    BY <1>11 DEF CheckFails
  <2> QED
    BY <1>5, <1>9, <1>11, <2>1 DEF CheckFails, Outside, invocation
<1>12. CASE OperatorReruns(id)
  <2>1. /\ id \in DOMAIN ci.of /\ edits < MaxEdits /\ edits' = edits + 1
        /\ UNCHANGED <<disk, pc, view, draft, branch, pr, merging, issue, main, workspace, faults>>
    BY <1>12 DEF OperatorReruns, Edits, invocation
  <2>2. PICK new \in BOOLEAN :
          /\ ci' = [ci EXCEPT !.of[id] = [run |-> IF new THEN @.run + 1 ELSE @.run,
                                          conclusion |-> "", base |-> @.base]]
          /\ reran' = [reran EXCEPT ![id] = IF new THEN 0 ELSE @]
    BY <1>12 DEF OperatorReruns
  <2> DEFINE run == IF new THEN ci.of[id].run + 1 ELSE ci.of[id].run
  <2>3. ci' = [ci EXCEPT !.of[id] = [run |-> run, conclusion |-> "", base |-> ci.of[id].base]]
    BY <2>2
  <2>4. /\ ci.of[id].run \in Nat /\ ci.of[id].run >= 1 /\ ci.of[id].run <= edits + ci.of[id].base
        /\ ci.of[id].base \in Mains /\ ci.of[id].base \in Nat /\ ci.of[id].base <= MaxMain + 1
        /\ ci.of[id].base <= pr.base
    BY <1>1, <2>1, Constants
  <2>5. /\ run \in Nat /\ run >= 1 /\ run <= edits' + ci.of[id].base
        /\ edits' \in 0..MaxEdits /\ edits' >= edits /\ edits' <= MaxEdits
    BY <1>2, <2>1, <2>4, Constants
  <2>6. reran' = [reran EXCEPT ![id] = 0] \/ (reran' = reran /\ run = ci.of[id].run)
    BY <1>2, <2>2
  <2>7. run \in Runs
    <3> HIDE DEF run
    <3> QED
      BY <1>2, <2>4, <2>5, Constants DEF Runs
  <2> HIDE DEF run
  <2> QED
    BY <1>5, <1>7, <2>1, <2>3, <2>4, <2>5, <2>6, <2>7
<1>13. CASE id = Governance /\ GovernanceStarts
  <2> DEFINE run == ci.of[id].run + 1
             base == pr.base
  <2>1. id \in DOMAIN ci.of /\ ci.of[id].base # base /\ pr.state # "none" /\ edits' = edits
    BY <1>13 DEF GovernanceStarts
  <2>2. /\ ci' = [ci EXCEPT !.of[id] = [run |-> run, conclusion |-> "", base |-> base]]
        /\ reran' = [reran EXCEPT ![id] = 0]
        /\ UNCHANGED <<disk, pc, view, draft, branch, pr, merging, issue, main, workspace, faults>>
    BY <1>13 DEF GovernanceStarts, invocation
  <2>3. /\ ci.of[id].run \in Nat /\ ci.of[id].run >= 1 /\ ci.of[id].run <= edits + ci.of[id].base
        /\ ci.of[id].base \in Nat /\ ci.of[id].base <= base
        /\ base \in Mains /\ base \in Nat /\ base <= MaxMain + 1
    BY <1>1, <1>2, <2>1, Constants
  <2>4. run \in Nat /\ run >= 1 /\ run <= edits + base
    BY <1>2, <2>1, <2>3
  <2>5. run \in Runs /\ edits' \in 0..MaxEdits /\ edits' >= edits /\ run <= edits' + base
    <3> HIDE DEF run, base
    <3> QED
      BY <1>2, <2>1, <2>3, <2>4, Constants DEF Runs
  <2>6. base <= pr.base
    BY <2>3
  <2> HIDE DEF run, base
  <2> QED
    BY <1>5, <1>7, <2>1, <2>2, <2>3, <2>5, <2>6
<1> QED
  BY <1>6, <1>10, <1>11, <1>12, <1>13

\* The bases and runs of the request and its checks are numbers.
LEMMA HubNumbers ==
    ASSUME IInv
    PROVE  /\ pr.base \in Nat /\ (pr.state # "none" => pr.base >= 1 /\ pr.base <= main)
           /\ main \in Nat /\ edits \in Nat
           /\ \A j \in DOMAIN ci.of : ci.of[j].base \in Nat /\ ci.of[j].run \in Nat
<1>1. pr.base \in {0} \cup Mains /\ main \in Mains /\ edits \in 0..MaxEdits
  BY DEF IInv, Typed, Request
<1>2. pr.base \in Nat /\ main \in Nat /\ edits \in Nat
  BY <1>1, Constants
<1>3. ci.of \in [DOMAIN ci.of -> Run]
  BY FamilyDef DEF IInv, Typed, RunLists
<1>4. Runs \subseteq Nat /\ Mains \subseteq Nat
  BY Constants DEF Runs, Mains
<1>5. \A r \in Run : r.base \in Nat /\ r.run \in Nat
  BY <1>4 DEF Run
<1> QED
  BY <1>2, <1>3, <1>5 DEF IInv, HubOrdered

\* Requests, merges, commits and edits: what the program knows of them stays true.
LEMMA RequestsMove ==
    ASSUME IInv, RequestAppears \/ BaseMoves \/ Land \/ CloseIssue
    PROVE  IInv'
<1>1. /\ pr \in Request /\ main \in Mains /\ issue \in {"OPEN", "CLOSED"}
      /\ main \in Nat /\ (pr.state # "MERGED" => main <= MaxMain)
      /\ UNCHANGED <<disk, pc, view, draft, branch, ci, merging, gitHead, worktree, localBranch,
                     localMain, operator, edits, faults, reran>>
  BY Constants DEF IInv, Typed, HubOrdered, RequestAppears, BaseMoves, Land, CloseIssue, Outside,
     invocation, workspace
<1>2. \A j \in DOMAIN ci.of : ci.of[j].base \in Nat
  BY HubNumbers
<1>3. \A r \in {disk, draft} : Merged(r) => pr.state = "MERGED"
  BY DEF IInv, MergeStands
<1>4. pc \in Cleaning \/ ~worktree \/ draft.state = "completed" => pr.state = "MERGED"
  BY <1>3 DEF IInv, MergeStands, CleanedInOrder, Finishing
<1>5. CASE RequestAppears
  <2>1. /\ pr.state # "none" /\ UNCHANGED <<issue, main>> /\ pr' \in Request /\ pr'.visible
        /\ pr'.state = pr.state /\ pr'.base = pr.base /\ pr'.head = pr.head
    BY <1>1, <1>5 DEF RequestAppears, Request
  <2>2. Typed'
    BY <1>1, <2>1 DEF IInv, Typed
  <2>3. HubOrdered'
    BY <1>1, <2>1 DEF IInv, HubOrdered, Listed
  <2>4. MergeStands' /\ CleanedInOrder' /\ RetriesCounted'
    BY <1>1, <2>1 DEF IInv, MergeStands, CleanedInOrder, RetriesCounted, Merged, Journal
  <2> QED
    BY <1>1, <2>2, <2>3, <2>4, OutsideSafe
<1>6. CASE BaseMoves
  <2>1. /\ pr.state = "OPEN" /\ pr.base < main /\ UNCHANGED <<issue, main>> /\ pr' \in Request
        /\ pr'.visible = pr.visible /\ pr'.state = pr.state /\ pr'.base = main /\ pr'.head = pr.head
    BY <1>1, <1>6 DEF BaseMoves, Request
  <2>2. Typed'
    BY <1>1, <2>1 DEF IInv, Typed
  <2>3. HubOrdered'
    <3>1. \A j \in DOMAIN ci.of : ci.of[j].base <= pr.base /\ pr.base \in Nat
      BY HubNumbers DEF IInv, HubOrdered
    <3>2. \A j \in DOMAIN ci.of : ci.of[j].base <= main
      BY <1>1, <1>2, <2>1, <3>1
    <3> QED
      BY <1>1, <2>1, <3>2, Constants DEF IInv, HubOrdered, Listed
  <2>4. MergeStands' /\ CleanedInOrder' /\ RetriesCounted'
    BY <1>1, <1>3, <1>4, <2>1 DEF IInv, MergeStands, CleanedInOrder, RetriesCounted, Merged, Journal
  <2> QED
    BY <1>1, <2>2, <2>3, <2>4, OutsideSafe
<1>7. CASE Land
  <2>1. /\ pr.state = "OPEN" /\ main' = main + 1 /\ UNCHANGED issue /\ pr' \in Request
        /\ pr'.visible = pr.visible /\ pr'.state = "MERGED" /\ pr'.base = pr.base /\ pr'.head = pr.head
    BY <1>1, <1>7 DEF Land, Request
  <2>2. main' \in Mains
    BY <1>1, <2>1, Constants DEF Mains
  <2>3. Typed'
    BY <1>1, <2>1, <2>2 DEF IInv, Typed
  <2>4. HubOrdered'
    <3>1. pr.base \in Nat /\ pr.base <= main /\ pr.base >= 1
      BY <2>1, HubNumbers
    <3>2. pr.base < main' /\ pr.base <= main'
      BY <1>1, <2>1, <3>1
    <3> QED
      BY <1>1, <2>1, <3>1, <3>2 DEF IInv, HubOrdered, Listed
  <2>5. MergeStands' /\ CleanedInOrder' /\ RetriesCounted'
    BY <1>1, <1>3, <1>4, <2>1 DEF IInv, MergeStands, CleanedInOrder, RetriesCounted, Merged, Journal
  <2> QED
    BY <1>1, <2>3, <2>4, <2>5, OutsideSafe
<1>8. CASE CloseIssue
  <2>1. pr.state = "MERGED" /\ issue = "OPEN" /\ issue' = "CLOSED" /\ UNCHANGED <<pr, main>>
    BY <1>8 DEF CloseIssue
  <2>2. Typed' /\ HubOrdered'
    BY <1>1, <2>1 DEF IInv, Typed, HubOrdered, Listed
  <2>3. MergeStands' /\ CleanedInOrder' /\ RetriesCounted'
    BY <1>1, <2>1 DEF IInv, MergeStands, CleanedInOrder, RetriesCounted, Merged, Journal
  <2> QED
    BY <1>1, <2>2, <2>3, OutsideSafe
<1> QED
  BY <1>5, <1>6, <1>7, <1>8

\* The developer, main and the operators.
LEMMA OthersWork ==
    ASSUME IInv, \/ Develop \/ MoveMain \/ OperatorOpensRequest \/ OperatorPushes
                 \/ OperatorMerges \/ OperatorWorks
    PROVE  IInv'
<1>1. /\ pr \in Request /\ main \in Mains /\ main \in Nat /\ gitHead \in Nat /\ gitHead \in Candidates
      /\ branch \in Tips /\ edits \in Nat /\ edits \in 0..MaxEdits /\ merging \in [head : Tips, ours : BOOLEAN]
      /\ disk.cand \in Nat /\ draft.cand \in Nat /\ operator \in Nat
      /\ (pc # "idle" => view.git \in Nat)
  BY Constants DEF IInv, Typed, Records, Views
<1>2. \A r \in {disk, draft} : Merged(r) => pr.state = "MERGED"
  BY DEF IInv, MergeStands
<1>3. \A j \in DOMAIN ci.of : ci.of[j].base \in Nat /\ ci.of[j].run \in Nat
  BY HubNumbers
<1>4. UNCHANGED <<disk, pc, view, draft, ci, issue, worktree, localBranch, localMain, faults, reran>>
  BY DEF Develop, MoveMain, OperatorOpensRequest, OperatorPushes, OperatorMerges, OperatorWorks,
     Edits, Outside, invocation, hub, workspace
<1>5. CASE Develop
  <2>1. gitHead' = gitHead + 1 /\ gitHead' \in Candidates /\ UNCHANGED <<branch, pr, merging, main, operator, edits>>
    BY <1>1, <1>5, Constants DEF Develop, Candidates, hub
  <2>2. Typed'
    BY <1>4, <2>1 DEF IInv, Typed
  <2>3. HubOrdered'
    BY <1>1, <1>4, <2>1 DEF IInv, HubOrdered, Listed
  <2>4. MergeStands' /\ CleanedInOrder' /\ RetriesCounted'
    BY <1>4, <2>1 DEF IInv, MergeStands, CleanedInOrder, RetriesCounted, Merged, Journal
  <2> QED
    BY <1>4, <2>2, <2>3, <2>4, OutsideSafe
<1>6. CASE MoveMain
  <2>1. /\ main < MaxMain /\ main' = main + 1
        /\ UNCHANGED <<branch, pr, merging, gitHead, operator, edits>>
    BY <1>6 DEF MoveMain, workspace
  <2>2. main' \in Mains /\ main' <= MaxMain /\ main <= main'
    BY <1>1, <2>1, Constants DEF Mains
  <2>3. Typed'
    BY <1>4, <2>1, <2>2 DEF IInv, Typed
  <2>4. HubOrdered'
    <3>1. pr.state # "none" => pr.base \in Nat /\ pr.base >= 1 /\ pr.base <= main
      BY HubNumbers
    <3>2. /\ pr.state # "none" => pr.base <= main'
          /\ pr.state = "MERGED" => pr.base < main'
      BY <1>1, <2>1, <3>1 DEF IInv, HubOrdered
    <3> QED
      BY <1>4, <2>1, <2>2, <3>1, <3>2 DEF IInv, HubOrdered, Listed
  <2>5. MergeStands' /\ CleanedInOrder' /\ RetriesCounted'
    BY <1>4, <2>1 DEF IInv, MergeStands, CleanedInOrder, RetriesCounted, Merged, Journal
  <2> QED
    BY <1>4, <2>3, <2>4, <2>5, OutsideSafe
<1>7. CASE OperatorOpensRequest
  <2>1. /\ pr.state = "none" /\ branch # 0 /\ edits' \in 0..MaxEdits /\ edits' >= edits
        /\ UNCHANGED <<branch, merging, main, gitHead, operator>>
    BY <1>1, <1>7, Constants DEF OperatorOpensRequest, Edits, workspace
  <2>2. pr' \in Request /\ pr'.state = "OPEN" /\ pr'.base = main /\ pr'.head = branch /\ pr'.visible
    BY <1>1, <1>7 DEF OperatorOpensRequest, Request
  <2>3. Typed'
    BY <1>4, <2>1, <2>2 DEF IInv, Typed
  <2>4. HubOrdered'
    <3>1. DOMAIN ci.of = {} /\ 1 <= main /\ main <= main
      BY <1>1, <2>1, Constants DEF IInv, HubOrdered
    <3> QED
      BY <1>4, <2>1, <2>2, <3>1 DEF IInv, HubOrdered, Listed
  <2>5. ~Merged(disk) /\ ~Merged(draft)
    BY <1>2, <2>1
  <2>6. MergeStands' /\ CleanedInOrder' /\ RetriesCounted'
    BY <1>4, <2>1, <2>5 DEF IInv, MergeStands, CleanedInOrder, RetriesCounted, Merged, Journal, Finishing
  <2> QED
    BY <1>4, <2>3, <2>4, <2>6, OutsideSafe
<1>8. CASE OperatorPushes
  <2>1. /\ edits' = edits + 1 /\ edits' \in 0..MaxEdits /\ (pr.state = "MERGED" => branch # 0)
        /\ branch' = Stranger /\ merging' = [head |-> 0, ours |-> FALSE]
        /\ UNCHANGED <<main, gitHead, operator>>
    BY <1>1, <1>8, Constants DEF OperatorPushes, Edits, workspace
  <2>2. /\ pr' \in Request /\ pr'.state = pr.state /\ pr'.base = pr.base /\ pr'.visible = pr.visible
        /\ (pr.state = "MERGED" => pr' = pr)
    BY <1>1, <1>8 DEF OperatorPushes, Request, Tips
  <2>3. Typed'
    BY <1>4, <2>1, <2>2, Constants DEF IInv, Typed, Tips
  <2>4. HubOrdered'
    <3>1. \A j \in DOMAIN ci.of : ci.of[j].run <= edits' + ci.of[j].base
      BY <1>1, <1>3, <2>1 DEF IInv, HubOrdered
    <3> QED
      BY <1>4, <2>1, <2>2, <3>1 DEF IInv, HubOrdered, Listed
  <2>5. pc \in Cleaning \/ ~worktree => pr.state = "MERGED" /\ branch = 0
    BY <1>2 DEF IInv, MergeStands, CleanedInOrder, Finishing
  <2>6. MergeStands' /\ CleanedInOrder' /\ RetriesCounted'
    BY <1>2, <1>4, <2>1, <2>2, <2>5
    DEF IInv, MergeStands, CleanedInOrder, RetriesCounted, Merged, Journal
  <2> QED
    BY <1>4, <2>3, <2>4, <2>6, OutsideSafe
<1>9. CASE OperatorMerges \/ OperatorWorks
  <2>1. /\ edits' = edits + 1 /\ edits' \in 0..MaxEdits
        /\ UNCHANGED <<branch, pr, main, issue, gitHead>>
    BY <1>1, <1>9, Constants DEF OperatorMerges, OperatorWorks, Edits, workspace, hub
  <2>2. merging' \in [head : Tips, ours : BOOLEAN] /\ operator' \in Nat
    <3>1. [head |-> pr.head, ours |-> FALSE] \in [head : Tips, ours : BOOLEAN] /\ operator + 1 \in Nat
      BY <1>1 DEF Request
    <3> QED
      BY <1>1, <1>9, <3>1 DEF OperatorMerges, OperatorWorks, workspace, hub
  <2>3. Typed'
    BY <1>4, <2>1, <2>2 DEF IInv, Typed
  <2>4. HubOrdered'
    <3>1. \A j \in DOMAIN ci.of : ci.of[j].run <= edits' + ci.of[j].base
      BY <1>1, <1>3, <2>1 DEF IInv, HubOrdered
    <3> QED
      BY <1>4, <2>1, <3>1 DEF IInv, HubOrdered, Listed
  <2>5. MergeStands' /\ CleanedInOrder' /\ RetriesCounted'
    BY <1>4, <2>1 DEF IInv, MergeStands, CleanedInOrder, RetriesCounted, Merged, Journal
  <2> QED
    BY <1>4, <2>3, <2>4, <2>5, OutsideSafe
<1> QED
  BY <1>5, <1>6, <1>7, <1>8, <1>9

-------------------------------------------------------------------------------
(* The invariant *)

\* The first record of a run, before anything is published.
LEMMA InitSafe == Init => IInv
<1> SUFFICES ASSUME Init PROVE IInv
  OBVIOUS
<1>1. /\ disk = [cand |-> 1, ready |-> FALSE, state |-> "needs-review", nl |-> NoDelivery]
      /\ draft = disk /\ pc = "idle" /\ view = NoView /\ branch = 0
      /\ pr = [state |-> "none", base |-> 0, head |-> 0, label |-> "none", visible |-> FALSE]
      /\ ci = [head |-> 0, of |-> Nothing] /\ merging = [head |-> 0, ours |-> FALSE]
      /\ issue = "OPEN" /\ main = 1 /\ gitHead = 1 /\ worktree = TRUE /\ localBranch = TRUE
      /\ localMain = 1 /\ operator = 0 /\ edits = 0 /\ faults = 0
      /\ reran = [id \in Required |-> 0]
  BY DEF Init
<1>2. 1 \in Candidates /\ 1 \in Mains /\ 0 \in Tips /\ 0 \in 0..MaxCandidates /\ 0 \in 0..MaxEdits
      /\ 1 <= MaxMain
  BY Constants DEF Candidates, Mains, Tips
<1>3. Nothing \in RunLists /\ DOMAIN Nothing = {}
  BY EmptyFamily DEF RunLists
<1>4. disk \in Records
  BY <1>1, <1>2 DEF Records, States
<1>5. pr \in Request /\ ci \in [head : 0..MaxCandidates, of : RunLists]
      /\ merging \in [head : Tips, ours : BOOLEAN] /\ ci.of = Nothing
  BY <1>1, <1>2, <1>3 DEF Request
<1>6. Typed
  BY <1>1, <1>2, <1>4, <1>5 DEF Typed, Steps
<1>7. HubOrdered
  BY <1>1, <1>2, <1>3, <1>5 DEF HubOrdered
<1>8. DraftFollows
  BY <1>1 DEF DraftFollows, Proving, Publications
<1>9. RecordsSound
  BY <1>1 DEF RecordsSound, Sound
<1>10. MergeStands /\ CleanedInOrder
  BY <1>1 DEF MergeStands, CleanedInOrder, Merged, Finishing, Cleaning
<1>11. RetriesCounted
  BY <1>1, <1>3, <1>5 DEF RetriesCounted
<1> QED
  BY <1>6, <1>7, <1>8, <1>9, <1>10, <1>11 DEF IInv

\* Every step preserves the invariant.
LEMMA NextSafe == IInv /\ [Next]_vars => IInv'
<1> SUFFICES ASSUME IInv, [Next]_vars PROVE IInv'
  OBVIOUS
<1>1. CASE Invokes
  <2>1. CASE Begin \/ Save
    BY <2>1, BeginSafe, SaveSafe
  <2>2. CASE ResumeUnobserved \/ ResumeUnmerged \/ AdoptMerge \/ ResumeAdopted \/ CaptureOperator
    BY <2>2, ResumeSafe
  <2>3. CASE NewCandidate \/ Supersede \/ OffBranch \/ FailureStands \/ BecomeReady \/ Authorize
    BY <2>3, CandidateSafe
  <2>4. CASE \/ PublishUnobserved \/ FindBranchBehind \/ PushedUnobserved
             \/ FindStrangerOnBranch \/ RecordBranch \/ FindNoPullRequest
             \/ FindOtherPullRequest \/ FindUnlabelled \/ FindPullRequest
    BY <2>4, PublishSafe
  <2>5. CASE Push \/ CreatePullRequest \/ LabelPullRequest
    BY <2>5, PushSafe, CreateSafe, LabelSafe
  <2>6. CASE \/ ConfirmUnobserved \/ ConfirmChanged \/ ConfirmWaits \/ ConfirmGreen
             \/ ConfirmInfrastructure \/ ConfirmCandidateFailure
    BY <2>6, ConfirmSafe
  <2>7. CASE RetryInfrastructure \/ MergeReadiness \/ VerifyRequest \/ EnsureMerge
    BY <2>7, RetrySafe, MergeSafe, EnsureSafe
  <2>8. CASE DeleteRemoteBranch \/ LocalCleanup \/ RemoveWorktree \/ DeleteLocalBranch \/ FastForward
    BY <2>8, CleanupSafe
  <2> QED
    BY <1>1, <2>1, <2>2, <2>3, <2>4, <2>5, <2>6, <2>7, <2>8 DEF Invokes
<1>2. CASE GitHub
  <2>1. CASE RequestAppears \/ BaseMoves \/ Land \/ CloseIssue
    BY <2>1, RequestsMove
  <2>2. CASE GovernanceStarts
    BY <2>2, ChecksSafe, Constants
  <2>3. CASE \E id \in Required : CheckStarts(id) \/ CheckPasses(id)
    BY <2>3, ChecksSafe
  <2> QED
    BY <1>2, <2>1, <2>2, <2>3 DEF GitHub
<1>3. CASE Disturbs
  <2>1. CASE \E id \in Required : CheckFails(id) \/ OperatorReruns(id)
    BY <2>1, ChecksSafe
  <2> QED
    BY <1>3, <2>1, CrashSafe, OthersWork DEF Disturbs
<1>4. CASE UNCHANGED vars
  <2>1. UNCHANGED <<disk, pc, view, draft, branch, pr, ci, merging, issue, main, gitHead, worktree,
                    localBranch, localMain, operator, edits, faults, reran>>
    BY <1>4 DEF vars, invocation, hub, workspace, counters
  <2> QED
    BY <2>1 DEF IInv, Typed, HubOrdered, DraftFollows, RecordsSound, MergeStands, CleanedInOrder,
       RetriesCounted, Merged, Journal, Listed
<1> QED
  BY <1>1, <1>2, <1>3, <1>4 DEF Next

\* The inductive invariant holds throughout every run of Advance.
THEOREM Invariance == Spec => []IInv
  BY InitSafe, NextSafe, PTL DEF Spec

-------------------------------------------------------------------------------
(* What follows for the properties *)

\* A stored success is a proof: every required context has one trusted report,
\* which succeeded for this commit, and nothing else was reported.
LEMMA GreenGate ==
    ASSUME NEW obs, NEW head \in Commits, NEW base, evaluateCIPolicy(obs, head, base) = "success"
    PROVE  Green(obs, head, base)
<1>1. /\ ~Blocked(obs, head, base) /\ ~Unattributed(obs, head) /\ ~Waiting(obs, head)
      /\ ~Blamed(obs, head, "candidate") /\ ~Blamed(obs, head, "infrastructure")
  BY DEF evaluateCIPolicy
<1>2. \A i \in DOMAIN obs : obs[i].linked /\ TrustedProvenance(head, base, obs[i])
  BY <1>1 DEF Blocked
<1>3. ASSUME NEW id \in Required
      PROVE  Proved(obs, head, base, id)
  <2>1. Class(obs, head, id) \notin {"conflict", "unavailable", "absent", "pending", "stale-head"}
    BY <1>1, <1>3 DEF Blocked, Unclear, Waiting
  <2>2. Class(obs, head, id) \notin {"failed", "cancelled"}
    BY <1>1, <1>3 DEF Unattributed, Blamed, Failures
  <2>3. PICK i \in Reported(obs, id) : \A j \in Reported(obs, id) : j = i
    BY <2>1 DEF Class
  <2>4. ReportOf(obs, id) = obs[i]
    <3>1. Reported(obs, id) = {i}
      BY <2>3
    <3>2. (CHOOSE k \in Reported(obs, id) : TRUE) = i
      BY <3>1
    <3> QED
      BY <3>2 DEF ReportOf
  <2>5. Classification(head, obs[i]) = Class(obs, head, id)
    BY <2>3, <2>4 DEF Class
  <2>6. obs[i].conclusion = "success" /\ obs[i].head = head
    BY <2>1, <2>2, <2>5, PolicyAssumption DEF Classification
  <2> QED
    BY <1>2, <2>3, <2>6 DEF Proved, Reported
<1> QED
  BY <1>2, <1>3 DEF Green, TrustedProvenance

\* Types: nothing the program records or observes leaves its range.
THEOREM TypesKept == Spec => []TypeOK
<1>1. IInv => TypeOK
  <2> SUFFICES ASSUME IInv PROVE TypeOK
    OBVIOUS
  <2>1. \A r \in {disk, draft} : \E S \in SUBSET Required : r \in Record(S)
    BY RecordsDef DEF IInv, Typed
  <2>2. pc = "idle" => draft = disk /\ view = NoView
    BY DEF IInv, Typed, DraftFollows, Proving
  <2>3. \A id \in DOMAIN ci.of : ci.of[id].run \in Runs
    <3>1. ci.of \in [DOMAIN ci.of -> Run]
      BY FamilyDef DEF IInv, Typed, RunLists
    <3>2. \A r \in Run : r.run \in Runs
      BY DEF Run
    <3> QED
      BY <3>1, <3>2
  <2> QED
    BY <2>1, <2>2, <2>3 DEF IInv, Typed, TypeOK, Request, Tips
<1> QED
  BY <1>1, Invariance, PTL

\* The clauses of validateNonLocalRecord on readiness, failure and merge accept
\* every record that is written.
THEOREM OwnRecordsAccepted == Spec => []OwnRecordAccepted
<1>1. IInv => (disk.nl # NoDelivery =>
                 ReadinessCoherent(disk) /\ FailureCoherent(disk) /\ MergeCoherent(disk))
  BY DEF IInv, RecordsSound, Sound, MergeCoherent
<1>2. IInv /\ TypeOK => OwnRecordAccepted
  BY <1>1 DEF OwnRecordAccepted
<1> QED
  BY <1>2, Invariance, TypesKept, PTL

\* Nothing local is removed before the merge is adopted, the issue closed and the
\* remote branch gone, and the local steps keep their order.
THEOREM CleanupsOrdered == Spec => []CleanupOrdered
<1>1. IInv => CleanupOrdered
  <2> SUFFICES ASSUME IInv PROVE CleanupOrdered
    OBVIOUS
  <2>1. disk.state = "completed" => draft = disk
    BY DEF IInv, DraftFollows, Proving
  <2> QED
    BY <2>1 DEF IInv, CleanupOrdered, CleanedInOrder, MergeStands, Merged
<1> QED
  BY <1>1, Invariance, PTL

\* A merge is adopted only onto a proof that every required check is green.
THEOREM AdoptionsProved == Spec => []AdoptedProved
<1>1. IInv => AdoptedProved
  <2> SUFFICES ASSUME IInv, disk.nl # NoDelivery, disk.nl.merge
               PROVE  Green(disk.nl.checks, disk.cand, disk.nl.pr)
    BY DEF AdoptedProved
  <2>1. disk.cand \in Commits
    BY Constants DEF IInv, Typed, Records
  <2>2. MergeGate(disk)
    BY DEF IInv, RecordsSound, Sound
  <2> QED
    BY <2>1, <2>2, GreenGate DEF MergeGate
<1> QED
  BY <1>1, Invariance, PTL

\* A failed run is re-run once: again only if a fault hid that it was.
THEOREM RetriesOnce == Spec => []RetriedOnce
<1>1. IInv => RetriedOnce
  BY DEF IInv, RetriesCounted, RetriedOnce
<1> QED
  BY <1>1, Invariance, PTL

-------------------------------------------------------------------------------
(* The steps *)

\* The steps of an invocation that have an effect outside of it.
LEMMA InvokesTouch ==
    ASSUME Invokes
    PROVE  \/ Untouched \/ Push \/ EnsureMerge \/ CreatePullRequest \/ LabelPullRequest
           \/ RetryInfrastructure \/ DeleteRemoteBranch \/ RemoveWorktree \/ DeleteLocalBranch \/ FastForward
  BY DEF Invokes, Begin, Save, ResumeUnobserved, ResumeUnmerged, AdoptMerge, ResumeAdopted,
     CaptureOperator, NewCandidate, Supersede, OffBranch, FailureStands, BecomeReady, Authorize,
     PublishUnobserved, FindBranchBehind, PushedUnobserved, FindStrangerOnBranch, RecordBranch,
     FindNoPullRequest, FindOtherPullRequest, FindUnlabelled, FindPullRequest, SeesBranch, SeesRequests,
     ConfirmUnobserved, ConfirmChanged, ConfirmWaits, ConfirmGreen, ConfirmInfrastructure,
     ConfirmCandidateFailure, Confirms, MergeReadiness, VerifyRequest, LocalCleanup

\* Only EnsureMerge asks GitHub for a merge in the program's name.
LEMMA AsksForMerge ==
    ASSUME Next, merging' # merging, merging'.ours
    PROVE  pc = "merge" /\ ExactPullRequest(Commit) /\ RequestMerge
<1>1. \A h : [head |-> h, ours |-> FALSE].ours = FALSE
  OBVIOUS
<1>2. CASE Push
  BY <1>1, <1>2 DEF Push, Pushed, Untouched, hub
<1>3. CASE OperatorPushes \/ OperatorMerges
  BY <1>1, <1>3 DEF OperatorPushes, OperatorMerges
<1>4. CASE EnsureMerge
  BY <1>4 DEF EnsureMerge, Untouched, hub
<1>5. CASE CreatePullRequest \/ LabelPullRequest \/ RetryInfrastructure \/ DeleteRemoteBranch
           \/ RemoveWorktree \/ DeleteLocalBranch \/ FastForward
  BY <1>5 DEF CreatePullRequest, LabelPullRequest, RetryInfrastructure, DeleteRemoteBranch, RemoveWorktree,
     DeleteLocalBranch, FastForward, CleanUp, Created, Labelled, Reran, Untouched, hub
<1>6. CASE Untouched
  BY <1>6 DEF Untouched, hub
<1>7. CASE GitHub
  BY <1>7 DEF GitHub, RequestAppears, BaseMoves, GovernanceStarts, Land, CloseIssue, CheckStarts, CheckPasses
<1>8. CASE Disturbs
  <2>1. CASE Develop \/ MoveMain \/ OperatorOpensRequest \/ OperatorWorks
    BY <2>1 DEF Develop, MoveMain, OperatorOpensRequest, OperatorWorks, hub
  <2>2. CASE \E id \in Required : CheckFails(id) \/ OperatorReruns(id)
    BY <2>2 DEF CheckFails, OperatorReruns
  <2>3. CASE Crash
    BY <1>6, <2>3 DEF Crash
  <2> QED
    BY <1>3, <1>8, <2>1, <2>2, <2>3 DEF Disturbs
<1>9. CASE Invokes
  <2> QED
    BY <1>2, <1>4, <1>5, <1>6, <1>9, InvokesTouch
<1> QED
  BY <1>7, <1>8, <1>9 DEF Next

\* The program asks for a merge only of the commit that the disk proves green,
\* against the base it was proved with, after a durable intent.
THEOREM MergesProved == Spec => MergeProved
<1>1. ASSUME IInv, [Next]_vars, merging' # merging, merging'.ours
      PROVE  /\ disk.nl # NoDelivery /\ disk.nl.mergeIntent # NoIntent
             /\ merging'.head = disk.cand /\ pr.head = disk.cand
             /\ disk.nl.mergeIntent.base = disk.nl.pr
             /\ Green(disk.nl.checks, disk.cand, disk.nl.pr)
  <2>1. pc = "merge" /\ ExactPullRequest(Commit) /\ RequestMerge
    BY <1>1, AsksForMerge DEF vars, hub
  <2>2. draft.cand = disk.cand /\ disk.nl # NoDelivery /\ disk.nl.mergeIntent # NoIntent
    BY <1>1, <2>1 DEF IInv, DraftFollows, Proving
  <2>3. disk.nl.mergeIntent.base = disk.nl.pr /\ MergeGate(disk)
    BY <1>1, <2>1, <2>2 DEF IInv, DraftFollows, Decodable, IntentCoherent
  <2>4. disk.cand \in Commits
    BY <1>1, Constants DEF IInv, Typed, Records
  <2> QED
    BY <2>1, <2>2, <2>3, <2>4, GreenGate DEF MergeGate, RequestMerge, ExactPullRequest, Commit
<1> QED
  BY <1>1, Invariance, PTL DEF Spec, MergeProved

\* Only Save writes the record.
LEMMA SaveWrites == ASSUME [Next]_vars, disk' # disk PROVE Save
<1>1. CASE GitHub
  BY <1>1 DEF GitHub, RequestAppears, BaseMoves, GovernanceStarts, Land, CloseIssue, CheckStarts,
     CheckPasses, Outside
<1>2. CASE Disturbs
  BY <1>2 DEF Disturbs, Crash, Develop, MoveMain, CheckFails, OperatorReruns, OperatorOpensRequest,
     OperatorPushes, OperatorMerges, OperatorWorks, Edits, Outside, Return
<1>3. CASE Invokes
  <2>1. ASSUME NEW p, NEW r, GoTo(p, r) PROVE FALSE
    BY <2>1 DEF GoTo
  <2>2. ASSUME NEW r, NEW state, Settle(r, state) PROVE FALSE
    BY <2>2 DEF Settle, GoTo
  <2>3. ~Return /\ ~Begin
    BY DEF Return, Begin
  <2>4. \/ Save
        \/ ResumeAdopted
        \/ Return
        \/ Begin
        \/ \E r, p : GoTo(p, r)
        \/ \E r, state : Settle(r, state)
    BY <1>3 DEF Invokes, ResumeUnobserved, ResumeUnmerged, AdoptMerge,
       CaptureOperator, NewCandidate, Supersede, OffBranch, FailureStands, BecomeReady, Authorize,
       PublishUnobserved, FindBranchBehind, PushedUnobserved, FindStrangerOnBranch, RecordBranch,
       FindNoPullRequest, FindOtherPullRequest, FindUnlabelled, FindPullRequest,
       ConfirmUnobserved, ConfirmChanged, ConfirmWaits, ConfirmGreen, ConfirmInfrastructure,
       ConfirmCandidateFailure, MergeReadiness, VerifyRequest, LocalCleanup, Push, EnsureMerge,
       CreatePullRequest, LabelPullRequest, RetryInfrastructure, DeleteRemoteBranch, RemoveWorktree,
       DeleteLocalBranch, FastForward, CleanUp
  <2>5. ~ResumeAdopted
    BY DEF ResumeAdopted, GoTo, Settle
  <2> QED
    BY <2>1, <2>2, <2>3, <2>4, <2>5
<1> QED
  BY <1>1, <1>2, <1>3 DEF Next, vars

\* Once a merge is adopted the candidate and its proof are frozen, and no
\* invocation gets to the candidate flow again.
THEOREM AdoptionsFinal == Spec => AdoptionFinal
<1>1. ASSUME IInv, [Next]_vars, IInv', disk.nl # NoDelivery, disk.nl.merge
      PROVE  /\ disk'.cand = disk.cand /\ disk'.nl # NoDelivery /\ disk'.nl.merge
             /\ disk'.nl.checks = disk.nl.checks /\ disk'.nl.pr = disk.nl.pr
             /\ pc' \in {"idle", "save", "resume", "capture", "delete-branch", "cleanup",
                         "remove-worktree", "delete-local-branch", "fast-forward"}
  <2>1. /\ disk'.cand = disk.cand /\ disk'.nl # NoDelivery /\ disk'.nl.merge
        /\ disk'.nl.checks = disk.nl.checks /\ disk'.nl.pr = disk.nl.pr
    <3>1. CASE disk' = disk
      BY <1>1, <3>1
    <3>2. CASE disk' # disk
      <4>1. disk' = draft /\ Replaces(draft, disk)
        BY <1>1, <3>2, SaveWrites DEF Save, IInv, DraftFollows
      <4> QED
        BY <1>1, <4>1 DEF Replaces, Merged
    <3> QED
      BY <3>1, <3>2
  <2>2. pc' \in {"idle", "save", "resume"} \cup Finishing
    BY <1>1, <2>1 DEF IInv, MergeStands, Merged
  <2> QED
    BY <2>1, <2>2 DEF Finishing, Cleaning
<1>2. IInv /\ [Next]_vars => IInv'
  BY NextSafe
<1> QED
  BY <1>1, <1>2, Invariance, PTL DEF Spec, AdoptionFinal

\* The work of another author on the issue branch is neither moved nor deleted.
THEOREM StrangersWorkKept == Spec => StrangersKept
<1>1. ASSUME IInv, [Next]_vars, branch = Stranger
      PROVE  branch' = Stranger
  <2>1. draft.cand \in Candidates /\ Stranger \notin Candidates \cup {0} /\ Stranger \notin 0..draft.cand
    BY <1>1, Constants DEF IInv, Typed, Records, Candidates
  <2>2. CASE Push
    BY <1>1, <2>1, <2>2 DEF Push, Pushable, Commit, Untouched, hub
  <2>3. CASE DeleteRemoteBranch
    BY <1>1, <2>1, <2>3 DEF DeleteRemoteBranch, Commit
  <2>4. CASE OperatorPushes
    BY <2>4 DEF OperatorPushes
  <2>5. CASE UNCHANGED branch
    BY <1>1, <2>5
  <2>6. CASE GitHub
    BY <1>1, <2>6 DEF GitHub, RequestAppears, BaseMoves, GovernanceStarts, Land, CloseIssue, CheckStarts,
       CheckPasses
  <2>7. CASE Disturbs
    BY <1>1, <2>4, <2>7 DEF Disturbs, Crash, Develop, MoveMain, CheckFails, OperatorReruns,
       OperatorOpensRequest, OperatorMerges, OperatorWorks, Untouched, hub
  <2>8. CASE Invokes
    <3>1. CASE Untouched
      BY <2>5, <3>1 DEF Untouched, hub
    <3>2. CASE CreatePullRequest \/ LabelPullRequest \/ RetryInfrastructure \/ EnsureMerge
               \/ RemoveWorktree \/ DeleteLocalBranch \/ FastForward
      BY <2>5, <3>2 DEF CreatePullRequest, LabelPullRequest, RetryInfrastructure, EnsureMerge, RemoveWorktree,
         DeleteLocalBranch, FastForward, CleanUp, Created, Labelled, Reran, RequestMerge, Untouched, hub
    <3> QED
      BY <2>2, <2>3, <2>8, <3>1, <3>2, InvokesTouch
  <2> QED
    BY <1>1, <2>5, <2>6, <2>7, <2>8 DEF Next, vars, hub
<1> QED
  BY <1>1, Invariance, PTL DEF Spec, StrangersKept

-------------------------------------------------------------------------------
(* The promise: what it takes beyond the inductive invariant *)

\* A superseded record is the last one.  A record that adopts a merge adds nothing
\* to the proof on disk, and one that starts a delivery has none; the remote branch is
\* deleted, and a run superseded, only when the issue is closed.
PromiseInv ==
    /\ disk.state = "superseded" => pc = "idle"
    /\ pc = "save" =>
          /\ draft.state = "superseded" =>
                issue = "CLOSED" /\ draft.cand = disk.cand /\ draft.nl = disk.nl
          /\ Merged(draft) /\ ~Merged(disk) =>
                /\ disk.nl # NoDelivery
                /\ draft.nl.checks = disk.nl.checks /\ draft.nl.pr = disk.nl.pr
          /\ disk.nl = NoDelivery => draft.nl \in {NoDelivery, Authorized}
    /\ pc = "delete-branch" => issue = "CLOSED"
    /\ pr.state = "MERGED" => pr.head # 0

\* A merged request names a commit, and a closed issue stays closed.
LEMMA MergesNamed ==
    ASSUME IInv, PromiseInv, Next
    PROVE  /\ pr'.state = "MERGED" => pr'.head # 0
           /\ issue = "CLOSED" => issue' = "CLOSED"
<1>1. pr \in Request /\ (pr.state = "MERGED" => pr.head # 0)
  BY DEF IInv, Typed, PromiseInv
<1>2. CASE UNCHANGED <<pr, issue>>
  BY <1>1, <1>2
<1>3. CASE Untouched
  BY <1>2, <1>3 DEF Untouched, hub
<1>4. CASE Push
  <2>1. draft.cand # 0
    BY Constants DEF IInv, Typed, Records
  <2> QED
    BY <1>1, <1>3, <1>4, <2>1 DEF Push, Pushed, Commit, Request
<1>5. CASE CreatePullRequest \/ LabelPullRequest
  BY <1>1, <1>3, <1>5 DEF CreatePullRequest, LabelPullRequest, Created, Labelled, Request
<1>6. CASE EnsureMerge \/ DeleteRemoteBranch
           \/ RemoveWorktree \/ DeleteLocalBranch \/ FastForward
  BY <1>2, <1>3, <1>6 DEF EnsureMerge, DeleteRemoteBranch, RemoveWorktree,
     DeleteLocalBranch, FastForward, CleanUp, RequestMerge, hub
<1>7. CASE \/ RetryInfrastructure \/ GovernanceStarts
           \/ \E id \in Required : CheckStarts(id) \/ CheckPasses(id) \/ CheckFails(id) \/ OperatorReruns(id)
  <2>1. ASSUME NEW id \in Required,
               CheckStarts(id) \/ CheckPasses(id) \/ CheckFails(id) \/ OperatorReruns(id)
        PROVE  pr' = pr /\ issue' = issue
    BY <2>1 DEF CheckStarts, CheckPasses, CheckFails, OperatorReruns
  <2>2. ASSUME GovernanceStarts PROVE pr' = pr /\ issue' = issue
    BY <2>2 DEF GovernanceStarts
  <2>3. ASSUME NEW id, NEW run, Reran(id, run) PROVE pr' = pr /\ issue' = issue
    BY <2>3 DEF Reran
  <2>4. RetryInfrastructure => Untouched \/ \E id, run : Reran(id, run)
    BY DEF RetryInfrastructure
  <2> QED
    BY <1>2, <1>3, <1>7, <2>1, <2>2, <2>3, <2>4
<1>8. CASE RequestAppears \/ BaseMoves \/ Land \/ CloseIssue
  BY <1>1, <1>8 DEF RequestAppears, BaseMoves, Land, CloseIssue, Request
<1>9. CASE Disturbs
  <2>1. CASE Crash
    BY <1>3, <2>1 DEF Crash
  <2>2. CASE Develop \/ MoveMain \/ OperatorMerges \/ OperatorWorks
    BY <1>2, <2>2 DEF Develop, MoveMain, OperatorMerges, OperatorWorks, hub
  <2>3. CASE OperatorOpensRequest \/ OperatorPushes
    BY <1>1, <2>3 DEF OperatorOpensRequest, OperatorPushes, Request
  <2> QED
    BY <1>7, <1>9, <2>1, <2>2, <2>3 DEF Disturbs
<1>10. CASE Invokes
  BY <1>3, <1>4, <1>5, <1>6, <1>7, <1>10, InvokesTouch
<1> QED
  BY <1>7, <1>8, <1>9, <1>10 DEF Next, GitHub

\* Most records that are left to be written keep the merge of the draft they come from.
LEMMA AmendKeeps ==
    ASSUME IInv, PromiseInv, Next, pc \notin {"idle", "save"}, pc' = "save", UNCHANGED disk,
           draft'.state # "superseded",
           \/ draft'.nl = draft.nl
           \/ draft.nl # NoDelivery /\ draft'.nl.merge = draft.nl.merge
    PROVE  PromiseInv'
<1>1. pc \in Proving => disk.nl # NoDelivery /\ ~Merged(draft)
  BY DEF IInv, DraftFollows, Publications
<1>2. pc \notin Proving => draft = disk
  BY DEF IInv, DraftFollows
<1>3. Merged(draft') => Merged(draft)
  BY DEF Merged
<1>4. Merged(draft') => Merged(disk)
  BY <1>1, <1>2, <1>3
<1>5. disk.nl = NoDelivery => draft'.nl = NoDelivery
  BY <1>1, <1>2
<1> QED
  BY <1>4, <1>5, MergesNamed DEF PromiseInv, Merged

\* An invocation that goes on, or ends, without leaving a record to be written.
LEMMA MoveKeeps ==
    ASSUME IInv, PromiseInv, Next, UNCHANGED disk, pc' # "save",
           disk.state = "superseded" => pc' = "idle",
           pc' = "delete-branch" => issue = "CLOSED"
    PROVE  PromiseInv'
  BY MergesNamed DEF PromiseInv

\* persistAssuranceTransition, of a record that keeps the merge of the draft.
LEMMA SettleKeeps ==
    ASSUME IInv, PromiseInv, Next, pc \notin {"idle", "save"},
           NEW record, NEW state, Settle(record, state),
           state # "superseded", "state" \in DOMAIN record,
           \/ record.nl = draft.nl
           \/ draft.nl # NoDelivery /\ record.nl.merge = draft.nl.merge
    PROVE  PromiseInv'
<1>1. /\ pc' = "save" /\ UNCHANGED disk
      /\ draft'.state = state /\ draft'.nl = record.nl
  BY DEF Settle, GoTo
<1> QED
  BY <1>1, AmendKeeps

\* The draft as it is, in a state that is not superseded.
LEMMA HaltKeeps ==
    ASSUME IInv, PromiseInv, Next, pc \notin {"idle", "save"},
           NEW state \in {"waiting", "blocked", "needs-review", "completed"}, Settle(draft, state)
    PROVE  PromiseInv'
<1>1. "state" \in DOMAIN draft
  BY DEF IInv, Typed, Records
<1> QED
  BY <1>1, SettleKeeps

\* An invocation goes on to a step that needs no closed issue.
LEMMA GoKeeps ==
    ASSUME IInv, PromiseInv, Next, pc # "idle", NEW p, NEW record, GoTo(p, record),
           p \notin {"save", "delete-branch"}
    PROVE  PromiseInv'
<1>1. UNCHANGED disk /\ pc' = p /\ disk.state # "superseded"
  BY DEF GoTo, PromiseInv
<1> QED
  BY <1>1, MoveKeeps

\* An invocation ends without leaving a record to be written.
LEMMA ReturnKeeps == ASSUME IInv, PromiseInv, Next, Return PROVE PromiseInv'
<1>1. UNCHANGED disk /\ pc' = "idle"
  BY DEF Return
<1> QED
  BY <1>1, MoveKeeps

\* What the draft holds while an invocation amends a delivery.
LEMMA DeliveryHeld ==
    ASSUME IInv, pc \in Publications \/ pc \in Finishing \/ (pc \in {"resume", "candidate"} /\ draft.nl # NoDelivery)
    PROVE  draft \in Records /\ draft.nl # NoDelivery /\ draft.nl \in Deliveries
<1>1. draft \in Records
  BY DEF IInv, Typed
<1>2. draft.nl # NoDelivery
  BY DEF IInv, DraftFollows, MergeStands, Merged, Publications, Proving, Finishing, Cleaning
<1> QED
  BY <1>1, <1>2 DEF Records

\* resumeMergedBeforeAuthority
LEMMA ResumeKeeps ==
    ASSUME IInv, PromiseInv, Next,
           ResumeUnobserved \/ ResumeUnmerged \/ AdoptMerge \/ ResumeAdopted \/ CaptureOperator
    PROVE  PromiseInv'
<1>1. pc \in {"resume", "capture"} /\ draft = disk
  BY DEF ResumeUnobserved, ResumeUnmerged, AdoptMerge, ResumeAdopted, CaptureOperator, IInv, DraftFollows, Proving
<1>2. draft \in Records /\ draft.nl # NoDelivery /\ draft.nl \in Deliveries
  <2>1. pc = "resume" => draft.nl # NoDelivery
    BY <1>1 DEF IInv, DraftFollows, HasPullRequest
  <2> QED
    BY <1>1, <2>1, DeliveryHeld DEF Finishing
<1>3. CASE ResumeUnobserved \/ ResumeUnmerged
  BY <1>1, <1>3, HaltKeeps, GoKeeps DEF ResumeUnobserved, ResumeUnmerged
<1>4. CASE AdoptMerge
  <2> DEFINE r == [draft EXCEPT !.nl.merge = TRUE]
  <2>1. CASE Settle(r, "waiting")
    <3>1. /\ "state" \in DOMAIN r /\ r.cand = draft.cand
          /\ r.nl.checks = draft.nl.checks /\ r.nl.pr = draft.nl.pr
      BY <1>2 DEF Records, Deliveries
    <3>2. pc' = "save" /\ UNCHANGED disk /\ draft'.state = "waiting" /\ draft'.nl = r.nl
      BY <2>1, <3>1 DEF Settle, GoTo
    <3> QED
      BY <1>1, <1>2, <3>1, <3>2, MergesNamed DEF PromiseInv
  <2> QED
    BY <1>1, <1>4, <2>1, HaltKeeps DEF AdoptMerge
<1>5. CASE ResumeAdopted
  <2>1. CASE GoTo("capture", draft) \/ \E state \in {"waiting", "blocked"} : Settle(draft, state)
    BY <1>1, <2>1, HaltKeeps, GoKeeps
  <2>2. CASE view.issue = "CLOSED" /\ UNCHANGED disk /\ pc' \in {"delete-branch", "cleanup"}
    <3>1. issue = "CLOSED" /\ disk.state # "superseded"
      BY <1>1, <2>2 DEF IInv, HubOrdered, PromiseInv
    <3> QED
      BY <2>2, <3>1, MoveKeeps
  <2> QED
    BY <1>5, <2>1, <2>2 DEF ResumeAdopted, GoTo
<1>6. CASE CaptureOperator
  <2> DEFINE r == [draft EXCEPT !.nl.mergeIntent = IntentOf(draft)]
  <2>1. "state" \in DOMAIN r /\ r.nl.merge = draft.nl.merge
    BY <1>2 DEF Records, Deliveries
  <2> HIDE DEF r
  <2>2. Settle(r, "waiting") \/ Settle(draft, "waiting")
    BY <1>6 DEF CaptureOperator, r
  <2> QED
    BY <1>1, <1>2, <2>1, <2>2, HaltKeeps, SettleKeeps
<1> QED
  BY <1>3, <1>4, <1>5, <1>6

\* A new candidate, a closed issue, readiness and authorization.
LEMMA CandidateKeeps ==
    ASSUME IInv, PromiseInv, Next,
           NewCandidate \/ Supersede \/ OffBranch \/ FailureStands \/ BecomeReady \/ Authorize
    PROVE  PromiseInv'
<1>1. pc = "candidate" /\ draft = disk /\ draft \in Records /\ "state" \in DOMAIN draft
  BY DEF NewCandidate, Supersede, OffBranch, FailureStands, BecomeReady, Authorize, AtCandidate, IInv,
         DraftFollows, Proving, Typed, Records
<1>2. CASE NewCandidate
  <2> DEFINE r == [draft EXCEPT !.cand = view.git, !.ready = FALSE, !.nl = NoDelivery]
  <2>1. "state" \in DOMAIN r /\ r.nl = NoDelivery
    BY <1>1 DEF Records
  <2>2. Settle(r, "needs-review")
    BY <1>2 DEF NewCandidate
  <2> HIDE DEF r
  <2>3. pc' = "save" /\ UNCHANGED disk /\ draft'.state = "needs-review" /\ draft'.nl = NoDelivery
    BY <2>1, <2>2 DEF Settle, GoTo
  <2>4. disk.state # "superseded"
    BY <1>1 DEF PromiseInv
  <2> QED
    BY <1>1, <2>3, <2>4, MergesNamed DEF PromiseInv, Merged
<1>3. CASE Supersede
  <2>1. /\ pc' = "save" /\ UNCHANGED disk
        /\ draft'.nl = draft.nl /\ draft'.cand = draft.cand
    BY <1>1, <1>3 DEF Supersede, Settle, GoTo, Records
  <2>2. issue = "CLOSED" /\ issue' = "CLOSED" /\ disk.state # "superseded"
    BY <1>1, <1>3, MergesNamed DEF Supersede, IInv, HubOrdered, PromiseInv
  <2> QED
    BY <1>1, <2>1, <2>2, MergesNamed DEF PromiseInv, Merged
<1>4. CASE FailureStands
  BY <1>4, ReturnKeeps DEF FailureStands
<1>5. CASE BecomeReady
  <2> DEFINE r == [draft EXCEPT !.ready = TRUE]
  <2>1. "state" \in DOMAIN r /\ r.nl = draft.nl
    BY <1>1 DEF Records
  <2> QED
    BY <1>1, <1>5, <2>1, SettleKeeps DEF BecomeReady
<1>6. CASE Authorize
  <2> DEFINE r == [draft EXCEPT !.nl = Authorized]
  <2>1. CASE Settle(r, "waiting")
    <3>1. "state" \in DOMAIN r /\ r.nl = Authorized /\ ~Authorized.merge
      BY <1>1 DEF Records, Authorized
    <3>2. pc' = "save" /\ UNCHANGED disk /\ draft'.state = "waiting" /\ draft'.nl = Authorized
      BY <2>1, <3>1 DEF Settle, GoTo
    <3> QED
      BY <1>1, <3>1, <3>2, MergesNamed DEF PromiseInv, Merged
  <2> QED
    BY <1>6, <2>1, ReturnKeeps DEF Authorize
<1>7. CASE OffBranch
  BY <1>1, <1>7, HaltKeeps DEF OffBranch
<1> QED
  BY <1>2, <1>3, <1>4, <1>5, <1>6, <1>7

\* advanceNonLocal and its effects
LEMMA PublishKeeps ==
    ASSUME IInv, PromiseInv, Next,
           \/ PublishUnobserved \/ FindBranchBehind \/ Push \/ PushedUnobserved
           \/ FindStrangerOnBranch \/ RecordBranch \/ FindNoPullRequest
           \/ FindOtherPullRequest \/ FindUnlabelled \/ FindPullRequest
           \/ CreatePullRequest \/ LabelPullRequest
    PROVE  PromiseInv'
<1> USE DEF SeesRequests, SeesBranch, Publishing, AtCandidate
<1>1. pc \in {"candidate", "push", "pushed", "create", "label"} /\ draft.nl # NoDelivery
  <2>1. pc \in {"candidate", "push", "pushed", "create", "label"} /\ (pc = "candidate" => draft.nl # NoDelivery)
    BY DEF PublishUnobserved, FindBranchBehind, Push, PushedUnobserved, FindStrangerOnBranch, RecordBranch,
           FindNoPullRequest, FindOtherPullRequest, FindUnlabelled, FindPullRequest, CreatePullRequest,
           LabelPullRequest
  <2> QED
    BY <2>1, DeliveryHeld DEF Publications
<1>2. draft \in Records /\ draft.nl \in Deliveries
  BY <1>1, DeliveryHeld DEF Publications
<1>3. ASSUME NEW state \in {"waiting", "blocked"}, Settle(draft, state)
      PROVE  PromiseInv'
  BY <1>1, <1>3, HaltKeeps
<1>4. ASSUME NEW p \in {"push", "pushed", "create", "label", "confirm"}, GoTo(p, draft)
      PROVE  PromiseInv'
  BY <1>1, <1>4, GoKeeps
<1>5. ASSUME NEW r, Settle(r, "waiting"), "state" \in DOMAIN r, r.nl.merge = draft.nl.merge
      PROVE  PromiseInv'
  BY <1>1, <1>5, SettleKeeps
<1>6. CASE PublishUnobserved \/ FindBranchBehind \/ Push \/ PushedUnobserved \/ FindStrangerOnBranch
           \/ FindOtherPullRequest
  BY <1>3, <1>4, <1>6
     DEF PublishUnobserved, FindBranchBehind, Push, PushedUnobserved, FindStrangerOnBranch, FindOtherPullRequest
<1>7. CASE RecordBranch
  <2> DEFINE r == [draft EXCEPT !.nl.branch = TRUE]
  <2>1. "state" \in DOMAIN r /\ r.nl.merge = draft.nl.merge
    BY <1>2 DEF Records, Deliveries
  <2> QED
    BY <1>5, <1>7, <2>1 DEF RecordBranch
<1>8. CASE FindNoPullRequest
  <2> DEFINE r == [draft EXCEPT !.nl.prIntent = "prepared"]
  <2>1. "state" \in DOMAIN r /\ r.nl.merge = draft.nl.merge
    BY <1>2 DEF Records, Deliveries
  <2> QED
    BY <1>3, <1>4, <1>5, <1>8, <2>1 DEF FindNoPullRequest
<1>9. CASE FindUnlabelled
  <2> DEFINE r == [draft EXCEPT !.nl.labelIntent = "prepared"]
  <2>1. "state" \in DOMAIN r /\ r.nl.merge = draft.nl.merge
    BY <1>2 DEF Records, Deliveries
  <2> QED
    BY <1>3, <1>4, <1>5, <1>9, <2>1 DEF FindUnlabelled
<1>10. CASE FindPullRequest
  <2> DEFINE r == [draft EXCEPT !.nl.pr = pr.base]
  <2>1. "state" \in DOMAIN r /\ r.nl.merge = draft.nl.merge
    BY <1>2 DEF Records, Deliveries
  <2> QED
    BY <1>3, <1>4, <1>5, <1>10, <2>1 DEF FindPullRequest
<1>11. CASE CreatePullRequest
  <2> DEFINE r == [draft EXCEPT !.nl.prIntent = "dispatched"]
  <2>1. "state" \in DOMAIN r /\ r.nl.merge = draft.nl.merge
    BY <1>2 DEF Records, Deliveries
  <2>2. Settle(r, "waiting") \/ Settle(draft, "waiting")
    BY <1>11 DEF CreatePullRequest
  <2> QED
    BY <1>3, <1>5, <2>1, <2>2
<1>12. CASE LabelPullRequest
  <2> DEFINE r == [draft EXCEPT !.nl.labelIntent = "dispatched"]
  <2>1. "state" \in DOMAIN r /\ r.nl.merge = draft.nl.merge
    BY <1>2 DEF Records, Deliveries
  <2>2. Settle(r, "waiting") \/ Settle(draft, "waiting")
    BY <1>12 DEF LabelPullRequest
  <2> QED
    BY <1>3, <1>5, <2>1, <2>2
<1> QED
  BY <1>6, <1>7, <1>8, <1>9, <1>10, <1>11, <1>12

\* advanceRequiredCI and advanceMerge
LEMMA ProvingKeeps ==
    ASSUME IInv, PromiseInv, Next,
           \/ ConfirmUnobserved \/ ConfirmChanged \/ ConfirmWaits \/ ConfirmGreen
           \/ ConfirmInfrastructure \/ ConfirmCandidateFailure \/ RetryInfrastructure
           \/ MergeReadiness \/ VerifyRequest \/ EnsureMerge
    PROVE  PromiseInv'
<1>1. pc \in {"confirm", "retry", "readiness", "verify", "merge"}
  BY DEF ConfirmUnobserved, ConfirmChanged, ConfirmWaits, ConfirmGreen, ConfirmInfrastructure,
         ConfirmCandidateFailure, Confirms, RetryInfrastructure, MergeReadiness, VerifyRequest, EnsureMerge
<1>2. draft \in Records /\ draft.nl \in Deliveries /\ draft.nl # NoDelivery
  BY <1>1, DeliveryHeld DEF Publications, Proving
<1>3. ASSUME NEW r, NEW state \in {"waiting", "blocked", "needs-review"}, Settle(r, state),
             "state" \in DOMAIN r, r.nl.merge = draft.nl.merge
      PROVE  PromiseInv'
  BY <1>1, <1>2, <1>3, SettleKeeps
<1>4. ASSUME NEW p \in {"retry", "readiness", "verify", "merge"}, NEW r, GoTo(p, r)
      PROVE  PromiseInv'
  BY <1>1, <1>4, GoKeeps
<1>5. "state" \in DOMAIN draft
  BY <1>2 DEF Records
<1>6. CASE ConfirmUnobserved \/ ConfirmChanged \/ VerifyRequest
  BY <1>3, <1>4, <1>5, <1>6 DEF ConfirmUnobserved, ConfirmChanged, VerifyRequest
<1>7. CASE ConfirmWaits \/ ConfirmGreen \/ ConfirmInfrastructure \/ ConfirmCandidateFailure
  <2> DEFINE F(id) == [Evaluated EXCEPT !.ready = FALSE,
                                        !.nl.failure = <<id, Evaluated.nl.checks[id].run>>]
  <2>1. "state" \in DOMAIN Evaluated /\ Evaluated.nl.merge = draft.nl.merge
    BY <1>2 DEF Evaluated, Records, Deliveries
  <2>2. ASSUME NEW id
        PROVE  "state" \in DOMAIN F(id) /\ F(id).nl.merge = draft.nl.merge
    BY <1>2 DEF Evaluated, Records, Deliveries
  <2> HIDE DEF F
  <2>3. CASE ConfirmCandidateFailure
    <3>1. \E id : Settle(F(id), "needs-review")
      BY <2>3 DEF ConfirmCandidateFailure, F
    <3> QED
      BY <1>3, <2>2, <3>1
  <2>4. CASE ConfirmWaits \/ ConfirmGreen \/ ConfirmInfrastructure
    BY <1>3, <1>4, <2>1, <2>4 DEF ConfirmWaits, ConfirmGreen, ConfirmInfrastructure
  <2> QED
    BY <1>7, <2>3, <2>4
<1>8. CASE RetryInfrastructure
  <2> DEFINE r == [draft EXCEPT !.nl.retries = @ \cup {Retry(draft)}]
  <2>1. "state" \in DOMAIN r /\ r.nl.merge = draft.nl.merge
    BY <1>2 DEF Records, Deliveries
  <2>2. Settle(r, "waiting") \/ Settle(draft, "waiting")
    BY <1>8 DEF RetryInfrastructure
  <2> QED
    BY <1>3, <1>5, <2>1, <2>2
<1>9. CASE MergeReadiness
  <2> DEFINE r == [draft EXCEPT !.nl.mergeIntent = IntentOf(draft)]
  <2>1. "state" \in DOMAIN r /\ r.nl.merge = draft.nl.merge
    BY <1>2 DEF Records, Deliveries
  <2> HIDE DEF r
  <2>2. \/ Settle(r, "waiting") \/ GoTo("verify", draft)
        \/ \E state \in {"waiting", "blocked"} : Settle(draft, state)
    BY <1>9 DEF MergeReadiness, r
  <2> QED
    BY <1>3, <1>4, <1>5, <2>1, <2>2
<1>10. CASE EnsureMerge
  <2> DEFINE r == [draft EXCEPT !.nl.mergeIntent.dispatched = TRUE]
  <2>1. "state" \in DOMAIN r /\ r.nl.merge = draft.nl.merge
    BY <1>2 DEF Records, Deliveries
  <2> HIDE DEF r
  <2>2. Settle(r, "waiting") \/ Settle(draft, "waiting")
    BY <1>10 DEF EnsureMerge, r
  <2> QED
    BY <1>3, <1>5, <2>1, <2>2
<1> QED
  BY <1>6, <1>7, <1>8, <1>9, <1>10

\* advancePostMerge
LEMMA CleanupKeeps ==
    ASSUME IInv, PromiseInv, Next,
           DeleteRemoteBranch \/ LocalCleanup \/ RemoveWorktree \/ DeleteLocalBranch \/ FastForward
    PROVE  PromiseInv'
<1>1. pc \in {"delete-branch", "cleanup", "remove-worktree", "delete-local-branch", "fast-forward"}
  BY DEF DeleteRemoteBranch, LocalCleanup, RemoveWorktree, DeleteLocalBranch, FastForward, CleanUp
<1>2. \/ \E state \in {"waiting", "blocked", "completed"} : Settle(draft, state)
      \/ \E p \in {"remove-worktree", "delete-local-branch", "fast-forward"} : GoTo(p, draft)
  BY DEF DeleteRemoteBranch, LocalCleanup, RemoveWorktree, DeleteLocalBranch, FastForward, CleanUp
<1> QED
  BY <1>1, <1>2, HaltKeeps, GoKeeps

\* The record is written, an invocation starts or dies, or the world moves.
LEMMA OutsideKeeps ==
    ASSUME IInv, PromiseInv, Next, Begin \/ Save \/ GitHub \/ Disturbs
    PROVE  PromiseInv'
<1>1. CASE Begin
  <2>1. UNCHANGED disk /\ pc' \in {"resume", "candidate"} /\ disk.state # "superseded"
    BY <1>1 DEF Begin
  <2> QED
    BY <2>1, MoveKeeps
<1>2. CASE Save
  BY <1>2, MergesNamed DEF Save, PromiseInv
<1>3. CASE Crash
  BY <1>3, ReturnKeeps DEF Crash
<1>4. CASE disk' = disk /\ pc' = pc /\ draft' = draft
  BY <1>4, MergesNamed DEF PromiseInv, Merged
<1>5. CASE GitHub
  BY <1>4, <1>5 DEF GitHub, RequestAppears, BaseMoves, GovernanceStarts, Land, CloseIssue, CheckStarts,
     CheckPasses, Outside, invocation
<1>6. CASE Disturbs
  BY <1>3, <1>4, <1>6 DEF Disturbs, Develop, MoveMain, CheckFails, OperatorReruns, OperatorOpensRequest,
     OperatorPushes, OperatorMerges, OperatorWorks, Edits, Outside, invocation
<1> QED
  BY <1>1, <1>2, <1>5, <1>6

\* What the promise takes beyond the inductive invariant is inductive with it.
LEMMA PromiseStep == IInv /\ PromiseInv /\ [Next]_vars => PromiseInv'
<1> SUFFICES ASSUME IInv, PromiseInv, [Next]_vars PROVE PromiseInv'
  OBVIOUS
<1>1. CASE UNCHANGED vars
  BY <1>1 DEF vars, invocation, hub, PromiseInv, Merged
<1>2. CASE Invokes
  BY <1>2, OutsideKeeps, ResumeKeeps, CandidateKeeps, PublishKeeps, ProvingKeeps, CleanupKeeps
     DEF Invokes, Next
<1> QED
  BY <1>1, <1>2, OutsideKeeps DEF Next

-------------------------------------------------------------------------------
(* The promise: each step keeps it *)

\* The commit GitHub was asked to merge, and the one that was merged.
Asked == IF merging.ours THEN merging.head ELSE 0
Landed == IF pr.state = "MERGED" THEN pr.head ELSE 0

\* What a step of the promise leaves alone.
RecordKept == disk' = disk
HubKept == Asked' = Asked /\ Landed' = Landed /\ issue' = issue /\ branch' = branch
WorkspaceKept == worktree' = worktree /\ localBranch' = localBranch /\ localMain' = localMain

Keeps == Promise!Next \/ UNCHANGED Promise!vars

\* What is left is what the workspace still has.
LEMMA RemainsDef ==
    /\ Remains \subseteq {"worktree", "branch", "main"}
    /\ "worktree" \in Remains <=> worktree
    /\ "branch" \in Remains <=> localBranch
    /\ "main" \in Remains <=> localMain = 1
  BY DEF Remains

\* The stage of a record.
LEMMA StageDef ==
    ASSUME NEW r
    PROVE  /\ Stage(r) = "completed" <=> r.state = "completed"
           /\ Stage(r) = "superseded" <=> r.state = "superseded"
           /\ r.state \notin {"completed", "superseded"} =>
                 /\ Stage(r) = "preparing" <=> r.nl = NoDelivery
                 /\ Stage(r) = "merged" <=> Merged(r)
                 /\ Stage(r) = "delivering" <=> r.nl # NoDelivery /\ ~Merged(r)
  BY DEF Stage, Merged

\* A step that shows nothing of itself.
LEMMA StutterKeeps == ASSUME RecordKept, HubKept, WorkspaceKept PROVE Keeps
  BY DEF Keeps, Promise!vars, RecordKept, HubKept, WorkspaceKept, Asked, Landed, Stage, ProofHeld, Remains

\* The initial states are those of the promise.
LEMMA PromiseInit == Init => Promise!Init
<1> SUFFICES ASSUME Init PROVE Promise!Init
  OBVIOUS
<1>1. disk.cand = 1 /\ Stage(disk) = "preparing" /\ ProofHeld(disk) = FALSE
  BY DEF Init, Stage, ProofHeld
<1>2. Remains = {"worktree", "branch", "main"}
  BY RemainsDef DEF Init
<1>3. ~merging.ours /\ pr.state = "none" /\ issue = "OPEN" /\ branch = 0
  BY DEF Init
<1> QED
  BY <1>1, <1>2, <1>3 DEF Promise!Init

\* EnsureMerge asks for the merge of a proved candidate.
LEMMA AskKeeps == ASSUME IInv, PromiseInv, EnsureMerge PROVE Keeps
<1>1. RecordKept /\ WorkspaceKept
  BY DEF EnsureMerge, Settle, GoTo, RequestMerge, Untouched, workspace, RecordKept, WorkspaceKept
<1>2. CASE Untouched
  BY <1>1, <1>2, StutterKeeps DEF Untouched, hub, HubKept, Asked, Landed
<1>3. CASE RequestMerge /\ ExactPullRequest(Commit)
  <2>1. draft.cand = disk.cand /\ disk.nl # NoDelivery /\ ~Merged(disk) /\ disk.state \notin {"completed", "superseded"}
    BY DEF EnsureMerge, IInv, DraftFollows, PromiseInv, Proving, Publications
  <2>2. disk.nl.mergeIntent # NoIntent /\ MergeGate(disk) /\ disk.cand \in Commits
    BY <2>1, Constants DEF EnsureMerge, IInv, DraftFollows, Proving, Decodable, IntentCoherent, Typed, Records
  <2>3. ProofHeld(disk)
    BY <2>1, <2>2, GreenGate DEF MergeGate, ProofHeld
  <2>4. Stage(disk) = "delivering"
    BY <2>1, StageDef
  <2>5. Landed = 0 /\ Landed' = Landed /\ Asked' = disk.cand /\ issue' = issue /\ branch' = branch
    BY <1>3, <2>1 DEF Landed, Asked, RequestMerge, ExactPullRequest, Commit
  <2>6. Promise!Ask
    BY <1>1, <2>3, <2>4, <2>5
       DEF Promise!Ask, RecordKept, WorkspaceKept, Asked, Landed, Stage, ProofHeld, Remains
  <2> QED
    BY <2>6 DEF Keeps, Promise!Next
<1> QED
  BY <1>2, <1>3 DEF EnsureMerge

\* The branch moves forward to the candidate of a delivery.
LEMMA PushKeeps == ASSUME IInv, PromiseInv, Push PROVE Keeps
<1>1. RecordKept /\ WorkspaceKept
  BY DEF Push, Settle, GoTo, Pushed, Untouched, workspace, RecordKept, WorkspaceKept
<1>2. CASE Untouched
  BY <1>1, <1>2, StutterKeeps DEF Untouched, hub, HubKept, Asked, Landed
<1>3. CASE Pushable /\ Pushed
  <2>1. draft = disk /\ disk.nl # NoDelivery /\ ~Merged(disk) /\ disk.state \notin {"completed", "superseded"}
    BY DEF Push, IInv, DraftFollows, PromiseInv, Proving, Publications
  <2>2. Stage(disk) = "delivering"
    BY <2>1, StageDef
  <2>3. Asked' \in {Asked, 0} /\ issue' = issue
    BY <1>3 DEF Asked, Pushed
  <2>4. Landed' = Landed
    BY <1>3 DEF Landed, Pushed, IInv, Typed, Request
  <2>5. branch \in 0..disk.cand /\ branch' = disk.cand
    BY <1>3, <2>1 DEF Pushable, Pushed, Commit
  <2>6. Promise!Push
    BY <1>1, <2>2, <2>3, <2>4, <2>5
       DEF Promise!Push, RecordKept, WorkspaceKept, Asked, Landed, Stage, ProofHeld, Remains
  <2> QED
    BY <2>6 DEF Keeps, Promise!Next
<1> QED
  BY <1>2, <1>3 DEF Push

\* The steps after an adopted merge.
LEMMA AfterMerge ==
    ASSUME IInv, PromiseInv, pc \in {"delete-branch"} \cup Cleaning
    PROVE  draft = disk /\ Stage(disk) = "merged" /\ issue = "CLOSED"
<1>1. draft = disk /\ disk.state \notin {"completed", "superseded"} /\ issue = "CLOSED" /\ Merged(disk)
  BY DEF IInv, DraftFollows, MergeStands, PromiseInv, Proving, Cleaning, Finishing
<1> QED
  BY <1>1, StageDef

\* The remote branch is deleted when it is still at the candidate.
LEMMA DeleteKeeps == ASSUME IInv, PromiseInv, DeleteRemoteBranch PROVE Keeps
<1>1. RecordKept /\ WorkspaceKept /\ Asked' = Asked /\ Landed' = Landed /\ issue' = issue
  BY DEF DeleteRemoteBranch, Settle, GoTo, workspace, RecordKept, WorkspaceKept, Asked, Landed
<1>2. CASE branch' = branch
  BY <1>1, <1>2, StutterKeeps DEF HubKept
<1>3. CASE branch = Commit /\ branch' = 0
  <2>1. draft = disk /\ Stage(disk) = "merged" /\ issue = "CLOSED"
    BY AfterMerge DEF DeleteRemoteBranch
  <2>2. Promise!DeleteRemote
    BY <1>1, <1>3, <2>1
       DEF Promise!DeleteRemote, Promise!Cleans, RecordKept, WorkspaceKept, Asked, Landed, Stage, ProofHeld,
           Remains, Commit
  <2> QED
    BY <2>2 DEF Keeps, Promise!Next
<1> QED
  BY <1>2, <1>3 DEF DeleteRemoteBranch

\* The workspace is cleaned up in order.
LEMMA ClearKeeps ==
    ASSUME IInv, PromiseInv, RemoveWorktree \/ DeleteLocalBranch \/ FastForward
    PROVE  Keeps
<1>1. RecordKept /\ HubKept
  BY DEF RemoveWorktree, DeleteLocalBranch, FastForward, CleanUp, Settle, GoTo, hub, RecordKept, HubKept,
         Asked, Landed
<1>2. pc \in Cleaning
  BY DEF RemoveWorktree, DeleteLocalBranch, FastForward, CleanUp, Cleaning
<1>3. Stage(disk) = "merged" /\ issue = "CLOSED" /\ branch = 0
  BY <1>2, AfterMerge DEF IInv, MergeStands
<1>4. Promise!Cleans /\ branch = 0
  BY <1>3 DEF Promise!Cleans
<1>5. CASE UNCHANGED workspace
  BY <1>1, <1>5, StutterKeeps DEF workspace, WorkspaceKept
<1>6. ASSUME NEW thing \in {"worktree", "branch", "main"}, NEW before,
             Remains \cap before = {}, Remains' = Remains \ {thing},
             Promise!Clears(thing, before) => Promise!Clear
      PROVE  Keeps
  <2>1. Promise!Clears(thing, before)
    BY <1>1, <1>4, <1>6 DEF Promise!Clears, RecordKept, HubKept, Asked, Landed, Stage, ProofHeld
  <2> QED
    BY <1>6, <2>1 DEF Keeps, Promise!Next
<1>7. CASE UNCHANGED <<localBranch, localMain>> /\ worktree' = FALSE
  <2>1. Remains' = Remains \ {"worktree"}
    BY <1>7, RemainsDef DEF Remains
  <2> QED
    BY <1>6, <2>1 DEF Promise!Clear
<1>8. CASE UNCHANGED <<worktree, localMain>> /\ localBranch' = FALSE /\ ~worktree
  <2>1. Remains' = Remains \ {"branch"} /\ Remains \cap {"worktree"} = {}
    BY <1>8, RemainsDef DEF Remains
  <2> QED
    BY <1>6, <2>1 DEF Promise!Clear
<1>9. CASE UNCHANGED <<worktree, localBranch>> /\ localMain' # 1 /\ ~worktree /\ ~localBranch
  <2>1. Remains' = Remains \ {"main"} /\ Remains \cap {"worktree", "branch"} = {}
    BY <1>9, RemainsDef DEF Remains
  <2> QED
    BY <1>6, <2>1 DEF Promise!Clear
<1>10. CASE RemoveWorktree
  BY <1>5, <1>7, <1>10 DEF RemoveWorktree, CleanUp
<1>11. CASE DeleteLocalBranch
  <2>1. ~worktree
    BY <1>11 DEF DeleteLocalBranch, CleanUp, IInv, MergeStands
  <2> QED
    BY <1>5, <1>8, <1>11, <2>1 DEF DeleteLocalBranch, CleanUp
<1>12. CASE FastForward
  <2>1. ~localBranch /\ ~worktree
    BY <1>12 DEF FastForward, CleanUp, IInv, MergeStands, CleanedInOrder
  <2>2. view.origin > pr.base /\ pr.base >= 1
    BY <1>2, <1>12, Constants
       DEF FastForward, CleanUp, IInv, MergeStands, Merged, HubOrdered, Finishing
  <2>3. view.origin # 1
    <3>1. pr.base \in Nat /\ view.origin \in Nat
      BY <1>2, Constants DEF IInv, Typed, Request, Views, Cleaning
    <3> QED
      BY <2>2, <3>1
  <2> QED
    BY <1>5, <1>9, <1>12, <2>1, <2>3 DEF FastForward, CleanUp
<1> QED
  BY <1>10, <1>11, <1>12

\* Whether a proof is held depends on the candidate, its checks and their base.
LEMMA ProofDef ==
    ASSUME NEW r, NEW s, r.cand = s.cand, r.nl # NoDelivery, s.nl # NoDelivery,
           r.nl.checks = s.nl.checks, r.nl.pr = s.nl.pr
    PROVE  ProofHeld(r) = ProofHeld(s)
  BY DEF ProofHeld

\* The record is written.
LEMMA SaveKeeps == ASSUME IInv, PromiseInv, Save PROVE Keeps
<1>1. disk' = draft /\ pc = "save" /\ HubKept /\ WorkspaceKept
  BY DEF Save, Untouched, hub, workspace, HubKept, WorkspaceKept, Asked, Landed
<1>2. disk.state \notin {"completed", "superseded"} /\ Replaces(draft, disk)
  BY <1>1 DEF IInv, DraftFollows, PromiseInv
<1>3. /\ Asked' = Asked /\ Landed' = Landed /\ issue' = issue /\ branch' = branch
      /\ Remains' = Remains
  BY <1>1 DEF HubKept, WorkspaceKept, Remains
<1>4. disk.cand \in Candidates /\ draft.cand \in Candidates
  BY DEF IInv, Typed, Records
<1>5. ASSUME draft.cand = disk.cand, Stage(draft) = Stage(disk), ProofHeld(draft) = ProofHeld(disk)
      PROVE  Keeps
  BY <1>1, <1>3, <1>5 DEF Keeps, Promise!vars, Asked, Landed, Stage, ProofHeld
<1>6. CASE draft.cand # disk.cand
  <2>1. draft.cand > disk.cand /\ draft.nl = NoDelivery /\ ~Merged(disk) /\ ~ProofHeld(draft)
    BY <1>2, <1>6 DEF Replaces, ProofHeld
  <2>2. draft.state \notin {"completed", "superseded"}
    BY <1>1, <1>6, <2>1 DEF PromiseInv, IInv, CleanedInOrder, Merged
  <2>3. Stage(draft) = "preparing" /\ Stage(disk) \in {"preparing", "delivering"}
    BY <1>2, <2>1, <2>2, StageDef
  <2>4. Promise!Prepare
    BY <1>1, <1>3, <1>4, <2>1, <2>3 DEF Promise!Prepare, Asked, Landed, Stage, ProofHeld
  <2> QED
    BY <2>4 DEF Keeps, Promise!Next
<1>7. CASE draft.cand = disk.cand /\ draft.state = "superseded"
  <2>1. draft.nl = disk.nl /\ issue = "CLOSED"
    BY <1>1, <1>7 DEF PromiseInv
  <2>2. ~Merged(disk)
    BY <1>7, <2>1 DEF IInv, RecordsSound, Sound, Merged
  <2>3. /\ Stage(draft) = "superseded" /\ Stage(disk) \in {"preparing", "delivering"}
        /\ ProofHeld(draft) = ProofHeld(disk)
    BY <1>2, <1>7, <2>1, <2>2, StageDef DEF ProofHeld
  <2>4. Promise!Supersede
    BY <1>1, <1>3, <1>7, <2>1, <2>3 DEF Promise!Supersede, Asked, Landed, Stage, ProofHeld
  <2> QED
    BY <2>4 DEF Keeps, Promise!Next
<1>8. CASE draft.cand = disk.cand /\ draft.state = "completed"
  <2>1. ~localBranch /\ ~worktree /\ localMain > pr.base /\ Merged(disk) /\ Merged(draft)
    BY <1>8 DEF IInv, CleanedInOrder
  <2>2. pr.base >= 1 /\ pr.base \in Nat /\ localMain \in Nat
    BY <2>1, Constants DEF IInv, MergeStands, HubOrdered, Typed, Request
  <2>3. Remains = {}
    BY <2>1, <2>2, RemainsDef
  <2>4. Stage(draft) = "completed" /\ Stage(disk) = "merged"
    BY <1>2, <1>8, <2>1, StageDef
  <2>5. ProofHeld(draft) = ProofHeld(disk)
    BY <1>2, <1>8, <2>1, ProofDef DEF Replaces, Merged
  <2>6. Promise!Complete
    BY <1>1, <1>3, <1>8, <2>3, <2>4, <2>5 DEF Promise!Complete, Asked, Landed, Stage, ProofHeld
  <2> QED
    BY <2>6 DEF Keeps, Promise!Next
<1>9. CASE draft.cand = disk.cand /\ draft.state \notin {"completed", "superseded"}
  <2>1. CASE draft.nl = NoDelivery
    <3>1. disk.nl = NoDelivery
      BY <1>2, <1>9, <1>4, <2>1, Constants DEF Replaces
    <3>2. Stage(draft) = Stage(disk) /\ ProofHeld(draft) = ProofHeld(disk)
      BY <1>2, <1>9, <2>1, <3>1 DEF Stage, ProofHeld
    <3> QED
      BY <1>5, <1>9, <3>2
  <2>2. CASE draft.nl # NoDelivery /\ disk.nl = NoDelivery
    <3>1. draft.nl = Authorized
      BY <1>1, <2>2 DEF PromiseInv
    <3>2. ~Merged(draft) /\ ~ProofHeld(draft) /\ ~ProofHeld(disk)
      <4>1. ~Authorized.merge /\ Authorized.checks = Nothing /\ DOMAIN Nothing = {}
        BY EmptyFamily DEF Authorized
      <4> QED
        BY <2>2, <3>1, <4>1, Constants DEF Merged, ProofHeld, Green, Proved
    <3>3. Stage(draft) = "delivering" /\ Stage(disk) = "preparing"
      BY <1>2, <1>9, <2>2, <3>2, StageDef
    <3>4. Promise!Deliver
      BY <1>1, <1>3, <1>9, <3>2, <3>3 DEF Promise!Deliver, Asked, Landed, Stage, ProofHeld
    <3> QED
      BY <3>4 DEF Keeps, Promise!Next
  <2>3. CASE draft.nl # NoDelivery /\ disk.nl # NoDelivery
    <3>1. CASE Merged(disk)
      <4>1. Merged(draft) /\ ProofHeld(draft) = ProofHeld(disk)
        BY <1>2, <1>4, <1>9, <2>3, <3>1, Constants, ProofDef DEF Replaces, Merged
      <4>2. Stage(draft) = Stage(disk)
        BY <1>2, <1>9, <3>1, <4>1, StageDef
      <4> QED
        BY <1>5, <1>9, <4>1, <4>2
    <3>2. CASE ~Merged(disk) /\ Merged(draft)
      <4>1. ProofHeld(draft) = ProofHeld(disk)
        BY <1>1, <1>9, <2>3, <3>2, ProofDef DEF PromiseInv
      <4>2. ProofHeld(draft)
        <5>1. MergeGate(draft) /\ draft.cand \in Commits
          BY <1>4, <3>2, Constants DEF IInv, RecordsSound, Sound, Merged
        <5> QED
          BY <2>3, <5>1, GreenGate DEF ProofHeld, MergeGate
      <4>3. Landed = disk.cand
        BY <1>9, <3>2 DEF IInv, MergeStands, Landed
      <4>4. Stage(draft) = "merged" /\ Stage(disk) = "delivering"
        BY <1>2, <1>9, <2>3, <3>2, StageDef
      <4>5. Promise!Adopt
        BY <1>1, <1>3, <1>9, <4>1, <4>2, <4>3, <4>4 DEF Promise!Adopt, Asked, Landed, Stage, ProofHeld
      <4> QED
        BY <4>5 DEF Keeps, Promise!Next
    <3>3. CASE ~Merged(disk) /\ ~Merged(draft)
      <4>1. Stage(draft) = "delivering" /\ Stage(disk) = "delivering"
        BY <1>2, <1>9, <2>3, <3>3, StageDef
      <4>2. ProofHeld(draft) \in BOOLEAN
        BY DEF ProofHeld
      <4>3. Promise!Observe
        BY <1>1, <1>3, <1>9, <4>1, <4>2 DEF Promise!Observe, Asked, Landed, Stage, ProofHeld
      <4> QED
        BY <4>3 DEF Keeps, Promise!Next
    <3>4. Merged(disk) => Merged(draft)
      BY <1>2, <1>4, <1>9, Constants DEF Replaces, Merged
    <3> QED
      BY <3>1, <3>2, <3>3, <3>4
  <2> QED
    BY <2>1, <2>2, <2>3
<1> QED
  BY <1>6, <1>7, <1>8, <1>9

\* An accepted merge lands, the issue is closed, somebody pushes.
LEMMA OthersKeep ==
    ASSUME IInv, PromiseInv, Land \/ CloseIssue \/ OperatorPushes
    PROVE  Keeps
<1>1. RecordKept /\ WorkspaceKept
  BY DEF Land, CloseIssue, OperatorPushes, Outside, Edits, workspace, RecordKept, WorkspaceKept
<1>2. CASE Land
  <2>1. Landed = 0 /\ Landed' = pr.head /\ pr.head # 0 /\ pr.head \in Candidates \cup {Stranger}
    BY <1>2, Constants DEF Land, Landed, IInv, Typed, Request, Tips, Candidates
  <2>2. Asked' = Asked /\ issue' = issue /\ branch' = branch
    BY <1>2 DEF Land, Asked
  <2>3. Promise!Land
    BY <1>1, <2>1, <2>2 DEF Promise!Land, RecordKept, WorkspaceKept, Asked, Landed, Stage, ProofHeld, Remains
  <2> QED
    BY <2>3 DEF Keeps, Promise!Next
<1>3. CASE CloseIssue
  <2>1. Landed # 0 /\ Landed' = Landed /\ Asked' = Asked /\ issue' = "CLOSED" /\ branch' = branch
    BY <1>3 DEF CloseIssue, Landed, Asked, PromiseInv
  <2>2. Promise!Close
    BY <1>1, <2>1 DEF Promise!Close, RecordKept, WorkspaceKept, Asked, Landed, Stage, ProofHeld, Remains
  <2> QED
    BY <2>2 DEF Keeps, Promise!Next
<1>4. CASE OperatorPushes
  <2>1. Landed' = Landed
    BY <1>4 DEF OperatorPushes, Landed, IInv, Typed, Request
  <2>2. Asked' = 0 /\ issue' = issue /\ branch' = Stranger
    BY <1>4 DEF OperatorPushes, Asked
  <2>3. Landed = 0 \/ branch # 0
    BY <1>4 DEF OperatorPushes, Landed
  <2>4. Promise!Intrude
    BY <1>1, <2>1, <2>2, <2>3 DEF Promise!Intrude, RecordKept, WorkspaceKept, Asked, Landed, Stage, ProofHeld,
       Remains
  <2> QED
    BY <2>4 DEF Keeps, Promise!Next
<1> QED
  BY <1>2, <1>3, <1>4

\* The other steps of GitHub, the developer and operators show nothing.
LEMMA RestKeeps ==
    ASSUME IInv, PromiseInv, GitHub \/ Disturbs
    PROVE  Keeps
<1>1. CASE RecordKept /\ WorkspaceKept /\ HubKept
  BY <1>1, StutterKeeps
<1>2. CASE Land \/ CloseIssue \/ OperatorPushes
  BY <1>2, OthersKeep
<1>3. CASE Crash
  BY <1>1, <1>3 DEF Crash, Return, Untouched, hub, workspace, RecordKept, WorkspaceKept, HubKept, Asked, Landed
<1>4. ASSUME NEW id \in Required,
             CheckStarts(id) \/ CheckPasses(id) \/ CheckFails(id) \/ OperatorReruns(id) \/ GovernanceStarts
      PROVE  Keeps
  <2>1. /\ disk' = disk /\ branch' = branch /\ pr' = pr /\ merging' = merging /\ issue' = issue
        /\ workspace' = workspace
    BY <1>4 DEF CheckStarts, CheckPasses, CheckFails, OperatorReruns, GovernanceStarts, Outside, Edits
  <2> QED
    BY <1>1, <2>1 DEF workspace, RecordKept, WorkspaceKept, HubKept, Asked, Landed
<1>5. CASE RequestAppears \/ BaseMoves \/ OperatorOpensRequest
  <2>1. /\ RecordKept /\ WorkspaceKept
        /\ branch' = branch /\ merging' = merging /\ issue' = issue
    BY <1>5 DEF RequestAppears, BaseMoves, OperatorOpensRequest, Outside, Edits, workspace, RecordKept,
       WorkspaceKept
  <2>2. Landed' = Landed
    BY <1>5 DEF RequestAppears, BaseMoves, OperatorOpensRequest, Landed, IInv, Typed, Request
  <2> QED
    BY <1>1, <2>1, <2>2 DEF HubKept, Asked
<1>6. CASE OperatorMerges
  <2>1. RecordKept /\ WorkspaceKept /\ Landed' = Landed /\ branch' = branch /\ issue' = issue
    BY <1>6 DEF OperatorMerges, Edits, workspace, RecordKept, WorkspaceKept, Landed
  <2>2. Asked' = Asked
    BY <1>6 DEF OperatorMerges, Asked
  <2> QED
    BY <1>1, <2>1, <2>2 DEF HubKept
<1>7. CASE Develop \/ MoveMain \/ OperatorWorks
  BY <1>1, <1>7 DEF Develop, MoveMain, OperatorWorks, Outside, Edits, hub, workspace, RecordKept,
     WorkspaceKept, HubKept, Asked, Landed
<1> QED
  BY <1>2, <1>3, <1>4, <1>5, <1>6, <1>7, Constants DEF GitHub, Disturbs

\* A request that is created, labelled or re-run is no merge, and no other step of an
\* invocation shows.
LEMMA InvokesKeep == ASSUME IInv, PromiseInv, Invokes PROVE Keeps
<1>1. ASSUME ~Save PROVE RecordKept
  BY <1>1, SaveWrites DEF RecordKept, Next
<1>2. CASE Save
  BY <1>2, SaveKeeps
<1>3. CASE Untouched /\ ~Save
  BY <1>1, <1>3, StutterKeeps DEF Untouched, hub, workspace, WorkspaceKept, HubKept, Asked, Landed
<1>4. CASE Push \/ EnsureMerge \/ DeleteRemoteBranch \/ RemoveWorktree \/ DeleteLocalBranch \/ FastForward
  BY <1>4, PushKeeps, AskKeeps, DeleteKeeps, ClearKeeps
<1>5. CASE (CreatePullRequest \/ LabelPullRequest) /\ ~Save
  <2>1. Untouched \/ Created \/ Labelled
    BY <1>5 DEF CreatePullRequest, LabelPullRequest
  <2>2. CASE Created \/ Labelled
    <3>1. WorkspaceKept /\ branch' = branch /\ merging' = merging /\ issue' = issue
      BY <2>2 DEF Created, Labelled, workspace, WorkspaceKept
    <3>2. Landed' = Landed
      BY <2>2 DEF Created, Labelled, Landed, IInv, Typed, Request
    <3> QED
      BY <1>1, <1>5, <3>1, <3>2, StutterKeeps DEF HubKept, Asked
  <2> QED
    BY <1>3, <1>5, <2>1, <2>2
<1>6. CASE RetryInfrastructure /\ ~Save
  <2>1. ASSUME NEW id, NEW run, Reran(id, run)
        PROVE  /\ branch' = branch /\ pr' = pr /\ merging' = merging /\ issue' = issue
               /\ workspace' = workspace
    BY <2>1 DEF Reran
  <2>2. Untouched \/ \E id, run : Reran(id, run)
    BY <1>6 DEF RetryInfrastructure
  <2> QED
    BY <1>1, <1>3, <1>6, <2>1, <2>2, StutterKeeps DEF workspace, WorkspaceKept, HubKept, Asked, Landed
<1> QED
  BY <1>2, <1>3, <1>4, <1>5, <1>6, InvokesTouch

\* What the promise takes holds beside the inductive invariant.
LEMMA PromiseInvariant == Spec => [](IInv /\ PromiseInv)
<1>1. Init => PromiseInv
  BY DEF Init, PromiseInv
<1>2. IInv /\ PromiseInv /\ [Next]_vars => PromiseInv'
  BY PromiseStep
<1> QED
  BY <1>1, <1>2, Invariance, PTL DEF Spec

\* The delivery implements its promise: with what invocations see, lose and leave
\* unfinished hidden, every step is one that the promise allows, or shows nothing.
THEOREM DeliveryImplemented == Spec => DeliveryRefined
<1>1. Init => Promise!Init
  BY PromiseInit
<1>2. IInv /\ PromiseInv /\ [Next]_vars => [Promise!Next]_(Promise!vars)
  <2> SUFFICES ASSUME IInv, PromiseInv, [Next]_vars PROVE Keeps
    BY DEF Keeps
  <2>1. CASE UNCHANGED vars
    BY <2>1, StutterKeeps
       DEF vars, hub, workspace, RecordKept, WorkspaceKept, HubKept, Asked, Landed
  <2> QED
    BY <2>1, InvokesKeep, RestKeeps DEF Next
<1> QED
  BY <1>1, <1>2, PromiseInvariant, PTL DEF Spec, DeliveryRefined, Promise!Spec
===============================================================================
