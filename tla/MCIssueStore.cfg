\* Two Advance processes and an observer under fair scheduling, a crash and a failing write.
CONSTANTS
    Advancers = {p1, p2}
    Observers = {o1}
    Authorities = {a1, a2}
    Undecided = {a2}
    Bases = {b1, b2}
    FirstAuthority = a1
    FirstBase = b1
    NoOne = NoOne
    NoBase = NoBase
    NoData = NoData
    NoRun = NoRun
    NoFile = NoFile
    NoOperation = NoOperation
    MaxOperations = 3
    MaxTrail = 2
    MaxEdits = 1
    MaxCrashes = 1
    MaxFaults = 1
SPECIFICATION FairSpec
INVARIANTS TypeOK ActiveReadable ObserverSnapshot SidecarResolved
PROPERTIES SidecarMonotone RegisterRefined
    InvocationEnds
CHECK_DEADLOCK FALSE
