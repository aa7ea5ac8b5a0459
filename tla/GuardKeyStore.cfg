\* Three processes meet on two keys and one with a '|', which is refused at the
\* door; one crash.
CONSTANTS
    Procs = {p1, p2, p3}
    Keys = {k1, k2, bad}
    Malformed = {bad}
    Digests = {d1, d2}
    NoDigest = NoDigest
    NoProc = NoProc
    MaxRequests = 3
    MaxCrashes = 1
SPECIFICATION FairSpec
INVARIANTS
    TypeOK
    RecordBeforeSign
    NoEquivocation
    SignCountCovers
    ConflictsFaithful
    RefusalLeavesEvidence
PROPERTIES
    TablesOnlyGrow
    KeepsPromise
    EveryCallEnds
    LockIsReleased
CHECK_DEADLOCK FALSE
