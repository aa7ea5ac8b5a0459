\* Two processes meet on a fresh key; nothing crashes.
CONSTANTS
    Procs = {p1, p2}
    Keys = {k1}
    Malformed = {}
    Digests = {d1, d2}
    NoDigest = NoDigest
    NoProc = NoProc
    MaxRequests = 2
    MaxCrashes = 0
SPECIFICATION Spec
INVARIANT DifferentDigestLeavesEvidence
CHECK_DEADLOCK FALSE
