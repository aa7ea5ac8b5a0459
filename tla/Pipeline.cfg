\* Two cycles at one store, over five kinds of snapshot; one may die.
CONSTANTS
    Procs = {c1, c2}
    Keys <- MCKeys
    Malformed = {"unkeyable"}
    Digests <- MCDigests
    NoDigest = NoDigest
    NoProc = NoProc
    MaxRequests = 2
    MaxCrashes = 1
    Bodies <- MCSnapshots
    NoBody = NoBody
    Failures = {"status"}
    Dates = {"d1"}
SPECIFICATION FairPipelineSpec
INVARIANTS
    EquivocationIsProved
    SignCountIsExplained
PROPERTIES
    KeepsToGateway
    EveryCycleEnds
CHECK_DEADLOCK FALSE
