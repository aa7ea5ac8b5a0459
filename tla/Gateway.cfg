\* Two cycles, side by side or in sequence, over nine kinds of snapshot.
CONSTANTS
    Callers = {c1, c2}
    Bodies <- MCSnapshots
    NoBody = NoBody
    Failures = {"status"}
    Dates = {"d1"}
    NoSubject = NoSubject
SPECIFICATION FairSpec
INVARIANTS
    TypeOK
    OutcomeIsEarned
    WaitIsBounded
    ChainsAreLinked
    FlowsAreDocumented
    WitnessedAsBound
    OneVerdictPerTimestamp
    OutputAgreesWithChain
    RequestTellsAttempts
PROPERTY EveryCycleEnds
CHECK_DEADLOCK FALSE
