\* One call on a fresh directory; every ending; an epoch rotation.
SPECIFICATION FairSpec
CONSTANTS
    Assemblers = {a1}
    Snapshots = {b1}
    Endings = {"success", "validation_failed", "validator_exception", "source_unavailable"}
    ActionEpochs <- Always
    WitnessEpochs <- Rotation
    Admissions <- RotationBound
    MaxTime = 2
    NoInput = NoInput
    NoBytes = NoBytes
    NoSubject = NoSubject
INVARIANTS
    TypeOK
    AnswerFitsCycle
    FinishedBundleVerifies
PROPERTIES
    VerificationEnds
CHECK_DEADLOCK FALSE
