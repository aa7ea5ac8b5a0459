\* A rotation of the witness registry epoch after the session was admitted.
SPECIFICATION Spec
CONSTANTS
    Assemblers = {a1}
    Snapshots = {b1}
    Endings = {"success"}
    ActionEpochs <- Always
    WitnessEpochs <- Rotation
    Admissions <- RotationBound
    MaxTime = 1
    NoInput = NoInput
    NoBytes = NoBytes
    NoSubject = NoSubject
INVARIANT EveryBindingHolds
CHECK_DEADLOCK FALSE
