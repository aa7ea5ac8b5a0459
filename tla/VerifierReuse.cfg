\* Two calls on one directory, the second with fewer files or as many.
SPECIFICATION Spec
CONSTANTS
    Assemblers = {a1, a2}
    Snapshots = {b1}
    Endings = {"success", "source_unavailable"}
    ActionEpochs <- Always
    WitnessEpochs <- Always
    Admissions <- AlwaysBound
    MaxTime = 0
    NoInput = NoInput
    NoBytes = NoBytes
    NoSubject = NoSubject
INVARIANTS
    AcceptedWasComplete
SYMMETRY Symmetry
CHECK_DEADLOCK FALSE
