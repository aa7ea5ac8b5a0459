\* Two calls on one directory.
SPECIFICATION Spec
CONSTANTS
    Assemblers = {a1, a2}
    Snapshots = {b1}
    Endings = {"success", "source_unavailable"}
    ActionEpochs <- Always
    WitnessEpochs <- Always
    Admissions <- AlwaysBound
    MaxTime = 0
    NoInput = NoInput
    NoBytes = NoBytes
    NoSubject = NoSubject
INVARIANT ManifestListsEveryFile
SYMMETRY Symmetry
CHECK_DEADLOCK FALSE
