\* Some 4200 snapshots about the boundaries of every check.
SPECIFICATION Spec
CONSTANTS
    Documents <- MCDocuments
    ToleranceInv = 8
    RelativeInv = 1000
    Slot = 2
INVARIANTS
    ZScoreIsReproduced
    TailIsCurrent
    ArchiveIsCovered
    HonestSnapshotPasses
    MissingNeverRaises
CHECK_DEADLOCK FALSE
