\* A session that computes one root over the wrong root; nothing is damaged.
SPECIFICATION AuditSpec
CONSTANTS
    Operator = "operator"
    Witness = "witness"
    Sessions = {s1, s2}
    Flow <- FailedValidation
    MaxSlips = 1
    MaxDamages = 0
    NoSubject = NoSubject
    NoSession = NoSession
    Validities = {0, 1}
    Entries = {"observe", "witness", "another witness"}
    ActionId = "observe"
    MaxClock = 2
    MaxHarm = 2
    NoDocument = NoDocument
SYMMETRY Symmetry
INVARIANT EveryStateRootRecomputed
CHECK_DEADLOCK FALSE
