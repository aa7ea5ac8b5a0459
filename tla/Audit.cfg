\* Two sessions of four receipts, a root computed over the wrong root, two
\* damages to the copy; epochs of no and of one second, issued and asked
\* over three seconds, two harms to the copy.
SPECIFICATION AuditSpec
CONSTANTS
    Operator = "operator"
    Witness = "witness"
    Sessions = {s1, s2}
    Flow <- FailedValidation
    MaxSlips = 1
    MaxDamages = 2
    NoSubject = NoSubject
    NoSession = NoSession
    Validities = {0, 1}
    Entries = {"observe", "witness", "another witness"}
    ActionId = "observe"
    MaxClock = 2
    MaxHarm = 2
    NoDocument = NoDocument
SYMMETRY Symmetry
INVARIANTS
    TypeOK
    AcceptedIsGenuine
    GenuineIsAccepted
    VerifierSeesWholeSession
    EpochAnswersRight
    VerdictsAgree
CHECK_DEADLOCK FALSE
