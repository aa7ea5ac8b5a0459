\* Snapshots whose failure does not complete its chain.
CONSTANTS
    Callers = {c1, c2}
    Bodies <- Failing
    NoBody = NoBody
    Failures = {"status"}
    Dates = {"d1"}
    NoSubject = NoSubject
SPECIFICATION Spec
INVARIANT EveryFailureCompletes
CHECK_DEADLOCK FALSE
