CONSTANTS
    Schedulers = {s1, s2}
    NumJobs = 2
    Kinds = {"k"}
    KindOf <- KindOf2
    Priority <- Rising2
    MaxRetries <- Retry2
    ClaimLimit = 2
    MaxRunning <- NoCap
    MaxProjectRunning <- NoCap
    Unbounded = Unbounded
    NoOwner = NoOwner
    MaxCancels = 1
    MaxStalls = 1
    MaxCrashes = 1
    MaxFaults = 0
    MaxCleanups = 0

SPECIFICATION Spec
CHECK_DEADLOCK FALSE
INVARIANTS
    AttemptsAreUnique
    EndsAtMostOnce
PROPERTIES
    ImplementsLifecycle
