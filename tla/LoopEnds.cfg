CONSTANTS
    Schedulers = {s1, s2}
    NumJobs = 1
    Kinds = {"k"}
    KindOf <- KindOf1
    Priority <- Flat1
    MaxRetries <- Retry1
    ClaimLimit = 2
    MaxRunning <- NoCap
    MaxProjectRunning <- NoCap
    Unbounded = Unbounded
    NoOwner = NoOwner
    MaxCancels = 0
    MaxStalls = 0
    MaxCrashes = 0
    MaxFaults = 1
    MaxCleanups = 0

SPECIFICATION Spec
CHECK_DEADLOCK FALSE
INVARIANT LoopSurvives
