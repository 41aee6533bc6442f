CONSTANTS
    Schedulers = {s1, s2}
    NumJobs = 3
    Kinds = {"k", "l"}
    KindOf <- TwoKinds3
    Priority <- Rising3
    MaxRetries <- NoRetry3
    ClaimLimit = 2
    MaxRunning <- CapFirstKind
    MaxProjectRunning <- ProjectCapTwo
    Unbounded = Unbounded
    NoOwner = NoOwner
    MaxCancels = 0
    MaxStalls = 1
    MaxCrashes = 0
    MaxFaults = 0
    MaxCleanups = 0

SPECIFICATION Spec
CHECK_DEADLOCK FALSE
INVARIANT CapsRespected
