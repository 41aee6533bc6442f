CONSTANTS
    Schedulers = {s1, s2, s3}
    NumJobs = 1
    Kinds = {"k"}
    KindOf <- KindOf1
    Priority <- Flat1
    MaxRetries <- Retry1
    ClaimLimit = 2
    MaxRunning <- NoCap
    MaxProjectRunning <- NoCap
    Unbounded = Unbounded
    NoOwner = NoOwner
    MaxCancels = 1
    MaxStalls = 0
    MaxCrashes = 1
    MaxFaults = 1
    MaxCleanups = 1

SPECIFICATION FairSpec
CHECK_DEADLOCK FALSE
INVARIANTS
    NoLeaseInLimbo
PROPERTIES
    RunsFinishOnce
    EveryJobEnds
