CONSTANTS
    Schedules = {s1}
    Schedulers = {w1, w2}
    Periods = {1, 2}
    Limits = {1, 2}
    Policies <- TwoPolicies
    MaxTime = 2
    MaxClashes = 1
    MaxPatches = 1
    MaxReloads = 1
    None = None
SPECIFICATION Spec
CHECK_DEADLOCK FALSE
INVARIANTS MadeWithinCeiling OncePerOccurrence
PROPERTY DueIsServed
