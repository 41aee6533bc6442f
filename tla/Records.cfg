CONSTANTS
    Clients = {alice, bob}
    Admins = {alice}
    Sources = {s1, s2}
    MaxEntries = 1
    MaxVersions = 2
    MaxClashes = 1
    None = None
    Fanouts = {f1}
    Items = {i1, i2}
    Limits = {1, 2}
    Asks = {Unset, 2}
    Policies <- TwoPolicies
    Quotas <- SinglesOrBatches
    MaxJobs = 3
    Unset = Unset
SPECIFICATION RecordsSpec
CHECK_DEADLOCK FALSE
INVARIANTS PublishedEntryRoutes PublishedWasVetted BundleIsApproved JobsWithinCeiling LiveChildHasBatch
PROPERTIES PublishedImmutable ExecutesValidated VerdictIsFinal
SYMMETRY RecordsSymmetry
