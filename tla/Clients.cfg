SPECIFICATION Spec
CONSTANTS
    NumEntries = 2
    ServiceNames = {2}
    Owned = {1}
    MaxVersions = 2
    MaxInFlight = 2
    PageSize = 2
    MaxChanges <- Changes
    MaxActs <- Acts
    MaxTrouble = 1
    Directories <- Met
    Null = Null
    Publishers = {p1, p2}
    Followers = {f1}
    Retained = 2
    MaxEmits = 4
    MaxMishaps = 2
SYMMETRY Symmetric
INVARIANTS
    ChoicesAreKept
    ReportedRunIsFinal
    FollowersMissNothing
CHECK_DEADLOCK FALSE
