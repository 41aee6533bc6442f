SPECIFICATION MCSpec
CONSTANTS
    Callers = {c1, c2}
    Hosts = {c1, c2}
    Deployments <- Subjects
    HubModels <- Users
    AllowedGroups = {"staff"}
    Ttl = 1
    HubTimeout = 1
    MaxTime = 2
    MaxChanges = 1
    None = None
    Sources = {s1, s2}
    Backends = {"docker", "kubernetes"}
    Kinds = {"short", "medium", "long"}
    MaxRows = 2
    MaxFailures = 1
    Nothing = Nothing
INVARIANTS
    RoleIsRecent
    WithinLimit
    
    RuntimesMatchRows
SYMMETRY Symmetry
CHECK_DEADLOCK FALSE
