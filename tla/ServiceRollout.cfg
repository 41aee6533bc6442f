SPECIFICATION FairSpec
CONSTANTS
    NumVersions = 2
    NumStarts = 3
    Requests <- RollbackOrRestart
    Clients = {c1, c2}
    MaxOperations = 1
    MaxFailures = 1
INVARIANTS RetireSparesClients DrainAwaitsClients AlwaysRoutable
PROPERTY DrainEnds
CHECK_DEADLOCK FALSE
