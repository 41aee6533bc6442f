SPECIFICATION Spec
CONSTANTS
    Pods = {p1, p2}
    Contents = {c1, c2}
    Modes = {"docker", "legacy", "retained"}
    MaxFaults = 1
    None = None
    Undeclared = Undeclared
INVARIANTS
    ArtifactsAreDurable
    ObjectsReleased
    SuccessExitedCleanly
    ValidationLeavesNothing
SYMMETRY RunSymmetry
CHECK_DEADLOCK FALSE
