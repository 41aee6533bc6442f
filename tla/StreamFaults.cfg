SPECIFICATION Spec
CONSTANTS
    api = api
    command = command
    one = one
    alias = alias
    Publishers = {api, command}
    Targets = {one, alias}
    TargetOf <- AliasedTarget
    Maxlen = 5
    LegacyEvents = 0
    LegacyStamp = 0
    MaxEvents = 3
    MaxClock = 1
    MaxCleanups = 1
    MaxFaults = 2
    MaxLosses = 1
INVARIANTS CausalTime StreamOrdered CursorCovers
PROPERTY AppendsInOrder
CHECK_DEADLOCK FALSE
