SPECIFICATION FairSpec
CONSTANTS
    api = api
    command = command
    one = one
    alias = alias
    Publishers = {api, command}
    Targets = {one, alias}
    TargetOf <- AliasedTarget
    Maxlen = 6
    LegacyEvents = 2
    LegacyStamp = 1
    MaxEvents = 5
    MaxClock = 0
    MaxCleanups = 0
    MaxFaults = 2
    MaxLosses = 0
INVARIANT Resumable
PROPERTY EmitDelivers
CHECK_DEADLOCK FALSE
