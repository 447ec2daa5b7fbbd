SPECIFICATION Spec
CONSTANTS
    newConfig = newConfig
    otherConfig = otherConfig
    Initial = Initial
    Foreign = Foreign
    NoContent = NoContent
    call1 = call1
    Content = {Initial, Foreign, newConfig, otherConfig}
    Calls = {call1}
    Wanted <- MCWanted
    Edits = {}
    MaxEdits = 0
    MaxTime = 4
    MaxUuid = 14
    MaxDrops = 1
    MaxRejects = 1
    MaxReports = 1
    MaxTries = 0
INVARIANTS
    UuidNamesOneConfiguration
CHECK_DEADLOCK FALSE
