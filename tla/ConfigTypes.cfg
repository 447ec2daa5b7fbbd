SPECIFICATION Spec
CONSTANTS
    newConfig = newConfig
    otherConfig = otherConfig
    Initial = Initial
    Foreign = Foreign
    NoContent = NoContent
    call1 = call1
    Content = {Initial, Foreign, newConfig, otherConfig}
    Calls = {call1}
    Wanted <- MCWanted
    Edits = {otherConfig}
    MaxEdits = 1
    MaxTime = 4
    MaxUuid = 5
    MaxDrops = 0
    MaxRejects = 0
    MaxReports = 1
    MaxTries = 1
INVARIANTS
    TypeOK
CHECK_DEADLOCK FALSE
