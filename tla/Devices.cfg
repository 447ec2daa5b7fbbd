SPECIFICATION FairSpec
CONSTANTS
    newConfig = newConfig
    otherConfig = otherConfig
    Initial = Initial
    Foreign = Foreign
    NoContent = NoContent
    call1 = call1
    Content = {Initial, Foreign, newConfig, otherConfig}
    Calls = {}
    Wanted <- MCWanted
    Edits = {}
    MaxEdits = 0
    MaxTime = 5
    MaxUuid = 14
    MaxDrops = 2
    MaxRejects = 1
    MaxReports = 2
    MaxTries = 0
INVARIANTS
    UuidNamesOneConfiguration
PROPERTIES
    Converges
CHECK_DEADLOCK FALSE
