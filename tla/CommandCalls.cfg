SPECIFICATION FairSpec
CONSTANTS
    conf = conf
    upgr = upgr
    script = script
    cfgup = cfgup
    recover = recover
    other = other
    d1 = d1
    d2 = d2
    Cmd = {script}
    NoCmd = NoCmd
    Serial = {d1, d2}
    SerialNumber <- MCSerialNumber
    Command <- MCCommand
    Origin <- MCOrigin
    Deferred = {script}
    Scheduled = {}
    Stored = {}
    Answers = {"ok", "error", "nostatus", "noresult"}
    Page = 5
    MaxId = 5
    MaxQueue = 2
INVARIANTS
    TypeOK
    EntriesAreTrue
PROPERTIES
    AnswerReachesCall
    CallEnds
