SPECIFICATION Spec
CONSTANTS
    conf = conf
    upgr = upgr
    script = script
    cfgup = cfgup
    recover = recover
    other = other
    d1 = d1
    d2 = d2
    Cmd = {conf}
    NoCmd = NoCmd
    Serial = {d1}
    SerialNumber <- MCSerialNumber
    Command <- MCCommand
    Origin <- MCOrigin
    Deferred = {}
    Scheduled = {}
    Stored = {}
    Answers = {"ok", "error"}
    Page = 5
    MaxId = 5
    MaxQueue = 1
INVARIANTS
    PendingIsRetried
