SPECIFICATION Spec
CONSTANTS
    conf = conf
    upgr = upgr
    script = script
    cfgup = cfgup
    recover = recover
    other = other
    d1 = d1
    d2 = d2
    Cmd = {conf, cfgup, recover, upgr}
    NoCmd = NoCmd
    Serial = {d1}
    SerialNumber <- MCSerialNumber
    Command <- MCCommand
    Origin <- MCOrigin
    Deferred = {}
    Scheduled = {upgr}
    Stored = {upgr}
    Answers = {"ok"}
    Page = 5
    MaxId = 5
    MaxQueue = 1
CONSTRAINT Scene
INVARIANTS
    SentInTurn
    AcceptedIsRecorded
    NothingOwed
