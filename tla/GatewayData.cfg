SPECIFICATION DataSpec
CONSTANTS
    Part = {"store", "records", "catalog", "authorization", "venue", "oui",
            "dashboard", "signatures", "commands", "json"}
    Base = 2
    SerialDigits = 2
    WordDigits = 3
    StoredDevice <- Serials
    Simulated <- SimulatedSerials
    Connecting <- SimulatedSerials
    Caller = {c1}
    AutoProvisioning = TRUE
    EventTable = {"Statistics"}
    MaxContact = 1
    Hours = 2
    Minutes = 2
    Seconds = 1
    RunAtHour = 0
    RunAtMin = 1
    Keep = 1
    LogTypes = {0, 1}
    StatisticsLimit = 1
    PageSize = 1
    MaxRecords = 2
    MaxTime = 11
    Key = {k1, k2}
    Value = {v1, v2}
    Editor = {e1, e2}
    m1 = m1
    m2 = m2
    Model_ = {m1, m2}
    DefaultConfig <- Defaults
    Platform_ = {"ap", "switch", NoPlatform}
    AnyModel = AnyModel
    NoPlatform = NoPlatform
    NoValue = NoValue
    Torn = Torn
    UseProvisioning = TRUE
    UseDefaults = TRUE
    SessionToken = {t1}
    ApiKey = {a1}
    RestHandler = {h1, h2}
    VenueDevice = {d1, d2}
    VenueSite = {n1, n2}
    ValidFor = 2
    MaxQueue = 2
    MaxDownload = 4
    MaxCrash = 3
    Asker = {g1, g2}
    Found <- MCFound
    KeepFor = 1
    Hour = 1
    Day_ = 2
    Week = 3
    Month = 4
    Word64 = 8
    MaxNow = 3
    Vendor = {w1, w2, w3}
    Keyed = {w1, w2}
    Host = {o1, o2}
    Path = {f1}
    MaxVersion = 2
    u1 = u1
    u2 = u2
    p1 = p1
    p2 = p2
    CommandUuid = {u1, u2}
    Scenario <- MCScenario
    Uploader = {p1}
    RttyEnabled = TRUE
    MaxTerminals = 1
    NoRow = NoRow
    NoUuid = NoUuid
INVARIANTS
    AcceptedMeansComing
    ChecksHold
    CopiesAgree
    RecordsAreKept
    
    
PROPERTIES
    ObjectsKeep
    
CHECK_DEADLOCK FALSE
