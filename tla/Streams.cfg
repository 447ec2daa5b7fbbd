SPECIFICATION StreamsSpec
CONSTANTS
    Client = {u1}
    MaxKafka = 1
    MaxStops = 1
    MaxFails = 2
    MaxReconnects = 1
    MaxPackets = 1
    EndPoint = {e1, e2}
    MTLS = {e2}
    DeviceSocket = {t1, t2}
    ClientSocket = {w1, w2}
    MaxConcurrentSessions = 2
    NoSocket = NoSocket
    NoEndPoint = NoEndPoint
INVARIANTS
    TypeOK
    ClientsCounted
    ReportingIsCounted
    TerminalsMeet
PROPERTIES
    RunawayStops
CHECK_DEADLOCK FALSE
