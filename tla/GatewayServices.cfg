SPECIFICATION ServicesSpec
CONSTANTS
    Peer = {p1, p2}
    MaxInstance = 2
    MaxWire = 2
    Topic = {t1}
    Watcher = {w1, w2}
    MaxPosts = 3
    Descriptor = {d1, d2}
    User = {n1}
    MaxClient = 3
    NoUser = NoUser
    EndPoint = {e1, e2}
    MTLS = {e2}
    DeviceSocket = {s1}
    ClientSocket = {c1, c2}
    MaxConcurrentSessions = 2
    NoSocket = NoSocket
    NoEndPoint = NoEndPoint
INVARIANTS
    BusIsOrderly
    ClientsAreKept
PROPERTIES
    
    EverythingEnds
CHECK_DEADLOCK FALSE
