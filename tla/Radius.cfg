SPECIFICATION FairSpec
CONSTANTS
    Type = {1, 2}
    Value <- MCValue
    Packet <- MCPacket
    ByteSize = 8
    Word = 64
    MaxAttributes = 3
    MaxBytes = 12
    Device = {d1}
    Session = {s1, s2}
    Radsec = TRUE
    MaxConnections = 2
    MaxQueue = 2
    NoEntry = NoEntry
    NoMessage = NoMessage
    a1 = a1
    a2 = a2
    Ip = {a1, a2}
    Config <- MCConfig
    EnabledByProperty = FALSE
    NoFile = NoFile
    TornFile = TornFile
    NoDestination = NoDestination
INVARIANTS
    
    OpenIsTracked
    PoolsAreServed
PROPERTIES
    
    LeavesNothing
    DestinationsRecover
CHECK_DEADLOCK FALSE
