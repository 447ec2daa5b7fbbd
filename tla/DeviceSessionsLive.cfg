SPECIFICATION FairSpec
CONSTANTS
    Conn = {c1, c2}
    Serial = {s1, s2}
    NoSerial = NoSerial
    NoConn = NoConn
    GCBacklog = 0
PROPERTIES
    DeadIsDestroyed
CHECK_DEADLOCK FALSE
