SPECIFICATION Spec
CONSTANTS
    Conn = {c1, c2}
    Serial = {s1, s2}
    NoSerial = NoSerial
    NoConn = NoConn
    GCBacklog = 1
SYMMETRY Symmetry
INVARIANTS
    TypeOK
    OnlyDoomedDestroyed
    RegistrationIsSound
    
    NoDanglingPointer

    
CHECK_DEADLOCK FALSE
