SPECIFICATION Spec
CONSTANTS
    NFiles <- MCNFiles
    NSeg = 1
    Clients = {alice, bob}
    Knows = {alice}
    Pass = TRUE
    NConn = 3
INVARIANTS
    TypeOK
    PageAgrees
    
PROPERTY
    ServerStops
