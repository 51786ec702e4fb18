SPECIFICATION Spec
CONSTANTS
    NSeg = 3
    NExec = 2
    Repair = 70
    Given <- MCGiven
INVARIANTS
    TypeOK
    DecodesWhole
    TmpRemoved
    ResetQuiescent
    ReportsHonest
    EnoughConnections
PROPERTIES
    Terminates
