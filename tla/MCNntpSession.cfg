SPECIFICATION Spec
CONSTANTS
    NSess = 3
    NGroups = 2
    MaxData = 2
    Cuts = {"mode", "body"}
    LineBuf = 3
    BodyBufs = {3, 5}
INVARIANTS
    TypeOK
    InSync
    OwnBody
PROPERTIES
    SessionsEnd
