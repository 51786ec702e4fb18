SPECIFICATION Spec
CONSTANTS
    NSess = 1
    NGroups = 1
    MaxData = 1
    Cuts = {}
    LineBuf = 3
    BodyBufs = {3}
INVARIANTS
    HeadAuthenticates
