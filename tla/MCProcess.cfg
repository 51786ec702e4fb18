SPECIFICATION Spec
CONSTANTS
    Text = {"host", "pass", "p w"}
    Alnum = {"host", "pass"}
    ArgVs <- MCArgVs
    Stats <- MCStats
    Conns = {c1, c2, c3}
    NFd = 3
    UID = 1
    GID = 1
SYMMETRY Symmetry
INVARIANTS
    TypeOK
    OneOwner
    NeverInClear
    AliveWhenUsed
    OrderOfOptions
