SPECIFICATION Spec
CONSTANTS
    Execs = {e1, e2}
    NSeg = 4
INVARIANTS
    TypeOK
    NoUseAfterFree
    ResultsReady
    NoLostWakeup
    QuitTokensSuffice
PROPERTIES
    RunOnce
    PoolTerminates
    ImplementsJobPool
