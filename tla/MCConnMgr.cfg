SPECIFICATION Spec
CONSTANTS
    Thr = {t1, t2, t3}
    MaxConn = 2
    NoThr = NoThr
INVARIANTS
    TypeOK
    Exclusive
    NoDangling
    GreetingBehind
PROPERTIES
    GreetedOnce
