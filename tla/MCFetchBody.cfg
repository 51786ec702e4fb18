SPECIFICATION Spec
CONSTANTS
    Thr = {t1, t2}
    Articles <- MCArticles
    Room = 10
    NFetch = 2
INVARIANTS
    TypeOK
    WritesTheBody
    NoBufferLost
