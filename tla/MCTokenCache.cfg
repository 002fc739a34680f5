CONSTANTS
    Thread = {t1, t2}
    Token = {a, b}
    Node = {n1, n2, n3, n4}
    Capacity = 2
    Scan = 1
    LocalTtl = 1
    CacheTtl = 2
    RedisTtl = 3
    NoToken = NoToken
    NoNode = NoNode
SYMMETRY Symmetry
SPECIFICATION Spec
INVARIANTS TypeOK MapInList CrashNeedsFullOrStall
PROPERTIES IdleTokenAsksRedis
