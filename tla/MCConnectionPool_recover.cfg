\* Two threads that may each hold one connection and wait for the other's.
SPECIFICATION FairSpec
CONSTANTS
    Thread = {t1, t2}
    Conn = {c1, c2}
    PoolSize = 2
    Retries = 1
    MaxNest = 2
    NoConn = NoConn
    NoThread = NoThread
PROPERTIES
    PoolRecovers
