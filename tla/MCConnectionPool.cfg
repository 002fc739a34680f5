\* Three threads on a pool of two, each of which may hold one connection and
\* wait for another: one that sleeps, one that takes first, one that releases.
SPECIFICATION FairSpec
CONSTANTS
    Thread = {t1, t2, t3}
    Conn = {c1, c2}
    PoolSize = 2
    Retries = 1
    MaxNest = 2
    NoConn = NoConn
    NoThread = NoThread
INVARIANTS
    TypeOK
    NoSharing
    LiveBounded
    NoLostWakeup
PROPERTIES
    AfterCloseOnlyRetries
    LeaseSpec
    CallReturns
