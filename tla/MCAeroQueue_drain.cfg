CONSTANTS
    Worker = {w1, w2}
    Task = {t1, t2}
    NoTask = NoTask
SPECIFICATION FairSpec
PROPERTIES StopDrains
CHECK_DEADLOCK FALSE
