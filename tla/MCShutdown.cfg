CONSTANTS
    Worker = {w1, w2}
    Task = {t1, t2, t3}
    NoTask = NoTask
    Periodic = {sync}
SPECIFICATION FairShutdownSpec
INVARIANTS ShutdownTypeOK OnePlace ClosedLast OnlySignalEnds
PROPERTIES OnceSpec EveryTaskRuns ShutdownEnds
\* After the exit nothing is left to do.
CHECK_DEADLOCK FALSE
