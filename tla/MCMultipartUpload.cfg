\* Two requests at a time, an upload of two chunks, one kind of failure.
SPECIFICATION FairSpec
CONSTANTS
    Caller = {c1, c2}
    Parts = 2
    MaxFiles = 2
    MaxFaults = 1
INVARIANTS
    TypeOK
    ChunkTracked
    OneFile
PROPERTIES
    ChunksGo
CHECK_DEADLOCK FALSE
