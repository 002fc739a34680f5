CONSTANTS
    File = {f1, f2}
    MaxViews = 2
    Faults = FALSE
SPECIFICATION FairSpec
PROPERTIES ViewCountIsTrue
CHECK_DEADLOCK FALSE
