CONSTANTS
    File = {f1, f2}
    MaxViews = 2
    Faults = TRUE
SPECIFICATION FairSpec
INVARIANTS TypeOK Conserved Tracked
PROPERTIES LedgerSpec ViewsReachMySQL
\* All views are used up.
CHECK_DEADLOCK FALSE
