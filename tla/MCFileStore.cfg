\* Two requests at a time on three files and a quota of one: the fewest with
\* which a quota check without the new file lets more than the overshoot pass.
SPECIFICATION Spec
CONSTANTS
    Caller = {c1, c2}
    File = {f1, f2, f3}
    Quota = 1
    MaxDue = 1
    MaxTorn = 1
INVARIANTS
    TypeOK
    RowHasObject
    ObjectAccounted
    QuotaOvershoot
SYMMETRY Symmetry
CHECK_DEADLOCK FALSE
