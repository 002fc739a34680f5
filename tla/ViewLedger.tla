----------------------------- MODULE ViewLedger -----------------------------
(***************************************************************************)
(* What a reader of view_count may rely on, with no counters in Redis, no  *)
(* key set and no rounds: the number shown never goes down and never       *)
(* exceeds the views there were, until a failure has made it doubtful.     *)
(***************************************************************************)
EXTENDS Naturals

CONSTANT File

VARIABLES
    seen,       \* views of each file
    shown,      \* view_count of each file
    doubtful    \* a failure may have shown views twice

vars == <<seen, shown, doubtful>>

Init ==
    /\ seen = [f \in File |-> 0]
    /\ shown = [f \in File |-> 0]
    /\ doubtful = FALSE

\* A file is viewed; nothing is shown of it yet.
See(f) ==
    /\ seen' = [seen EXCEPT ![f] = @ + 1]
    /\ UNCHANGED <<shown, doubtful>>

\* Some views of some files are shown at once.
Show ==
    /\ shown' \in [File -> Nat]
    /\ \A f \in File : /\ shown[f] <= shown'[f]
                       /\ doubtful \/ shown'[f] <= seen[f]
    /\ UNCHANGED <<seen, doubtful>>

\* Views that have been shown may be shown again.
Doubt ==
    /\ doubtful' = TRUE
    /\ UNCHANGED <<seen, shown>>

Next == (\E f \in File : See(f)) \/ Show \/ Doubt

Spec == Init /\ [][Next]_vars
=============================================================================
