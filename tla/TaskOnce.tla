------------------------------ MODULE TaskOnce ------------------------------
(***************************************************************************)
(* What the callers of AeroQueue rely on: a task they post runs at most    *)
(* once, and when stop(true) has returned nothing runs any more, so that   *)
(* main may close what the tasks use.                                      *)
(***************************************************************************)
CONSTANT Task

VARIABLES waiting,    \* posted, not begun
          running,    \* begun, not ended
          finished,   \* ended, normally or by an exception
          closed      \* stop has returned

vars == <<waiting, running, finished, closed>>

Init == waiting = {} /\ running = {} /\ finished = {} /\ closed = FALSE

Post(t) ==
    /\ t \notin waiting \cup running \cup finished
    /\ waiting' = waiting \cup {t}
    /\ UNCHANGED <<running, finished, closed>>

Start(t) ==
    /\ ~closed
    /\ t \in waiting
    /\ waiting' = waiting \ {t}
    /\ running' = running \cup {t}
    /\ UNCHANGED <<finished, closed>>

End(t) ==
    /\ t \in running
    /\ running' = running \ {t}
    /\ finished' = finished \cup {t}
    /\ UNCHANGED <<waiting, closed>>

Close ==
    /\ running = {}
    /\ closed' = TRUE
    /\ UNCHANGED <<waiting, running, finished>>

Next == Close \/ \E t \in Task : Post(t) \/ Start(t) \/ End(t)

Spec == Init /\ [][Next]_vars
=============================================================================
