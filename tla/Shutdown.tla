------------------------------ MODULE Shutdown ------------------------------
(***************************************************************************)
(* How the process ends (src/main.cc): a signal or the administrator's     *)
(* /api/shutdown (src/http/Controllers/SystemController.cc) makes drogon   *)
(* return to main, which joins the threads of BackgroundService            *)
(* (src/src/BackgroundService.cc), stops the task queue (AeroQueue) and    *)
(* closes the connection pool.  Only the signal clears the flag running    *)
(* that the periodic threads look at between their waits, of a second, of  *)
(* five minutes and of an hour; nobody notifies them.                      *)
(*                                                                         *)
(* What drogon's own threads do when run returns is not in the source:     *)
(* they may post until the end.                                            *)
(***************************************************************************)
EXTENDS AeroQueue

CONSTANT Periodic    \* the threads of BackgroundService

VARIABLES
    running,    \* the flag in main.cc
    bg,         \* where each periodic thread is
    stage       \* where main is

mainVars == <<running, bg, stage>>
allVars  == <<vars, mainVars>>

ShutdownInit ==
    /\ Init
    /\ running = TRUE
    /\ bg = [p \in Periodic |-> "waiting"]
    /\ stage = "serving"
-----------------------------------------------------------------------------
(* signalHandler and /api/shutdown: drogon quits, and run returns to main. *)

Quit == stage' = IF stage = "serving" THEN "joining" ELSE stage

Signal ==
    /\ stage # "exited"
    /\ running' = FALSE
    /\ Quit
    /\ UNCHANGED <<vars, bg>>

ApiShutdown ==
    /\ stage = "serving"
    /\ Quit
    /\ UNCHANGED <<vars, running, bg>>
-----------------------------------------------------------------------------
(* A thread of BackgroundService looks at running when wait_for ends and   *)
(* when its work does.                                                     *)

Goes(p, step) ==
    /\ bg' = [bg EXCEPT ![p] = IF running THEN step ELSE "exited"]
    /\ UNCHANGED <<vars, running, stage>>

\* The time of wait_for is over.
Wake(p) == bg[p] = "waiting" /\ Goes(p, "working")

\* The sweep, the synchronisation or the tick ends, or throws and is caught.
Work(p) == bg[p] = "working" /\ Goes(p, "waiting")
-----------------------------------------------------------------------------
(* main, after app().run() *)

\* Mutant: the periodic threads are detached.
JoinNone ==
    /\ stage = "joining"
    /\ stage' = "stopping"
    /\ UNCHANGED <<vars, running, bg>>

\* bgService.stop()
JoinPeriodic ==
    /\ stage = "joining"
    /\ \A p \in Periodic : bg[p] = "exited"
    /\ stage' = "stopping"
    /\ UNCHANGED <<vars, running, bg>>

\* AeroQueue::stop begins.
StopQueue ==
    /\ stage = "stopping"
    /\ Stop
    /\ UNCHANGED mainVars

\* Mutant: the pool is closed before the workers have been joined.
ClosePoolEarly ==
    /\ stage = "stopping" /\ stopped
    /\ stage' = "closed"
    /\ UNCHANGED <<vars, running, bg>>

\* ConnectionPool::close
ClosePool ==
    /\ stage = "stopping" /\ stopper = "returned"
    /\ stage' = "closed"
    /\ UNCHANGED <<vars, running, bg>>

\* The log is stopped and main returns.
Exit ==
    /\ stage = "closed"
    /\ stage' = "exited"
    /\ UNCHANGED <<vars, running, bg>>
-----------------------------------------------------------------------------
QueueStep ==
    /\ \/ \E t \in Task : Enqueue(t) \/ Notify(t)
       \/ \E w \in Worker : Turn(w) \/ Run(w)
       \/ NotifyAll \/ Join
    /\ stage # "exited"
    /\ UNCHANGED mainVars

Teardown == JoinPeriodic \/ StopQueue \/ ClosePool \/ Exit

ShutdownNext ==
    \/ Signal \/ ApiShutdown
    \/ \E p \in Periodic : Wake(p) \/ Work(p)
    \/ Teardown
    \/ QueueStep

ShutdownSpec == ShutdownInit /\ [][ShutdownNext]_allVars

(***************************************************************************)
(* Fairness.  Threads are scheduled and timers expire; that a task, a      *)
(* sweep or a synchronisation ends is the assumption TasksEnd of AeroQueue *)
(* again.  Nobody has to send a signal.                                    *)
(***************************************************************************)
Alive(A) == A /\ stage # "exited" /\ UNCHANGED mainVars

ShutdownFair ==
    /\ \A w \in Worker : WF_allVars(Alive(Turn(w))) /\ WF_allVars(Alive(Run(w)))
    /\ WF_allVars(Alive(NotifyAll \/ Join))
    /\ \A p \in Periodic : WF_allVars(Wake(p) \/ Work(p))
    /\ WF_allVars(Teardown)

FairShutdownSpec == ShutdownSpec /\ ShutdownFair
-----------------------------------------------------------------------------
(* Properties *)

\* The types of the queue and of what surrounds it.
ShutdownTypeOK ==
    /\ TypeOK
    /\ running \in BOOLEAN
    /\ bg \in [Periodic -> {"waiting", "working", "exited"}]
    /\ stage \in {"serving", "joining", "stopping", "closed", "exited"}
    /\ stage \in {"serving", "joining"} => ~stopped

\* When main closes the connection pool no task runs and no periodic thread
\* is in its work or may begin it, so neither finds the pool closed.
ClosedLast ==
    stage \in {"closed", "exited"} =>
        Running = {} /\ \A p \in Periodic : bg[p] = "exited"

\* From then on neither uses the pool: no task begins or ends, and no periodic
\* thread moves, whatever is posted or signalled.
users == <<task, done, total, failed, bg>>
StillAfterClose == [][(stage \in {"closed", "exited"}) => users' = users]_allVars

\* The teardown goes no further than bgService.stop() unless a signal came:
\* a process told by /api/shutdown to end stays, without a listener and with
\* its periodic threads at work.
OnlySignalEnds ==
    Periodic # {} /\ stage \in {"stopping", "closed", "exited"} => ~running

\* After a signal the process ends: although nobody wakes the periodic
\* threads, the notifications of the queue may miss its workers, and a task
\* or a round may be at work.
ShutdownEnds == ~running ~> stage = "exited"
=============================================================================
