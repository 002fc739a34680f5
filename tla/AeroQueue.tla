------------------------------ MODULE AeroQueue ------------------------------
(***************************************************************************)
(* The task queue, src/src/AeroQueue.cc: HTTP threads post, worker threads *)
(* take and run, main stops.  post and stop change tasks_ and stopped_ and *)
(* notify cv_ without mutex_, so both may fall between a worker's look at  *)
(* the predicate of wait_for and its block on cv_.                         *)
(*                                                                         *)
(* tasks_ is a set: with several producers try_dequeue promises no order.  *)
(* mutex_ is left out: only workers lock it, to evaluate the predicate.    *)
(***************************************************************************)
EXTENDS Naturals, FiniteSets

CONSTANTS Worker,    \* threads_
          Task,      \* the closures posted; each is posted once
          NoTask     \* a worker that runs nothing

ASSUME QueueAssumption ==
    IsFiniteSet(Worker) /\ IsFiniteSet(Task) /\ NoTask \notin Task

VARIABLES
    tasks,      \* tasks_
    posting,    \* enqueued by a post that has not notified yet
    pc,         \* where each worker is in workerThread
    task,       \* the task each worker runs
    done,       \* tasks that returned or threw
    total,      \* total_tasks_
    failed,     \* failed_tasks_
    stopped,    \* stopped_
    stopper     \* where stop is

workVars == <<pc, task, done, total, failed>>
stopVars == <<stopped, stopper>>
vars     == <<tasks, posting, workVars, stopVars>>

Running == {task[w] : w \in Worker} \ {NoTask}
Asleep  == {w \in Worker : pc[w] = "asleep"}

\* start has run: it precedes the first request.
Init ==
    /\ tasks = {} /\ posting = {} /\ done = {}
    /\ pc = [w \in Worker |-> "loop"]
    /\ task = [w \in Worker |-> NoTask]
    /\ total = 0 /\ failed = 0
    /\ stopped = FALSE /\ stopper = "none"

At(w, step) == pc' = [pc EXCEPT ![w] = step]
-----------------------------------------------------------------------------
(* post *)

Enqueue(t) ==
    /\ t \notin tasks \cup Running \cup done
    /\ tasks' = tasks \cup {t}
    /\ posting' = posting \cup {t}
    /\ UNCHANGED <<workVars, stopVars>>

\* notify_one
Notify(t) ==
    /\ t \in posting
    /\ posting' = posting \ {t}
    /\ IF Asleep = {} THEN UNCHANGED pc ELSE \E w \in Asleep : At(w, "woken")
    /\ UNCHANGED <<tasks, task, done, total, failed, stopVars>>
-----------------------------------------------------------------------------
(* workerThread *)

\* while (!stopped_)
Loop(w) ==
    /\ pc[w] = "loop"
    /\ At(w, IF stopped THEN "exited" ELSE "fetch")
    /\ UNCHANGED <<tasks, posting, task, done, total, failed, stopVars>>

\* Mutant: the front is read and popped in two steps.
FetchPeek(w) ==
    /\ pc[w] = "fetch"
    /\ \/ \E t \in tasks :
             /\ UNCHANGED tasks
             /\ task' = [task EXCEPT ![w] = t]
             /\ total' = total + 1
             /\ At(w, "run")
       \/ /\ tasks = {}
          /\ At(w, "check")
          /\ UNCHANGED <<tasks, task, total>>
    /\ UNCHANGED <<posting, done, failed, stopVars>>

\* try_dequeue
Fetch(w) ==
    /\ pc[w] = "fetch"
    /\ \/ \E t \in tasks :
             /\ tasks' = tasks \ {t}
             /\ task' = [task EXCEPT ![w] = t]
             /\ total' = total + 1
             /\ At(w, "run")
       \/ /\ tasks = {}
          /\ At(w, "check")
          /\ UNCHANGED <<tasks, task, total>>
    /\ UNCHANGED <<posting, done, failed, stopVars>>

\* Mutant: the task object outlives the loop's iteration.
RunKeepTask(w) ==
    /\ pc[w] = "run"
    /\ done' = done \cup {task[w]}
    /\ failed' \in {failed, failed + 1}
    /\ At(w, "loop")
    /\ UNCHANGED <<tasks, posting, task, total, stopVars>>

\* Mutant: no catch, the exception ends the worker.
RunUncaught(w) ==
    /\ pc[w] = "run"
    /\ done' = done \cup {task[w]}
    /\ task' = [task EXCEPT ![w] = NoTask]
    /\ \/ failed' = failed /\ At(w, "loop")
       \/ failed' = failed + 1 /\ At(w, "exited")
    /\ UNCHANGED <<tasks, posting, total, stopVars>>

\* The task returns, or throws and the exception is caught.
Run(w) ==
    /\ pc[w] = "run"
    /\ done' = done \cup {task[w]}
    /\ task' = [task EXCEPT ![w] = NoTask]
    /\ failed' \in {failed, failed + 1}
    /\ At(w, "loop")
    /\ UNCHANGED <<tasks, posting, total, stopVars>>

\* The predicate of wait_for, before it blocks, when it is notified and when
\* its 100ms are over.
Check(w) ==
    /\ pc[w] \in {"check", "woken", "expired"}
    /\ At(w, IF tasks # {} \/ stopped \/ pc[w] = "expired" THEN "loop" ELSE "block")
    /\ UNCHANGED <<tasks, posting, task, done, total, failed, stopVars>>

\* Block on cv_: from here on a notify reaches the worker.
Block(w) ==
    /\ pc[w] = "block"
    /\ At(w, "asleep")
    /\ UNCHANGED <<tasks, posting, task, done, total, failed, stopVars>>

\* Mutant: wait instead of wait_for.
TimeUpNever(w) == pc[w] = "asleep" /\ FALSE /\ UNCHANGED vars

\* The 100ms pass.
TimeUp(w) ==
    /\ pc[w] = "asleep"
    /\ At(w, "expired")
    /\ UNCHANGED <<tasks, posting, task, done, total, failed, stopVars>>
-----------------------------------------------------------------------------
(* stop(true), by main; the destructor's second call finds nothing to do. *)

Stop ==
    /\ stopper = "none"
    /\ stopped' = TRUE
    /\ stopper' = "notify"
    /\ UNCHANGED <<tasks, posting, workVars>>

NotifyAll ==
    /\ stopper = "notify"
    /\ pc' = [w \in Worker |-> IF pc[w] = "asleep" THEN "woken" ELSE pc[w]]
    /\ stopper' = "join"
    /\ UNCHANGED <<tasks, posting, task, done, total, failed, stopped>>

\* Mutant: stop(false), the threads are not joined.
JoinNobody ==
    /\ stopper = "join"
    /\ stopper' = "returned"
    /\ UNCHANGED <<tasks, posting, workVars, stopped>>

Join ==
    /\ stopper = "join"
    /\ \A w \in Worker : pc[w] = "exited"
    /\ stopper' = "returned"
    /\ UNCHANGED <<tasks, posting, workVars, stopped>>
-----------------------------------------------------------------------------
Turn(w) == Loop(w) \/ Fetch(w) \/ Check(w) \/ Block(w) \/ TimeUp(w)

Next ==
    \/ \E t \in Task : Enqueue(t) \/ Notify(t)
    \/ \E w \in Worker : Turn(w) \/ Run(w)
    \/ Stop \/ NotifyAll \/ Join

Spec == Init /\ [][Next]_vars

(***************************************************************************)
(* Fairness.  A worker thread is scheduled and its timer expires; once     *)
(* begun, stop goes on.  Nobody has to post or to stop, and a post may be  *)
(* suspended before its notify_one.                                        *)
(***************************************************************************)
Scheduled ==
    /\ \A w \in Worker : WF_vars(Turn(w))
    /\ WF_vars(NotifyAll \/ Join)

\* An assumption on the services the tasks call: they answer or the connection
\* breaks.  (The SMTP client sets timeouts, the MinIO and Redis calls do not.)
TasksEnd == \A w \in Worker : WF_vars(Run(w))

FairSpec == Spec /\ Scheduled /\ TasksEnd
-----------------------------------------------------------------------------
(* Properties *)

\* Every variable has its type, and a worker has a task exactly while it runs.
TypeOK ==
    /\ tasks \subseteq Task /\ posting \subseteq Task /\ done \subseteq Task
    /\ pc \in [Worker -> {"loop", "fetch", "run", "check", "block", "asleep",
                          "woken", "expired", "exited"}]
    /\ task \in [Worker -> Task \cup {NoTask}]
    /\ \A w \in Worker : task[w] # NoTask <=> pc[w] = "run"
    /\ total \in Nat /\ failed \in Nat
    /\ stopped \in BOOLEAN
    /\ stopper \in {"none", "notify", "join", "returned"}
    /\ stopped <=> stopper # "none"

\* A task is queued, run by one worker or done, and only one of these, and
\* total_tasks_ and failed_tasks_ agree with that: whoever reads them never
\* sees more failures than ended tasks.
OnePlace ==
    /\ \A w, v \in Worker : w # v /\ task[w] = task[v] => task[w] = NoTask
    /\ tasks \cap Running = {} /\ tasks \cap done = {} /\ Running \cap done = {}
    /\ total = Cardinality(Running \cup done)
    /\ failed <= Cardinality(done)

\* What stop has to wait for: once stopped_ is set, the tasks begun and the
\* workers about to fetch one are together never more, so that at most one
\* task per worker begins after it, however many are queued.
Fetching == {w \in Worker : pc[w] = "fetch"}
FewBeginAfterStop ==
    [][stopped => total' + Cardinality(Fetching') <= total + Cardinality(Fetching)]_vars

\* A task still queued when stop(true) has returned stays queued for good.
Dropped(t) == stopper = "returned" /\ t \in tasks
DroppedForGood == \A t \in Task : [](Dropped(t) => []Dropped(t))

\* A task is run at most once, and none is running or begins once stop(true)
\* has returned and main goes on to close the connection pool.
Once == INSTANCE TaskOnce
            WITH waiting <- tasks, running <- Running, finished <- done,
                 closed <- stopper = "returned"
OnceSpec == Once!Spec

\* Every task posted is run unless the queue is stopped, although its notify
\* may come between a worker's check and its block.
EveryTaskRuns == \A t \in Task : t \in tasks ~> t \in done \/ stopped

\* include/AeroQueue.hpp:38: stop with wait=true waits until all tasks are
\* done, so a task posted before stop is called is run.
StopDrains == \A t \in Task : t \in tasks /\ ~stopped ~> t \in done
=============================================================================
