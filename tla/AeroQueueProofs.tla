--------------------------- MODULE AeroQueueProofs ---------------------------
(***************************************************************************)
(* For every set of workers and tasks: the types, that each task is in one *)
(* place and the counters agree, how few begin after stop, and that        *)
(* AeroQueue implements TaskOnce; and for Shutdown, which surrounds it:    *)
(* that the queue does nothing there it does not do alone, what is closed  *)
(* last, and that only a signal ends the process.                          *)
(***************************************************************************)
EXTENDS Shutdown, FiniteSetTheorems, TLAPS

\* No variable of the module but pc matters to a step that only moves a worker.
Moves(w) == Loop(w) \/ Check(w) \/ Block(w) \/ TimeUp(w)

\* Every variable has its type in every reachable state, and a worker has a
\* task exactly while it runs one (workerThread's local variable task).
THEOREM TypeCorrect == Spec => []TypeOK
<1>1. Init => TypeOK
  <2> SUFFICES ASSUME Init PROVE TypeOK
    OBVIOUS
  <2>1. stopped \in BOOLEAN /\ (stopped <=> stopper # "none")
    BY DEF Init
  <2>2. pc \in [Worker -> {"loop"}] /\ task \in [Worker -> {NoTask}]
    BY DEF Init
  <2>3. \A w \in Worker : task[w] # NoTask <=> pc[w] = "run"
    BY <2>2
  <2> QED
    BY <2>1, <2>2, <2>3 DEF Init, TypeOK
<1>2. TypeOK /\ [Next]_vars => TypeOK'
  <2> SUFFICES ASSUME TypeOK, [Next]_vars PROVE TypeOK'
    OBVIOUS
  <2> USE DEF TypeOK, At
  <2>1. ASSUME NEW t \in Task, Enqueue(t) PROVE TypeOK'
    BY <2>1 DEF Enqueue, workVars, stopVars
  <2>2. ASSUME NEW t \in Task, Notify(t) PROVE TypeOK'
    BY <2>2 DEF Notify, stopVars, Asleep
  <2>3. ASSUME NEW w \in Worker, Moves(w) PROVE TypeOK'
    <3>1. CASE Loop(w)
      BY <3>1 DEF Loop, stopVars
    <3>2. CASE Check(w)
      BY <3>2 DEF Check, stopVars
    <3>3. CASE Block(w)
      BY <3>3 DEF Block, stopVars
    <3>4. CASE TimeUp(w)
      BY <3>4 DEF TimeUp, stopVars
    <3> QED
      BY <2>3, <3>1, <3>2, <3>3, <3>4 DEF Moves
  <2>4. ASSUME NEW w \in Worker, Fetch(w) PROVE TypeOK'
    <3>1. ASSUME NEW t \in tasks, task' = [task EXCEPT ![w] = t],
                 tasks' = tasks \ {t}, total' = total + 1, At(w, "run")
          PROVE  TypeOK'
      BY <2>4, <3>1, QueueAssumption DEF Fetch, stopVars
    <3>2. CASE At(w, "check") /\ UNCHANGED <<tasks, task, total>>
      BY <2>4, <3>2 DEF Fetch, stopVars
    <3> QED
      BY <2>4, <3>1, <3>2 DEF Fetch
  <2>5. ASSUME NEW w \in Worker, Run(w) PROVE TypeOK'
    BY <2>5, QueueAssumption DEF Run, stopVars
  <2>6. CASE Stop
    BY <2>6 DEF Stop, workVars
  <2>7. CASE NotifyAll
    BY <2>7 DEF NotifyAll
  <2>8. CASE Join
    BY <2>8 DEF Join, workVars
  <2>9. CASE UNCHANGED vars
    BY <2>9 DEF vars, workVars, stopVars
  <2> QED
    BY <2>1, <2>2, <2>3, <2>4, <2>5, <2>6, <2>7, <2>8, <2>9
    DEF Next, Turn, Moves
<1> QED
  BY <1>1, <1>2, PTL DEF Spec
-----------------------------------------------------------------------------
\* A worker without a task that fetches t is one more that runs t.
LEMMA RunningAfterFetch ==
  ASSUME TypeOK, NEW w \in Worker, task[w] = NoTask, NEW t \in Task,
         task' = [task EXCEPT ![w] = t]
  PROVE  Running' = Running \cup {t}
BY QueueAssumption DEF TypeOK, Running

\* When w ends its task, which no other worker runs, nobody runs it.
LEMMA RunningAfterRun ==
  ASSUME TypeOK, OnePlace, NEW w \in Worker, task[w] # NoTask,
         task' = [task EXCEPT ![w] = NoTask]
  PROVE  Running' = Running \ {task[w]}
BY QueueAssumption DEF TypeOK, OnePlace, Running

\* Tasks that are run or done are tasks, so there are finitely many.
LEMMA Finite ==
  ASSUME TypeOK PROVE IsFiniteSet(Running) /\ IsFiniteSet(done)
<1>1. Running \subseteq Task /\ done \subseteq Task
  BY DEF TypeOK, Running
<1> QED
  BY <1>1, FS_Subset, QueueAssumption

\* A worker at fetch runs nothing, so what it takes is in one place after as
\* before; total_tasks_ counts it.
LEMMA FetchKeepsOnePlace ==
  ASSUME TypeOK, OnePlace, NEW w \in Worker, Fetch(w) PROVE OnePlace'
<1>1. task[w] = NoTask
  BY DEF Fetch, TypeOK
<1>2. ASSUME NEW t \in tasks, task' = [task EXCEPT ![w] = t],
             tasks' = tasks \ {t}, total' = total + 1
      PROVE  OnePlace'
  <2>1. Running' = Running \cup {t} /\ t \in Task
    BY <1>1, <1>2, RunningAfterFetch DEF TypeOK
  <2>2. done' = done /\ failed' = failed
    BY DEF Fetch
  <2>3. t \notin Running \cup done
    BY DEF OnePlace
  <2>4. \A v, u \in Worker : v # u /\ task'[v] = task'[u] => task'[v] = NoTask
    BY <1>2, <2>3, QueueAssumption DEF OnePlace, Running, TypeOK
  <2>5. /\ tasks' \cap Running' = {} /\ tasks' \cap done' = {}
        /\ Running' \cap done' = {}
    BY <1>2, <2>1, <2>2, <2>3 DEF OnePlace
  <2>6. Cardinality((Running \cup done) \cup {t}) = Cardinality(Running \cup done) + 1
    BY <2>3, Finite, FS_Union, FS_AddElement
  <2>7. total' = Cardinality(Running' \cup done')
    <3>1. Running' \cup done' = (Running \cup done) \cup {t}
      BY <2>1, <2>2
    <3> QED
      BY <1>2, <2>6, <3>1 DEF OnePlace
  <2> QED
    BY <2>2, <2>4, <2>5, <2>7 DEF OnePlace
<1>3. CASE UNCHANGED <<tasks, task, total>>
  BY <1>3 DEF Fetch, OnePlace, Running
<1> QED
  BY <1>2, <1>3 DEF Fetch

\* A task that ends moves from the running ones to the done ones.
LEMMA RunKeepsOnePlace ==
  ASSUME TypeOK, OnePlace, NEW w \in Worker, Run(w) PROVE OnePlace'
<1> DEFINE t == task[w]
<1>1. t # NoTask /\ t \in Running /\ t \notin done
  BY DEF Run, TypeOK, OnePlace, Running
<1>2. Running' = Running \ {t}
  BY <1>1, RunningAfterRun DEF Run
<1>3. done' = done \cup {t} /\ tasks' = tasks /\ total' = total
  BY DEF Run
<1>4. \A v, u \in Worker : v # u /\ task'[v] = task'[u] => task'[v] = NoTask
  BY DEF OnePlace, Run, TypeOK
<1>5. /\ tasks' \cap Running' = {} /\ tasks' \cap done' = {}
      /\ Running' \cap done' = {}
  BY <1>1, <1>2, <1>3 DEF OnePlace
<1>6. total' = Cardinality(Running' \cup done')
  <2>1. Running' \cup done' = Running \cup done
    BY <1>1, <1>2, <1>3
  <2> QED
    BY <1>3, <2>1 DEF OnePlace
<1>7. failed' <= Cardinality(done')
  <2>1. Cardinality(done') = Cardinality(done) + 1
    BY <1>1, <1>3, Finite, FS_AddElement
  <2>2. Cardinality(done) \in Nat
    BY Finite, FS_CardinalityType
  <2> QED
    BY <2>1, <2>2 DEF OnePlace, Run, TypeOK
<1> QED
  BY <1>4, <1>5, <1>6, <1>7 DEF OnePlace

\* No task is queued and run, run twice, or run again, and total_tasks_ and
\* failed_tasks_ count what was begun and bound what has failed.
THEOREM OnePlaceCorrect == Spec => []OnePlace
<1>1. Init => OnePlace
  <2> SUFFICES ASSUME Init PROVE OnePlace
    OBVIOUS
  <2>1. Running = {} /\ \A w \in Worker : task[w] = NoTask
    BY DEF Init, Running
  <2>2. Cardinality(Running \cup done) = 0 /\ Cardinality(done) = 0
    <3>1. Running \cup done = {} /\ done = {}
      BY <2>1 DEF Init
    <3>2. Cardinality({}) = 0
      BY FS_EmptySet
    <3> QED
      BY <3>1, <3>2
  <2> QED
    BY <2>1, <2>2 DEF Init, OnePlace
<1>2. TypeOK /\ OnePlace /\ [Next]_vars => OnePlace'
  <2> SUFFICES ASSUME TypeOK, OnePlace, [Next]_vars PROVE OnePlace'
    OBVIOUS
  <2>1. ASSUME NEW t \in Task, Enqueue(t) PROVE OnePlace'
    BY <2>1 DEF Enqueue, OnePlace, Running, workVars, stopVars
  <2>2. ASSUME UNCHANGED <<tasks, task, done, total, failed>> PROVE OnePlace'
    BY <2>2 DEF OnePlace, Running
  <2>3. ASSUME NEW w \in Worker, Moves(w) PROVE OnePlace'
    BY <2>2, <2>3 DEF Moves, Loop, Check, Block, TimeUp
  <2>4. ASSUME NEW w \in Worker, Fetch(w) PROVE OnePlace'
    BY <2>4, FetchKeepsOnePlace
  <2>5. ASSUME NEW w \in Worker, Run(w) PROVE OnePlace'
    BY <2>5, RunKeepsOnePlace
  <2>6. ASSUME NEW t \in Task, Notify(t) PROVE OnePlace'
    BY <2>2, <2>6 DEF Notify
  <2>7. CASE Stop \/ NotifyAll \/ Join \/ UNCHANGED vars
    BY <2>2, <2>7 DEF Stop, NotifyAll, Join, vars, workVars
  <2> QED
    BY <2>1, <2>3, <2>4, <2>5, <2>6, <2>7 DEF Next, Turn, Moves
<1> QED
  BY <1>1, <1>2, TypeCorrect, PTL DEF Spec
-----------------------------------------------------------------------------
\* What join establishes, and nothing undoes.
Joined == stopper = "returned" => \A w \in Worker : pc[w] = "exited"

LEMMA JoinedInv == Spec => []Joined
<1>1. Init => Joined
  BY DEF Init, Joined
<1>2. TypeOK /\ Joined /\ [Next]_vars => Joined'
  <2> SUFFICES ASSUME TypeOK, Joined, [Next]_vars PROVE Joined'
    OBVIOUS
  <2> USE DEF TypeOK, Joined, At
  <2>1. ASSUME NEW t \in Task, Enqueue(t) PROVE Joined'
    BY <2>1 DEF Enqueue, workVars, stopVars
  <2>2. ASSUME NEW t \in Task, Notify(t) PROVE Joined'
    BY <2>2 DEF Notify, Asleep, stopVars
  <2>3. ASSUME NEW w \in Worker, Turn(w) \/ Run(w) PROVE Joined'
    BY <2>3 DEF Turn, Run, Loop, Fetch, Check, Block, TimeUp, stopVars
  <2>4. CASE Stop \/ NotifyAll \/ Join \/ UNCHANGED vars
    BY <2>4 DEF Stop, NotifyAll, Join, vars, workVars, stopVars
  <2> QED
    BY <2>1, <2>2, <2>3, <2>4 DEF Next
<1> QED
  BY <1>1, <1>2, TypeCorrect, PTL DEF Spec

\* AeroQueue implements TaskOnce: a task runs at most once, and nothing runs
\* once stop(true) has returned.
THEOREM QueueRunsOnce == Spec => OnceSpec
<1>1. Init => Once!Init
  BY DEF Init, Once!Init, Running
<1>2. /\ TypeOK /\ OnePlace /\ Joined /\ [Next]_vars
      => [Once!Next]_(Once!vars)
  <2> SUFFICES ASSUME TypeOK, OnePlace, Joined, [Next]_vars
               PROVE  [Once!Next]_(Once!vars)
    OBVIOUS
  <2> USE DEF Once!vars
  <2>1. ASSUME NEW t \in Task, Enqueue(t) PROVE Once!Post(t)
    BY <2>1 DEF Enqueue, Once!Post, Running, workVars, stopVars
  <2>2. ASSUME UNCHANGED <<tasks, task, done, stopper>> PROVE UNCHANGED Once!vars
    BY <2>2 DEF Running
  <2>3. ASSUME NEW t \in Task, Notify(t) PROVE UNCHANGED Once!vars
    BY <2>2, <2>3 DEF Notify, stopVars
  <2>4. ASSUME NEW w \in Worker, Moves(w) PROVE UNCHANGED Once!vars
    BY <2>2, <2>4 DEF Moves, Loop, Check, Block, TimeUp, stopVars
  <2>5. ASSUME NEW w \in Worker, Fetch(w) PROVE [Once!Next]_(Once!vars)
    <3>1. ASSUME NEW t \in tasks, task' = [task EXCEPT ![w] = t], tasks' = tasks \ {t}
          PROVE  Once!Start(t) /\ t \in Task
      <4>1. task[w] = NoTask /\ stopper # "returned"
        BY <2>5 DEF Fetch, TypeOK, Joined
      <4>2. Running' = Running \cup {t} /\ t \in Task
        BY <3>1, <4>1, RunningAfterFetch DEF TypeOK
      <4> QED
        BY <2>5, <3>1, <4>1, <4>2 DEF Fetch, Once!Start, stopVars
    <3>2. CASE UNCHANGED <<tasks, task>>
      BY <2>2, <2>5, <3>2 DEF Fetch, stopVars
    <3> QED
      BY <2>5, <3>1, <3>2 DEF Fetch, Once!Next
  <2>6. ASSUME NEW w \in Worker, Run(w) PROVE Once!End(task[w]) /\ task[w] \in Task
    <3>1. task[w] # NoTask /\ task[w] \in Running /\ task[w] \in Task
      BY <2>6 DEF Run, TypeOK, Running
    <3>2. Running' = Running \ {task[w]}
      BY <2>6, <3>1, RunningAfterRun DEF Run
    <3> QED
      BY <2>6, <3>1, <3>2 DEF Run, Once!End, stopVars
  <2>7. CASE Stop \/ NotifyAll
    <3>1. (stopper = "returned")' = (stopper = "returned")
      BY <2>7 DEF Stop, NotifyAll
    <3>2. Running' = Running /\ tasks' = tasks /\ done' = done
      BY <2>7 DEF Stop, NotifyAll, Running, workVars
    <3> QED
      BY <3>1, <3>2
  <2>8. CASE Join
    <3>1. Running = {}
      BY <2>8 DEF Join, TypeOK, Running
    <3>2. Running' = Running /\ tasks' = tasks /\ done' = done
      BY <2>8 DEF Join, Running, workVars
    <3>3. Once!Close
      BY <2>8, <3>1, <3>2 DEF Join, Once!Close
    <3> QED
      BY <3>3 DEF Once!Next
  <2>9. CASE UNCHANGED vars
    BY <2>2, <2>9 DEF vars, workVars, stopVars
  <2> QED
    BY <2>1, <2>3, <2>4, <2>5, <2>6, <2>7, <2>8, <2>9
    DEF Next, Turn, Moves, Once!Next
<1> QED
  BY <1>1, <1>2, TypeCorrect, OnePlaceCorrect, JoinedInv, PTL
  DEF Spec, OnceSpec, Once!Spec
-----------------------------------------------------------------------------
(* After stop *)

\* No worker comes to fetch, and one that fetches a task no longer does.
LEMMA FetchingAfterStop ==
  ASSUME TypeOK, stopped, [Next]_vars
  PROVE  \/ total' = total /\ Fetching' \subseteq Fetching
         \/ \E w \in Fetching : total' = total + 1 /\ Fetching' = Fetching \ {w}
<1> USE DEF TypeOK, At, Fetching
<1>1. ASSUME NEW t \in Task, Enqueue(t) \/ Notify(t)
      PROVE  total' = total /\ Fetching' \subseteq Fetching
  BY <1>1 DEF Enqueue, Notify, Asleep, workVars
<1>2. ASSUME NEW w \in Worker, Loop(w) \/ Check(w) \/ Block(w) \/ TimeUp(w) \/ Run(w)
      PROVE  total' = total /\ Fetching' \subseteq Fetching
  BY <1>2 DEF Loop, Check, Block, TimeUp, Run
<1>3. ASSUME NEW w \in Worker, Fetch(w)
      PROVE  \/ total' = total /\ Fetching' \subseteq Fetching
             \/ total' = total + 1 /\ w \in Fetching /\ Fetching' = Fetching \ {w}
  BY <1>3 DEF Fetch
<1>4. CASE Stop \/ NotifyAll \/ Join \/ UNCHANGED vars
  BY <1>4 DEF Stop, NotifyAll, Join, vars, workVars
<1> QED
  BY <1>1, <1>2, <1>3, <1>4 DEF Next, Turn

\* At most one task per worker begins after stopped_ is set.
THEOREM FewBeginAfterStopCorrect == Spec => FewBeginAfterStop
<1>1. TypeOK /\ [Next]_vars
      => [stopped => total' + Cardinality(Fetching') <= total + Cardinality(Fetching)]_vars
  <2> SUFFICES ASSUME TypeOK, [Next]_vars, stopped
               PROVE  total' + Cardinality(Fetching') <= total + Cardinality(Fetching)
    OBVIOUS
  <2>1. IsFiniteSet(Fetching) /\ Cardinality(Fetching) \in Nat /\ total \in Nat
    BY FS_Subset, FS_CardinalityType, QueueAssumption DEF Fetching, TypeOK
  <2>2. CASE total' = total /\ Fetching' \subseteq Fetching
    <3>1. IsFiniteSet(Fetching') /\ Cardinality(Fetching') <= Cardinality(Fetching)
      BY <2>1, <2>2, FS_Subset
    <3>2. Cardinality(Fetching') \in Nat
      BY <3>1, FS_CardinalityType
    <3> QED
      BY <2>1, <2>2, <3>1, <3>2
  <2>3. ASSUME NEW w \in Fetching, total' = total + 1, Fetching' = Fetching \ {w}
        PROVE  total' + Cardinality(Fetching') <= total + Cardinality(Fetching)
    <3>1. Cardinality(Fetching') = Cardinality(Fetching) - 1
      BY <2>1, <2>3, FS_RemoveElement
    <3> QED
      BY <2>1, <2>3, <3>1
  <2> QED
    BY <2>2, <2>3, FetchingAfterStop
<1> QED
  BY <1>1, TypeCorrect, PTL DEF Spec, FewBeginAfterStop

\* The workers are gone when stop has returned: nothing begins or ends.
LEMMA StillAfterJoin ==
  ASSUME TypeOK, Joined, stopper = "returned", [Next]_vars
  PROVE  /\ UNCHANGED <<task, done, total, failed, stopper>>
         /\ tasks \subseteq tasks'
<1>1. \A w \in Worker : pc[w] = "exited"
  BY DEF Joined
<1>2. ASSUME NEW w \in Worker, Turn(w) \/ Run(w) PROVE FALSE
  BY <1>1, <1>2 DEF Turn, Run, Loop, Fetch, Check, Block, TimeUp
<1>3. ASSUME NEW t \in Task, Enqueue(t) \/ Notify(t)
      PROVE  /\ UNCHANGED <<task, done, total, failed, stopper>>
             /\ tasks \subseteq tasks'
  BY <1>3 DEF Enqueue, Notify, workVars, stopVars
<1>4. ~(Stop \/ NotifyAll \/ Join)
  BY DEF Stop, NotifyAll, Join
<1> QED
  BY <1>2, <1>3, <1>4 DEF Next, vars, workVars, stopVars

\* A task left in the queue by stop(true) is never begun.
THEOREM DroppedForGoodCorrect == Spec => DroppedForGood
<1>1. ASSUME NEW t \in Task PROVE Spec => [](Dropped(t) => []Dropped(t))
  <2>1. TypeOK /\ Joined /\ [Next]_vars /\ Dropped(t) => Dropped(t)'
    BY StillAfterJoin DEF Dropped
  <2> QED
    BY <2>1, TypeCorrect, JoinedInv, PTL DEF Spec
<1> QED
  BY <1>1 DEF DroppedForGood
-----------------------------------------------------------------------------
(* Shutdown *)

LEMMA QueueInside == [ShutdownNext]_allVars => [Next]_vars
<1> SUFFICES ASSUME [ShutdownNext]_allVars PROVE Next \/ UNCHANGED vars
  OBVIOUS
<1>1. CASE Signal \/ ApiShutdown
  BY <1>1 DEF Signal, ApiShutdown
<1>2. ASSUME NEW p \in Periodic, Wake(p) \/ Work(p) PROVE UNCHANGED vars
  BY <1>2 DEF Wake, Work, Goes
<1>3. CASE Teardown
  BY <1>3 DEF Teardown, JoinPeriodic, StopQueue, ClosePool, Exit, Next
<1>4. CASE QueueStep
  BY <1>4 DEF QueueStep, Next
<1>5. CASE UNCHANGED allVars
  BY <1>5 DEF allVars
<1> QED
  BY <1>1, <1>2, <1>3, <1>4, <1>5 DEF ShutdownNext

(***************************************************************************)
(* Inside the process the queue behaves as AeroQueue says: what holds of   *)
(* it, holds during the teardown.                                          *)
(***************************************************************************)
THEOREM ShutdownKeepsQueue == ShutdownSpec => Spec
<1>1. ShutdownInit => Init
  BY DEF ShutdownInit
<1> QED
  BY <1>1, QueueInside, PTL DEF ShutdownSpec, Spec

\* The types of main, its flag and its threads; the queue is only stopped
\* when drogon and the periodic threads have ended.
THEOREM ShutdownTypeCorrect == ShutdownSpec => []ShutdownTypeOK
<1>1. ShutdownInit /\ TypeOK => ShutdownTypeOK
  BY DEF ShutdownInit, ShutdownTypeOK, Init
<1>2. ShutdownTypeOK /\ TypeOK' /\ [ShutdownNext]_allVars => ShutdownTypeOK'
  <2> SUFFICES ASSUME ShutdownTypeOK, TypeOK', [ShutdownNext]_allVars
               PROVE  ShutdownTypeOK'
    OBVIOUS
  <2> USE DEF ShutdownTypeOK
  <2>1. CASE Signal \/ ApiShutdown
    <3>1. stopped' = stopped /\ bg' = bg /\ running' \in {FALSE, running}
      BY <2>1 DEF Signal, ApiShutdown, vars, stopVars
    <3>2. stage' = IF stage = "serving" THEN "joining" ELSE stage
      BY <2>1 DEF Signal, ApiShutdown, Quit
    <3> QED
      BY <3>1, <3>2
  <2>2. ASSUME NEW p \in Periodic, Wake(p) \/ Work(p) PROVE ShutdownTypeOK'
    BY <2>2 DEF Wake, Work, Goes, vars, stopVars
  <2>3. CASE Teardown
    BY <2>3 DEF Teardown, JoinPeriodic, StopQueue, ClosePool, Exit, mainVars,
                vars, stopVars
  <2>4. CASE QueueStep
    <3>1. stopped' = stopped
      BY <2>4 DEF QueueStep, Enqueue, Notify, Turn, Run, Loop, Fetch, Check, Block,
                  TimeUp, NotifyAll, Join, stopVars
    <3> QED
      BY <2>4, <3>1 DEF QueueStep, mainVars
  <2>5. CASE UNCHANGED allVars
    BY <2>5 DEF allVars, mainVars, vars, stopVars
  <2> QED
    BY <2>1, <2>2, <2>3, <2>4, <2>5 DEF ShutdownNext
<1> QED
  BY <1>1, <1>2, ShutdownKeepsQueue, TypeCorrect, PTL DEF ShutdownSpec

\* Each stage of main waits for the one before: the periodic threads have
\* seen a cleared flag, and the queue's workers have been joined.
InOrder ==
    /\ stage \in {"stopping", "closed", "exited"} => \A p \in Periodic : bg[p] = "exited"
    /\ stage \in {"closed", "exited"} => stopper = "returned"
    /\ \A p \in Periodic : bg[p] = "exited" => ~running

LEMMA InOrderInv == ShutdownSpec => []InOrder
<1>1. ShutdownInit => InOrder
  BY DEF ShutdownInit, InOrder
<1>2. ShutdownTypeOK /\ InOrder /\ [ShutdownNext]_allVars => InOrder'
  <2> SUFFICES ASSUME ShutdownTypeOK, InOrder, [ShutdownNext]_allVars
               PROVE  InOrder'
    OBVIOUS
  <2> USE DEF ShutdownTypeOK, InOrder
  <2>1. CASE Signal \/ ApiShutdown
    BY <2>1 DEF Signal, ApiShutdown, Quit, vars, stopVars
  <2>2. ASSUME NEW p \in Periodic, Wake(p) \/ Work(p) PROVE InOrder'
    BY <2>2 DEF Wake, Work, Goes, vars, stopVars
  <2>3. CASE Teardown
    BY <2>3 DEF Teardown, JoinPeriodic, StopQueue, Stop, ClosePool, Exit, mainVars,
                vars, stopVars
  <2>4. CASE QueueStep
    <3>1. stopper = "returned" => stopper' = "returned"
      BY <2>4 DEF QueueStep, Enqueue, Notify, Turn, Run, Loop, Fetch, Check, Block,
                  TimeUp, NotifyAll, Join, stopVars
    <3> QED
      BY <2>4, <3>1 DEF QueueStep, mainVars
  <2>5. CASE UNCHANGED allVars
    BY <2>5 DEF allVars, mainVars, vars, stopVars
  <2> QED
    BY <2>1, <2>2, <2>3, <2>4, <2>5 DEF ShutdownNext
<1> QED
  BY <1>1, <1>2, ShutdownTypeCorrect, PTL DEF ShutdownSpec

\* Neither a task nor a periodic thread meets a closed connection pool.
THEOREM ClosedLastCorrect == ShutdownSpec => []ClosedLast
<1>1. TypeOK /\ Joined /\ InOrder => ClosedLast
  <2> SUFFICES ASSUME TypeOK, Joined, InOrder, stage \in {"closed", "exited"}
               PROVE  Running = {} /\ \A p \in Periodic : bg[p] = "exited"
    BY DEF ClosedLast
  <2>1. \A w \in Worker : task[w] = NoTask
    BY DEF TypeOK, Joined, InOrder
  <2> QED
    BY <2>1 DEF Running, InOrder
<1> QED
  BY <1>1, ShutdownKeepsQueue, TypeCorrect, JoinedInv, InOrderInv, PTL

\* A process told by /api/shutdown alone to end gets no further than the
\* join of its periodic threads.
THEOREM OnlySignalEndsCorrect == ShutdownSpec => []OnlySignalEnds
<1>1. InOrder => OnlySignalEnds
  BY DEF InOrder, OnlySignalEnds
<1> QED
  BY <1>1, InOrderInv, PTL

\* After the pool is closed no task begins or ends and no periodic thread
\* moves, although drogon's threads may still post and signals still arrive.
THEOREM StillAfterCloseCorrect == ShutdownSpec => StillAfterClose
<1>1. /\ TypeOK /\ Joined /\ InOrder /\ [Next]_vars /\ [ShutdownNext]_allVars
      => [(stage \in {"closed", "exited"}) => users' = users]_allVars
  <2> SUFFICES ASSUME TypeOK, Joined, InOrder, [Next]_vars, [ShutdownNext]_allVars,
                      stage \in {"closed", "exited"}
               PROVE  users' = users
    OBVIOUS
  <2>1. stopper = "returned" /\ \A p \in Periodic : bg[p] = "exited"
    BY DEF InOrder
  <2>2. UNCHANGED <<task, done, total, failed>>
    BY <2>1, StillAfterJoin
  <2>3. bg' = bg
    BY <2>1 DEF ShutdownNext, Signal, ApiShutdown, Wake, Work, Teardown, JoinPeriodic,
                StopQueue, ClosePool, Exit, QueueStep, mainVars, allVars
  <2> QED
    BY <2>2, <2>3 DEF users
<1> QED
  BY <1>1, QueueInside, ShutdownKeepsQueue, TypeCorrect, JoinedInv, InOrderInv, PTL
  DEF ShutdownSpec, Spec, StillAfterClose
=============================================================================
