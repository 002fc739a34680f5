--------------------------- MODULE ConnectionPool ---------------------------
(***************************************************************************)
(* The MySQL connection pool, src/src/ConnectionPool.cc, and the threads   *)
(* that call it through DbGuard, TransactionGuard and the DAOs.  mutex_    *)
(* is explicit: getConnection holds it while it pings, reconnects and pops *)
(* again, and gives it up while it waits on cv_ and around the one         *)
(* createConnection of its retry loop; releaseConnection reads stopped_    *)
(* before it locks.                                                        *)
(***************************************************************************)
EXTENDS Naturals, Sequences, FiniteSets

CONSTANTS Thread,      \* threads that call the pool
          Conn,        \* MYSQL* handles; a closed one may be allocated again
          PoolSize,    \* poolSize_
          Retries,     \* retry, 3 in the code
          MaxNest,     \* connections one thread holds at most, 2 in the code
          NoConn,      \* nullptr
          NoThread     \* mutex_ is free

ASSUME PoolAssumption ==
    /\ IsFiniteSet(Thread) /\ IsFiniteSet(Conn)
    /\ PoolSize \in Nat \ {0} /\ Retries \in Nat /\ MaxNest \in Nat
    /\ PoolSize <= Cardinality(Conn)
    /\ NoConn \notin Conn /\ NoThread \notin Thread

VARIABLES
    idle,       \* connections_, front first
    age,        \* whether a connection's lastCheck is recent (below)
    held,       \* what each thread got and has not given back
    hand,       \* the connection a call in progress works on
    pc,         \* where each thread is
    retrying,   \* threads in the retry loop, their connection lost
    left,       \* retry
    mutex,      \* the thread that owns mutex_
    stopped,    \* stopped_
    dropped,    \* connections whose server side is gone
    dbUp        \* the server accepts connections

poolVars == <<idle, age, held, hand, mutex, stopped>>
callVars == <<pc, retrying, left>>
envVars  == <<dropped, dbUp>>
vars     == <<poolVars, callVars, envVars>>

(***************************************************************************)
(* age[c]: whether lastCheck, once c is queued, is within                  *)
(* CONNECTION_VALIDATION_INTERVAL.  Creating and pinging c stamp it, and   *)
(* so does returning it: a connection that is used often is never pinged.  *)
(***************************************************************************)
Age == {"recent", "old"}

Elems(q) == {q[i] : i \in 1..Len(q)}
Injective(q) == \A i, j \in 1..Len(q) : q[i] = q[j] => i = j

IdleSet  == Elems(idle)
InHand   == {hand[t] : t \in Thread} \ {NoConn}
Held     == UNION {held[t] : t \in Thread}
Live     == IdleSet \cup InHand \cup Held

Asleep   == {t \in Thread : pc[t] = "asleep"}
Awake    == {t \in Thread : pc[t] \in {"woken", "expired"}}

\* init: PoolSize connections are created and queued, stopped_ is reset.
Init ==
    /\ idle \in [1..PoolSize -> Conn]
    /\ Injective(idle)
    /\ age = [c \in Conn |-> IF c \in IdleSet THEN "recent" ELSE "old"]
    /\ held = [t \in Thread |-> {}]
    /\ hand = [t \in Thread |-> NoConn]
    /\ pc = [t \in Thread |-> "client"]
    /\ retrying = {}
    /\ left = [t \in Thread |-> 0]
    /\ mutex = NoThread
    /\ stopped = FALSE
    /\ dropped = {}
    /\ dbUp = TRUE
-----------------------------------------------------------------------------
(* The steps getConnection is made of *)

At(t, step) == pc' = [pc EXCEPT ![t] = step]

\* Mutant: front() without pop().
TakeNoPop(t) ==
    /\ hand' = [hand EXCEPT ![t] = Head(idle)]
    /\ mutex' = t
    /\ At(t, "validate")
    /\ UNCHANGED <<idle, age, held, retrying, stopped, envVars>>

\* Pop the front of the queue, mutex_ held.
Take(t) ==
    /\ hand' = [hand EXCEPT ![t] = Head(idle)]
    /\ idle' = Tail(idle)
    /\ mutex' = t
    /\ At(t, "validate")
    /\ UNCHANGED <<age, held, retrying, stopped, envVars>>

\* Block on cv_, which releases mutex_.
Sleep(t) ==
    /\ mutex' = NoThread
    /\ At(t, "asleep")
    /\ UNCHANGED <<idle, age, held, hand, retrying, stopped, envVars>>

\* Return nullptr.
ReturnNull(t) ==
    /\ mutex' = NoThread
    /\ retrying' = retrying \ {t}
    /\ left' = [left EXCEPT ![t] = 0]
    /\ At(t, "client")
    /\ UNCHANGED <<idle, age, held, hand, stopped, envVars>>

\* Return connection c.
HandOut(t, c) ==
    /\ held' = [held EXCEPT ![t] = @ \cup {c}]
    /\ hand' = [hand EXCEPT ![t] = NoConn]
    /\ mutex' = NoThread
    /\ retrying' = retrying \ {t}
    /\ left' = [left EXCEPT ![t] = 0]
    /\ At(t, "client")
    /\ UNCHANGED <<idle, stopped, dbUp>>
-----------------------------------------------------------------------------
(* getConnection *)

\* Mutant: stopped_ is not looked at.
RequestUnstopped(t) ==
    /\ pc[t] = "client"
    /\ mutex = NoThread
    /\ Cardinality(held[t]) < MaxNest
    /\ left' = [left EXCEPT ![t] = Retries]
    /\ IF idle = <<>> THEN Sleep(t) ELSE Take(t)

\* The call locks mutex_ and finds the predicate of wait_for true, or waits.
Request(t) ==
    /\ pc[t] = "client"
    /\ mutex = NoThread
    /\ Cardinality(held[t]) < MaxNest
    /\ \/ /\ stopped
          /\ ReturnNull(t)
       \/ /\ ~stopped
          /\ left' = [left EXCEPT ![t] = Retries]
          /\ IF idle = <<>> THEN Sleep(t) ELSE Take(t)

\* Mutant: wait instead of wait_for.
TimeUpNever(t) == pc[t] = "asleep" /\ FALSE /\ UNCHANGED vars

\* The deadline of wait_for (5s, or 2s in the retry loop) passes; being woken
\* in vain before does not move it.
TimeUp(t) ==
    /\ pc[t] \in {"asleep", "woken"}
    /\ At(t, "expired")
    /\ UNCHANGED <<poolVars, retrying, left, envVars>>

\* wait_for has mutex_ again and evaluates its predicate: it holds.
WaitOver(t) ==
    /\ pc[t] \in {"woken", "expired"}
    /\ mutex = NoThread
    /\ \/ /\ idle # <<>>
          /\ t \in retrying \/ ~stopped
          /\ Take(t)
          /\ UNCHANGED left
       \/ /\ stopped
          /\ t \notin retrying
          /\ ReturnNull(t)
       \/ /\ stopped /\ idle = <<>>
          /\ t \in retrying
          /\ At(t, "retry")
          /\ mutex' = t
          /\ UNCHANGED <<idle, age, held, hand, stopped, retrying, left, envVars>>

\* The predicate is false: another thread took the connection first.
WaitAgain(t) ==
    /\ pc[t] = "woken"
    /\ mutex = NoThread
    /\ idle = <<>> /\ ~stopped
    /\ Sleep(t)
    /\ UNCHANGED left

\* Mutant: a first wait that times out also opens a connection.
WaitFailedGrow(t) ==
    /\ pc[t] = "expired"
    /\ mutex = NoThread
    /\ idle = <<>> /\ ~stopped
    /\ At(t, "create")
    /\ UNCHANGED <<poolVars, retrying, left, envVars>>

\* wait_for returns false: nullptr, or one createConnection without mutex_.
\* size() < maxPoolSize_ holds: the queue is empty.
WaitFailed(t) ==
    /\ pc[t] = "expired"
    /\ mutex = NoThread
    /\ idle = <<>> /\ ~stopped
    /\ \/ /\ t \notin retrying
          /\ ReturnNull(t)
       \/ /\ t \in retrying
          /\ At(t, "create")
          /\ UNCHANGED <<poolVars, retrying, left, envVars>>

\* createConnection, then lock() and break.
Create(t) ==
    /\ pc[t] = "create"
    /\ mutex = NoThread
    /\ \/ /\ dbUp
          /\ \E c \in Conn \ Live :
                /\ HandOut(t, c)
                /\ age' = [age EXCEPT ![c] = "recent"]
                /\ UNCHANGED dropped
       \/ /\ ~dbUp
          /\ ReturnNull(t)

\* ensureValidConnection on the connection popped.
Validate(t) ==
    /\ pc[t] = "validate"
    /\ LET c == hand[t] IN
       \/ /\ age[c] # "old"                       \* trusted without a ping
          /\ HandOut(t, c)
          /\ UNCHANGED <<age, dropped>>
       \/ /\ age[c] = "old" /\ c \notin dropped   \* mysql_ping succeeds
          /\ HandOut(t, c)
          /\ age' = [age EXCEPT ![c] = "recent"]
          /\ UNCHANGED dropped
       \/ /\ age[c] = "old" /\ c \in dropped      \* closed and rebuilt
          /\ dbUp
          /\ \E n \in Conn \ (Live \ {c}) :
                /\ HandOut(t, n)
                /\ age' = [age EXCEPT ![c] = "old", ![n] = "recent"]
                /\ dropped' = dropped \ {c}
       \/ /\ age[c] = "old" /\ c \in dropped      \* closed, not rebuilt
          /\ ~dbUp
          /\ hand' = [hand EXCEPT ![t] = NoConn]
          /\ dropped' = dropped \ {c}
          /\ retrying' = retrying \cup {t}
          /\ At(t, "retry")
          /\ UNCHANGED <<idle, age, held, mutex, stopped, left, dbUp>>

\* Mutant: one retry too many, retry-- >= 0.
RetryOffByOne(t) ==
    /\ pc[t] = "retry"
    /\ left[t] >= 0
    /\ left' = [left EXCEPT ![t] = @ - 1]
    /\ \/ idle # <<>> /\ Take(t)
       \/ idle = <<>> /\ ~stopped /\ Sleep(t)

\* The head of the retry loop, mutex_ held.
Retry(t) ==
    /\ pc[t] = "retry"
    /\ \/ /\ left[t] = 0
          /\ ReturnNull(t)
       \/ /\ left[t] > 0
          /\ left' = [left EXCEPT ![t] = @ - 1]
          /\ \/ /\ idle # <<>>
                /\ Take(t)
             \/ /\ idle = <<>> /\ ~stopped
                /\ Sleep(t)
             \/ /\ idle = <<>> /\ stopped
                /\ UNCHANGED <<poolVars, pc, retrying, envVars>>
-----------------------------------------------------------------------------
(* releaseConnection, close *)

\* Mutant: the caller keeps the pointer it gave back.
ReleaseKeep(t, c) ==
    /\ pc[t] = "client"
    /\ c \in held[t]
    /\ ~stopped
    /\ hand' = [hand EXCEPT ![t] = c]
    /\ At(t, "push")
    /\ UNCHANGED <<held, age, dropped, idle, mutex, stopped, retrying, left, dbUp>>

\* The unlocked test of stopped_.
Release(t, c) ==
    /\ pc[t] = "client"
    /\ c \in held[t]
    /\ held' = [held EXCEPT ![t] = @ \ {c}]
    /\ \/ /\ stopped
          /\ age' = [age EXCEPT ![c] = "old"]
          /\ dropped' = dropped \ {c}
          /\ UNCHANGED <<hand, pc>>
       \/ /\ ~stopped
          /\ hand' = [hand EXCEPT ![t] = c]
          /\ At(t, "push")
          /\ UNCHANGED <<age, dropped>>
    /\ UNCHANGED <<idle, mutex, stopped, retrying, left, dbUp>>

\* Mutant: the release does not notify.
NotifyNone(t) == At(t, "client")

\* notify_one, as the caller t returns.
NotifyOne(t) ==
    IF Asleep = {} THEN At(t, "client")
    ELSE \E w \in Asleep : pc' = [pc EXCEPT ![t] = "client", ![w] = "woken"]

\* The locked part: queue the connection, or close it when the queue is full.
Push(t) ==
    /\ pc[t] = "push"
    /\ mutex = NoThread
    /\ LET c == hand[t] IN
       IF Len(idle) >= PoolSize
       THEN /\ age' = [age EXCEPT ![c] = "old"]
            /\ dropped' = dropped \ {c}
            /\ At(t, "client")
            /\ UNCHANGED idle
       ELSE /\ idle' = Append(idle, c)
            /\ age' = [age EXCEPT ![c] = "recent"]
            /\ NotifyOne(t)
            /\ UNCHANGED dropped
    /\ hand' = [hand EXCEPT ![t] = NoConn]
    /\ UNCHANGED <<held, mutex, stopped, retrying, left, dbUp>>

\* notify_all
NotifyAll == pc' = [t \in Thread |-> IF pc[t] = "asleep" THEN "woken" ELSE pc[t]]

\* close: at shutdown, and again from the destructor.
Close ==
    /\ mutex = NoThread
    /\ stopped' = TRUE
    /\ NotifyAll
    /\ idle' = <<>>
    /\ age' = [c \in Conn |-> IF c \in IdleSet THEN "old" ELSE age[c]]
    /\ dropped' = dropped \ IdleSet
    /\ UNCHANGED <<held, hand, mutex, retrying, left, dbUp>>
-----------------------------------------------------------------------------
(* The server and the clock *)

\* The server stops or the network fails: every connection is lost.
ServerDown ==
    /\ dbUp
    /\ dbUp' = FALSE
    /\ dropped' = Live
    /\ UNCHANGED <<poolVars, callVars>>

ServerUp ==
    /\ ~dbUp
    /\ dbUp' = TRUE
    /\ UNCHANGED <<poolVars, callVars, dropped>>

\* The server drops one connection (wait_timeout, KILL).
Drop(c) ==
    /\ dropped' = dropped \cup {c}
    /\ UNCHANGED <<poolVars, callVars, dbUp>>

\* CONNECTION_VALIDATION_INTERVAL passes and the pool is not called.
Elapse ==
    /\ age' = [c \in Conn |-> "old"]
    /\ UNCHANGED <<idle, held, hand, mutex, stopped, callVars, envVars>>
-----------------------------------------------------------------------------
Step(t) == \/ WaitOver(t) \/ WaitAgain(t) \/ WaitFailed(t)
           \/ Create(t) \/ Validate(t) \/ Retry(t) \/ Push(t)

Next ==
    \/ \E t \in Thread : Request(t) \/ TimeUp(t) \/ Step(t)
    \/ \E t \in Thread : \E c \in held[t] : Release(t, c)
    \/ Close
    \/ ServerDown \/ ServerUp \/ Elapse
    \/ \E c \in Live \ dropped : Drop(c)

Spec == Init /\ [][Next]_vars

(***************************************************************************)
(* Fairness.  A waiting thread's timer expires, a thread that runs inside  *)
(* the pool keeps running, and a thread that wants mutex_, which is free   *)
(* again and again, gets it: strong fairness, since others may take the    *)
(* mutex in between.  That mysql_ping and mysql_real_connect end is an     *)
(* assumption on the server and the network (only the connect has a        *)
(* timeout).  No caller has to call, to release or to be notified.         *)
(***************************************************************************)
Fairness ==
    \A t \in Thread :
        /\ WF_vars(TimeUp(t))
        /\ SF_vars(Step(t))

FairSpec == Spec /\ Fairness
-----------------------------------------------------------------------------
(* Properties *)

\* Every variable has its type; the retry counter never runs below zero.
TypeOK ==
    /\ idle \in Seq(Conn)
    /\ age \in [Conn -> Age]
    /\ held \in [Thread -> SUBSET Conn]
    /\ hand \in [Thread -> Conn \cup {NoConn}]
    /\ pc \in [Thread -> {"client", "asleep", "woken", "expired", "validate",
                          "retry", "create", "push"}]
    /\ retrying \in SUBSET Thread
    /\ left \in [Thread -> 0..Retries]
    /\ mutex \in Thread \cup {NoThread}
    /\ stopped \in BOOLEAN
    /\ dropped \in SUBSET Conn
    /\ dbUp \in BOOLEAN

\* mutex_ is held exactly through validation and the head of the retry loop,
\* a call works on a connection exactly while it validates or returns one,
\* only a call that lost a connection opens one, and a first wait never ends
\* with a connection of a closed pool.
CallDiscipline ==
    \A t \in Thread :
        /\ mutex = t <=> pc[t] \in {"validate", "retry"}
        /\ hand[t] # NoConn <=> pc[t] \in {"validate", "push"}
        /\ pc[t] \in {"retry", "create"} => t \in retrying
        /\ pc[t] \in {"client", "push"} => t \notin retrying
        /\ pc[t] = "validate" /\ stopped => t \in retrying

\* No connection is in two places: queued twice, queued and owned, owned by
\* two threads.  (MYSQL* is not thread safe; DbGuard relies on this.)
NoSharing ==
    /\ Injective(idle)
    /\ \A t, u \in Thread : t # u => /\ held[t] \cap held[u] = {}
                                     /\ hand[t] = hand[u] => hand[t] = NoConn
    /\ IdleSet \cap InHand = {}
    /\ IdleSet \cap Held = {}
    /\ InHand \cap Held = {}

\* The pool never has more than poolSize_ connections open, although the
\* retry loop opens one outside mutex_ and allows for maxPoolSize_, twice as
\* many: each thread in that loop has lost one and may open one.
Capacity == Cardinality(Live) + Cardinality(retrying)
LiveBounded == Capacity <= PoolSize

\* What an outage has cost is never regained: no step opens a connection
\* beyond those that are open and those whose loss a thread still mends.
CapacityNeverGrows == [][Capacity' <= Capacity]_vars

\* While a thread sleeps on cv_, the pool is open and every queued connection
\* has a thread awake that comes for it: no notify is lost, whoever takes
\* the connection first and whichever of the two waits the sleeper is in.
NoLostWakeup ==
    Asleep # {} => ~stopped /\ Cardinality(Awake) >= Len(idle)

\* After close only a call that was already in its retry loop is still given
\* a connection.
AfterCloseOnlyRetries ==
    [][stopped => \A t \in Thread : held'[t] \subseteq held[t] \/ t \in retrying]_vars

\* Every call of getConnection and releaseConnection returns, also when each
\* thread holds the connection another one waits for (hold and wait in
\* listAndCountByUserWithSearch and in handleEmailRegister).
CallReturns == \A t \in Thread : pc[t] # "client" ~> pc[t] = "client"

\* Within a call the retries only run down, and every pass of the retry loop
\* that leads back to a wait or a validation has used one: what bounds a call
\* whose connections keep failing.
RetriesRunDown ==
    [][\A t \in Thread : pc[t] # "client" /\ pc'[t] # "client" =>
          /\ left'[t] <= left[t]
          /\ pc[t] = "retry" /\ pc'[t] # "retry" => left'[t] < left[t]]_vars

\* A thread owns a connection until the locked part of releaseConnection; the
\* pool owns the queue and what is being validated.
lentBar  == [t \in Thread |->
                held[t] \cup {c \in {hand[t]} : pc[t] = "push"}]
spareBar == IdleSet \cup {hand[t] : t \in {u \in Thread : pc[u] = "validate"}}

\* The pool implements the leases its callers rely on.
Lease == INSTANCE ConnLease WITH lent <- lentBar, spare <- spareBar
LeaseSpec == Lease!Spec

\* Every connection is gone and nobody is left to open one.
Drained == Live = {} /\ retrying = {}

\* A drained pool stays drained: nothing the callers, the server or the clock
\* do afterwards gives anyone a connection.
DrainedForGood == [](Drained => []Drained)

\* include/ConnectionPool.hpp:11: lost connections are rebuilt.  If the server
\* stays up and threads keep asking, they are served again.
PoolRecovers ==
    /\ <>[](dbUp /\ ~stopped)
    /\ []<>(Asleep # {})
    => []<>(Held # {})
=============================================================================
