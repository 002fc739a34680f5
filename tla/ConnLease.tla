------------------------------ MODULE ConnLease ------------------------------
(***************************************************************************)
(* What the MySQL pool of include/ConnectionPool.hpp promises its callers, *)
(* with no queue, mutex or condition variable: a connection is lent to one *)
(* thread at a time, comes back or is closed, and the server never sees    *)
(* more than PoolSize of them.                                             *)
(***************************************************************************)
EXTENDS Naturals, FiniteSets

CONSTANTS Thread,    \* threads that call the pool
          Conn,      \* MYSQL* handles
          PoolSize   \* poolSize_

VARIABLES lent,      \* the connections each thread owns
          spare      \* the connections that belong to the pool

vars == <<lent, spare>>

Lent == UNION {lent[t] : t \in Thread}
InUse == spare \cup Lent

Init == /\ lent = [t \in Thread |-> {}]
        /\ spare \in SUBSET Conn
        /\ Cardinality(spare) = PoolSize

\* getConnection returns a pooled connection.
Lend(t) == \E c \in spare :
    /\ lent' = [lent EXCEPT ![t] = @ \cup {c}]
    /\ spare' = spare \ {c}

\* getConnection returns a new connection, some dead ones being closed.
LendNew(t) == \E dead \in SUBSET spare : \E c \in Conn \ (InUse \ dead) :
    /\ lent' = [lent EXCEPT ![t] = @ \cup {c}]
    /\ spare' = spare \ dead
    /\ Cardinality((InUse \ dead) \cup {c}) <= PoolSize

\* releaseConnection queues the connection ...
TakeBack(t) == \E c \in lent[t] :
    /\ lent' = [lent EXCEPT ![t] = @ \ {c}]
    /\ spare' = spare \cup {c}

\* ... or closes it.
Retire(t) == \E c \in lent[t] :
    /\ lent' = [lent EXCEPT ![t] = @ \ {c}]
    /\ UNCHANGED spare

\* Pooled connections are closed: a failed validation, close().
Discard == /\ spare' \in SUBSET spare
           /\ UNCHANGED lent

Next == \/ \E t \in Thread : Lend(t) \/ LendNew(t) \/ TakeBack(t) \/ Retire(t)
        \/ Discard

Spec == Init /\ [][Next]_vars
=============================================================================
