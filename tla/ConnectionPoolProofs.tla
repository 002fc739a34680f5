------------------------ MODULE ConnectionPoolProofs ------------------------
(***************************************************************************)
(* Theorems about ConnectionPool, for every number of threads and every    *)
(* pool size.                                                              *)
(***************************************************************************)
EXTENDS ConnectionPool, FiniteSetTheorems, TLAPS

Control == TypeOK /\ CallDiscipline

(***************************************************************************)
(* Popping the front of the queue and pushing at its back.                 *)
(***************************************************************************)
LEMMA HeadTail ==
    ASSUME NEW q \in Seq(Conn), q # <<>>
    PROVE  /\ Head(q) \in Conn /\ Head(q) \in Elems(q)
           /\ Tail(q) \in Seq(Conn) /\ Len(Tail(q)) = Len(q) - 1
           /\ Elems(Tail(q)) \subseteq Elems(q)
           /\ Elems(q) \ {Head(q)} \subseteq Elems(Tail(q))
           /\ Injective(q) => Injective(Tail(q)) /\ Head(q) \notin Elems(Tail(q))
<1>1. /\ Len(q) \in Nat \ {0} /\ Head(q) = q[1]
      /\ \A i \in 1..Len(q) : q[i] \in Conn
  OBVIOUS
<1>2. /\ Tail(q) \in Seq(Conn) /\ Len(Tail(q)) = Len(q) - 1
      /\ \A i \in 1..(Len(q) - 1) : Tail(q)[i] = q[i + 1]
  OBVIOUS
<1>3. Elems(Tail(q)) \subseteq Elems(q)
  BY <1>1, <1>2 DEF Elems
<1>4. Elems(q) \ {Head(q)} \subseteq Elems(Tail(q))
  <2> SUFFICES ASSUME NEW i \in 1..Len(q), q[i] # Head(q)
               PROVE  q[i] \in Elems(Tail(q))
    BY DEF Elems
  <2>1. i # 1 /\ i - 1 \in 1..(Len(q) - 1)
    BY <1>1
  <2>2. Tail(q)[i - 1] = q[i]
    BY <1>1, <1>2, <2>1
  <2> QED
    BY <1>2, <2>1, <2>2 DEF Elems
<1>5. ASSUME Injective(q)
      PROVE  Injective(Tail(q)) /\ Head(q) \notin Elems(Tail(q))
  BY <1>1, <1>2, <1>5 DEF Injective, Elems
<1>6. Head(q) \in Conn /\ Head(q) \in Elems(q)
  BY <1>1 DEF Elems
<1> QED
  BY <1>2, <1>3, <1>4, <1>5, <1>6

LEMMA AppendBack ==
    ASSUME NEW q \in Seq(Conn), NEW c \in Conn
    PROVE  /\ Append(q, c) \in Seq(Conn) /\ Len(Append(q, c)) = Len(q) + 1
           /\ Elems(Append(q, c)) = Elems(q) \cup {c}
           /\ Injective(q) /\ c \notin Elems(q) => Injective(Append(q, c))
<1>1. /\ Append(q, c) \in Seq(Conn) /\ Len(q) \in Nat
      /\ Len(Append(q, c)) = Len(q) + 1
      /\ Append(q, c)[Len(q) + 1] = c
      /\ \A i \in 1..Len(q) : Append(q, c)[i] = q[i]
  OBVIOUS
<1>2. Elems(Append(q, c)) = Elems(q) \cup {c}
  BY <1>1 DEF Elems
<1>3. ASSUME Injective(q), c \notin Elems(q)
      PROVE  Injective(Append(q, c))
  BY <1>1, <1>3 DEF Injective, Elems
<1> QED
  BY <1>1, <1>2, <1>3

(***************************************************************************)
(* Types and control.                                                      *)
(***************************************************************************)
LEMMA ControlInit == Init => Control
<1> SUFFICES ASSUME Init PROVE Control
  OBVIOUS
<1>1. PoolSize \in Nat /\ idle \in Seq(Conn)
  BY PoolAssumption DEF Init
<1>2. TypeOK
  <2>1. age \in [Conn -> Age]
    BY DEF Init, Age
  <2>2. left \in [Thread -> 0..Retries]
    BY PoolAssumption DEF Init
  <2> QED
    BY <1>1, <2>1, <2>2 DEF Init, TypeOK
<1>3. CallDiscipline
  BY PoolAssumption DEF Init, CallDiscipline
<1> QED
  BY <1>2, <1>3 DEF Control

LEMMA ControlNext == Control /\ [Next]_vars => Control'
<1> SUFFICES ASSUME Control, [Next]_vars PROVE Control'
  OBVIOUS
<1> USE PoolAssumption DEF Control
<1>1. ASSUME NEW t \in Thread, Request(t) PROVE Control'
  <2>1. CASE stopped /\ ReturnNull(t)
    BY <1>1, <2>1 DEF Request, ReturnNull, At, envVars, TypeOK, CallDiscipline
  <2>2. CASE ~stopped /\ idle = <<>> /\ Sleep(t) /\ left' = [left EXCEPT ![t] = Retries]
    BY <1>1, <2>2 DEF Request, Sleep, At, envVars, TypeOK, CallDiscipline
  <2>3. CASE ~stopped /\ idle # <<>> /\ Take(t) /\ left' = [left EXCEPT ![t] = Retries]
    BY <1>1, <2>3, HeadTail DEF Request, Take, At, envVars, TypeOK, CallDiscipline
  <2> QED
    BY <1>1, <2>1, <2>2, <2>3 DEF Request
<1>2. ASSUME NEW t \in Thread, TimeUp(t) PROVE Control'
  BY <1>2 DEF TimeUp, At, poolVars, envVars, TypeOK, CallDiscipline
<1>3. ASSUME NEW t \in Thread, WaitOver(t) PROVE Control'
  <2>1. CASE idle # <<>> /\ Take(t)
    BY <1>3, <2>1, HeadTail
    DEF WaitOver, Take, ReturnNull, At, envVars, TypeOK, CallDiscipline
  <2>2. CASE t \notin retrying /\ ReturnNull(t)
    BY <1>3, <2>2 DEF WaitOver, ReturnNull, At, envVars, TypeOK, CallDiscipline
  <2>3. CASE t \in retrying /\ At(t, "retry") /\ mutex' = t
             /\ UNCHANGED <<idle, age, held, hand, stopped, retrying, left, envVars>>
    BY <1>3, <2>3 DEF WaitOver, At, envVars, TypeOK, CallDiscipline
  <2> QED
    BY <1>3, <2>1, <2>2, <2>3 DEF WaitOver
<1>4. ASSUME NEW t \in Thread, WaitAgain(t) PROVE Control'
  <2>1. TypeOK'
    BY <1>4 DEF WaitAgain, Sleep, At, envVars, TypeOK
  <2>2. CallDiscipline'
    BY <1>4 DEF WaitAgain, Sleep, At, envVars, TypeOK, CallDiscipline
  <2> QED
    BY <2>1, <2>2
<1>5. ASSUME NEW t \in Thread, WaitFailed(t) PROVE Control'
  <2>1. CASE ReturnNull(t)
    <3>1. TypeOK'
      BY <1>5, <2>1 DEF WaitFailed, ReturnNull, At, envVars, TypeOK
    <3>2. CallDiscipline'
      BY <1>5, <2>1 DEF WaitFailed, ReturnNull, At, envVars, TypeOK, CallDiscipline
    <3> QED
      BY <3>1, <3>2
  <2>2. CASE t \in retrying /\ At(t, "create")
             /\ UNCHANGED <<poolVars, retrying, left, envVars>>
    BY <1>5, <2>2 DEF WaitFailed, At, poolVars, envVars, TypeOK, CallDiscipline
  <2> QED
    BY <1>5, <2>1, <2>2 DEF WaitFailed
<1>6. ASSUME NEW t \in Thread, Create(t) PROVE Control'
  <2>1. CASE ReturnNull(t)
    <3>1. TypeOK'
      BY <1>6, <2>1 DEF Create, ReturnNull, At, envVars, TypeOK
    <3>2. CallDiscipline'
      BY <1>6, <2>1 DEF Create, ReturnNull, At, envVars, TypeOK, CallDiscipline
    <3> QED
      BY <3>1, <3>2
  <2>2. ASSUME NEW c \in Conn, HandOut(t, c),
               age' = [age EXCEPT ![c] = "recent"], UNCHANGED dropped
        PROVE  Control'
    <3>1. TypeOK'
      BY <1>6, <2>2 DEF HandOut, At, TypeOK, Age
    <3>2. CallDiscipline'
      BY <1>6, <2>2 DEF Create, HandOut, At, TypeOK, CallDiscipline
    <3> QED
      BY <3>1, <3>2
  <2> QED
    BY <1>6, <2>1, <2>2 DEF Create
<1>7. ASSUME NEW t \in Thread, Validate(t) PROVE Control'
  <2> DEFINE c == hand[t]
  <2>1. c \in Conn /\ mutex = t /\ pc[t] = "validate"
    BY <1>7 DEF Validate, TypeOK, CallDiscipline
  <2>2. ASSUME NEW n \in Conn, HandOut(t, n), age' \in [Conn -> Age],
               dropped' \in SUBSET Conn
        PROVE  Control'
    BY <2>1, <2>2 DEF HandOut, At, TypeOK, CallDiscipline
  <2>3. CASE age[c] # "old" /\ HandOut(t, c) /\ UNCHANGED <<age, dropped>>
    BY <2>1, <2>2, <2>3 DEF TypeOK
  <2>4. CASE HandOut(t, c) /\ age' = [age EXCEPT ![c] = "recent"]
             /\ UNCHANGED dropped
    BY <2>1, <2>2, <2>4 DEF TypeOK, Age
  <2>5. ASSUME NEW n \in Conn, HandOut(t, n),
               age' = [age EXCEPT ![c] = "old", ![n] = "recent"],
               dropped' = dropped \ {c}
        PROVE  Control'
    BY <2>2, <2>5 DEF TypeOK, Age
  <2>6. CASE /\ hand' = [hand EXCEPT ![t] = NoConn]
             /\ dropped' = dropped \ {c}
             /\ retrying' = retrying \cup {t}
             /\ At(t, "retry")
             /\ UNCHANGED <<idle, age, held, mutex, stopped, left, dbUp>>
    BY <2>1, <2>6 DEF At, TypeOK, CallDiscipline
  <2> QED
    BY <1>7, <2>3, <2>4, <2>5, <2>6 DEF Validate
<1>8. ASSUME NEW t \in Thread, Retry(t) PROVE Control'
  <2>1. CASE ReturnNull(t)
    BY <1>8, <2>1 DEF Retry, ReturnNull, At, envVars, TypeOK, CallDiscipline
  <2>2. CASE left[t] > 0 /\ left' = [left EXCEPT ![t] = @ - 1] /\ idle # <<>> /\ Take(t)
    BY <1>8, <2>2, HeadTail DEF Retry, Take, At, envVars, TypeOK, CallDiscipline
  <2>3. CASE left[t] > 0 /\ left' = [left EXCEPT ![t] = @ - 1] /\ Sleep(t)
    BY <1>8, <2>3 DEF Retry, Sleep, At, envVars, TypeOK, CallDiscipline
  <2>4. CASE left[t] > 0 /\ left' = [left EXCEPT ![t] = @ - 1]
             /\ UNCHANGED <<poolVars, pc, retrying, envVars>>
    BY <1>8, <2>4 DEF poolVars, envVars, TypeOK, CallDiscipline
  <2> QED
    BY <1>8, <2>1, <2>2, <2>3, <2>4 DEF Retry
<1>9. ASSUME NEW t \in Thread, Push(t) PROVE Control'
  <2>1. hand[t] \in Conn /\ pc[t] = "push" /\ mutex = NoThread
    BY <1>9 DEF Push, TypeOK, CallDiscipline
  <2>2. idle' \in Seq(Conn) /\ age' \in [Conn -> Age] /\ dropped' \in SUBSET Conn
    <3>1. Append(idle, hand[t]) \in Seq(Conn)
      BY <2>1 DEF TypeOK
    <3>2. idle' \in Seq(Conn)
      BY <1>9, <3>1 DEF Push, TypeOK
    <3>3. age' \in [Conn -> Age]
      BY <1>9, <2>1 DEF Push, TypeOK, Age
    <3>4. dropped' \in SUBSET Conn
      BY <1>9 DEF Push, TypeOK
    <3> QED
      BY <3>2, <3>3, <3>4
  <2>3. \/ At(t, "client")
        \/ \E w \in Asleep : pc' = [pc EXCEPT ![t] = "client", ![w] = "woken"]
    BY <1>9 DEF Push, NotifyOne
  <2> DEFINE Pcs == {"client", "asleep", "woken", "expired", "validate",
                     "retry", "create", "push"}
  <2>4. /\ pc' \in [Thread -> Pcs] /\ pc'[t] = "client"
        /\ \A u \in Thread \ {t} :
              pc'[u] # pc[u] => pc[u] = "asleep" /\ pc'[u] = "woken"
    <3>1. pc \in [Thread -> Pcs]
      BY DEF TypeOK
    <3>2. CASE pc' = [pc EXCEPT ![t] = "client"]
      BY <3>1, <3>2
    <3>3. ASSUME NEW w \in Thread \ {t}, pc[w] = "asleep",
                 pc' = [pc EXCEPT ![t] = "client", ![w] = "woken"]
          PROVE  /\ pc' \in [Thread -> Pcs] /\ pc'[t] = "client"
                 /\ \A u \in Thread \ {t} :
                       pc'[u] # pc[u] => pc[u] = "asleep" /\ pc'[u] = "woken"
      BY <3>1, <3>3
    <3> QED
      BY <2>1, <2>3, <3>2, <3>3 DEF At, Asleep
  <2>5. TypeOK'
    BY <1>9, <2>1, <2>2, <2>4 DEF Push, TypeOK
  <2>6. CallDiscipline'
    BY <1>9, <2>1, <2>4 DEF Push, TypeOK, CallDiscipline
  <2> QED
    BY <2>5, <2>6
<1>10. ASSUME NEW t \in Thread, NEW c \in held[t], Release(t, c) PROVE Control'
  <2>1. c \in Conn
    BY DEF TypeOK
  <2>2. TypeOK'
    BY <1>10, <2>1 DEF Release, At, TypeOK, Age
  <2>3. CallDiscipline'
    BY <1>10, <2>1, NoConn \notin Conn DEF Release, At, TypeOK, CallDiscipline
  <2> QED
    BY <2>2, <2>3
<1>11. CASE Close
  <2>1. idle' \in Seq(Conn) /\ age' \in [Conn -> Age] /\ dropped' \in SUBSET Conn
    BY <1>11 DEF Close, TypeOK, Age
  <2> QED
    BY <1>11, <2>1 DEF Close, NotifyAll, TypeOK, CallDiscipline
<1>12. CASE ServerDown
  <2>1. Live \subseteq Conn
    BY DEF Live, IdleSet, InHand, Held, Elems, TypeOK
  <2> QED
    BY <1>12, <2>1 DEF ServerDown, poolVars, callVars, TypeOK, CallDiscipline
<1>13. CASE ServerUp
  BY <1>13 DEF ServerUp, poolVars, callVars, TypeOK, CallDiscipline
<1>14. CASE Elapse
  BY <1>14 DEF Elapse, callVars, envVars, TypeOK, CallDiscipline, Age
<1>15. ASSUME NEW c \in Live \ dropped, Drop(c) PROVE Control'
  <2>1. Live \subseteq Conn
    BY DEF Live, IdleSet, InHand, Held, Elems, TypeOK
  <2> QED
    BY <1>15, <2>1 DEF Drop, poolVars, callVars, TypeOK, CallDiscipline
<1>16. CASE UNCHANGED vars
  BY <1>16 DEF vars, poolVars, callVars, envVars, TypeOK, CallDiscipline
<1> QED
  BY <1>1, <1>2, <1>3, <1>4, <1>5, <1>6, <1>7, <1>8, <1>9, <1>10, <1>11, <1>12,
     <1>13, <1>14, <1>15, <1>16 DEF Next, Step

\* Types and control of the pool, line by line of getConnection,
\* releaseConnection and close, for any number of threads and connections.
THEOREM ControlCorrect == Spec => [](TypeOK /\ CallDiscipline)
<1>1. Spec => []Control
  BY ControlInit, ControlNext, PTL DEF Spec
<1> QED
  BY <1>1, PTL DEF Control

\* The types alone: a queue of at most PoolSize entries with their ages, and
\* a retry count within its bound.
THEOREM TypeCorrect == Spec => []TypeOK
  BY ControlCorrect, PTL

(***************************************************************************)
(* Where the connections are: effect of the assignments to hand and held.  *)
(***************************************************************************)
LEMMA HandFill ==
    ASSUME TypeOK, NEW t \in Thread, NEW c \in Conn, hand[t] = NoConn,
           hand' = [hand EXCEPT ![t] = c]
    PROVE  InHand' = InHand \cup {c}
BY PoolAssumption DEF TypeOK, InHand

LEMMA HandClear ==
    ASSUME TypeOK, NoSharing, NEW t \in Thread,
           hand' = [hand EXCEPT ![t] = NoConn]
    PROVE  InHand' = InHand \ {hand[t]}
BY DEF TypeOK, InHand, NoSharing

LEMMA HeldAdd ==
    ASSUME TypeOK, NEW t \in Thread, NEW c,
           held' = [held EXCEPT ![t] = @ \cup {c}]
    PROVE  Held' = Held \cup {c}
<1>1. ASSUME NEW x \in Held' PROVE x \in Held \cup {c}
  BY <1>1 DEF TypeOK, Held
<1>2. ASSUME NEW x \in Held \cup {c} PROVE x \in Held'
  BY <1>2 DEF TypeOK, Held
<1> QED
  BY <1>1, <1>2

LEMMA HeldRemove ==
    ASSUME TypeOK, NoSharing, NEW t \in Thread, NEW c \in held[t],
           held' = [held EXCEPT ![t] = @ \ {c}]
    PROVE  Held' = Held \ {c}
<1>1. ASSUME NEW x \in Held' PROVE x \in Held \ {c}
  BY <1>1 DEF TypeOK, Held, NoSharing
<1>2. ASSUME NEW x \in Held \ {c} PROVE x \in Held'
  BY <1>2 DEF TypeOK, Held
<1> QED
  BY <1>1, <1>2

LEMMA LiveConn == TypeOK => Live \subseteq Conn
BY DEF Live, IdleSet, InHand, Held, Elems, TypeOK

\* Popping moves a connection from the queue into the hand of t.
LEMMA TakePlaces ==
    ASSUME TypeOK, NoSharing, NEW t \in Thread,
           hand[t] = NoConn, idle # <<>>, Take(t)
    PROVE  NoSharing' /\ Live' = Live
<1> DEFINE c == Head(idle)
<1>1. /\ c \in Conn /\ c \in IdleSet
      /\ IdleSet' = IdleSet \ {c} /\ Injective(idle')
  <2>1. idle \in Seq(Conn) /\ idle' = Tail(idle) /\ Injective(idle)
    BY DEF TypeOK, NoSharing, Take
  <2> QED
    BY <2>1, HeadTail DEF IdleSet
<1>2. InHand' = InHand \cup {c}
  BY <1>1, HandFill DEF Take
<1>3. held' = held /\ Held' = Held
  BY DEF Take, Held
<1>4. ASSUME NEW u \in Thread, NEW w \in Thread, u # w, hand'[u] = hand'[w]
      PROVE  hand'[u] = NoConn
  <2>1. \A v \in Thread : hand[v] # c
    BY <1>1, PoolAssumption DEF NoSharing, InHand
  <2> QED
    BY <1>4, <2>1 DEF Take, TypeOK, NoSharing
<1> QED
  BY <1>1, <1>2, <1>3, <1>4 DEF NoSharing, Live

\* Handing out c: it leaves the hand, or is a new connection, and is owned.
LEMMA HandOutPlaces ==
    ASSUME TypeOK, NoSharing, NEW t \in Thread, NEW c \in Conn, HandOut(t, c),
           c \notin IdleSet, c \notin Held, c \notin InHand \ {hand[t]}
    PROVE  NoSharing' /\ Live' = (Live \ {hand[t]}) \cup {c}
<1>1. idle' = idle /\ IdleSet' = IdleSet
  BY DEF HandOut, IdleSet
<1>2. InHand' = InHand \ {hand[t]}
  BY HandClear DEF HandOut
<1>3. Held' = Held \cup {c}
  BY HeldAdd DEF HandOut
<1>4. hand[t] \notin IdleSet /\ hand[t] \notin Held
  BY PoolAssumption, LiveConn DEF NoSharing, InHand, Live
<1>5. \A u, w \in Thread : u # w => held'[u] \cap held'[w] = {}
  BY DEF HandOut, TypeOK, NoSharing, Held
<1>6. \A u, w \in Thread : u # w => (hand'[u] = hand'[w] => hand'[u] = NoConn)
  BY DEF HandOut, TypeOK, NoSharing
<1> QED
  BY <1>1, <1>2, <1>3, <1>4, <1>5, <1>6 DEF NoSharing, Live

\* A step that keeps the queue, the hands and the owners.
LEMMA SamePlaces ==
    ASSUME NoSharing, idle' = idle, hand' = hand, held' = held
    PROVE  NoSharing' /\ Live' = Live
BY DEF NoSharing, Live, IdleSet, InHand, Held

(***************************************************************************)
(* Counting connections and lost ones.                                     *)
(***************************************************************************)
LEMMA Finite ==
    ASSUME TypeOK
    PROVE  /\ IsFiniteSet(Live) /\ Cardinality(Live) \in Nat
           /\ IsFiniteSet(retrying) /\ Cardinality(retrying) \in Nat
<1>1. IsFiniteSet(Live) /\ IsFiniteSet(retrying)
  BY PoolAssumption, LiveConn, FS_Subset DEF TypeOK
<1> QED
  BY <1>1, FS_CardinalityType

LEMMA CountShrink ==
    ASSUME TypeOK, Live' \subseteq Live, retrying' \subseteq retrying
    PROVE  Capacity' <= Capacity
<1>1. Cardinality(Live') <= Cardinality(Live) /\ IsFiniteSet(Live')
  BY Finite, FS_Subset
<1>2. Cardinality(retrying') <= Cardinality(retrying) /\ IsFiniteSet(retrying')
  BY Finite, FS_Subset
<1>3. Cardinality(Live') \in Nat /\ Cardinality(retrying') \in Nat
  BY <1>1, <1>2, FS_CardinalityType
<1> QED
  BY <1>1, <1>2, <1>3, Finite DEF Capacity

LEMMA AddOne ==
    ASSUME NEW S, NEW x, IsFiniteSet(S)
    PROVE  /\ Cardinality(S) \in Nat /\ Cardinality(S \cup {x}) \in Nat
           /\ Cardinality(S \cup {x}) <= Cardinality(S) + 1
<1>1. IsFiniteSet(S \cup {x})
  BY FS_AddElement
<1>2. Cardinality(S) \in Nat /\ Cardinality(S \cup {x}) \in Nat
  BY <1>1, FS_CardinalityType
<1>3. Cardinality(S \cup {x}) =
         IF x \in S THEN Cardinality(S) ELSE Cardinality(S) + 1
  BY FS_AddElement
<1> QED
  BY <1>2, <1>3

\* A dead connection is replaced.
LEMMA CountSwap ==
    ASSUME TypeOK, NEW c \in Live, NEW n,
           Live' = (Live \ {c}) \cup {n}, retrying' \subseteq retrying
    PROVE  Capacity' <= Capacity
<1>1. IsFiniteSet(Live \ {c}) /\ Cardinality(Live \ {c}) = Cardinality(Live) - 1
  BY Finite, FS_RemoveElement
<1>2. /\ Cardinality(Live') \in Nat
      /\ Cardinality(Live') <= Cardinality(Live)
  <2>1. /\ Cardinality(Live') \in Nat
        /\ Cardinality(Live') <= Cardinality(Live \ {c}) + 1
    BY <1>1, AddOne
  <2> QED
    BY <1>1, <2>1, Finite
<1>3. IsFiniteSet(retrying') /\ Cardinality(retrying') <= Cardinality(retrying)
  BY Finite, FS_Subset
<1>4. Cardinality(retrying') \in Nat
  BY <1>3, FS_CardinalityType
<1> QED
  BY <1>2, <1>3, <1>4, Finite DEF Capacity

\* A dead connection is lost: its thread may open another one later.
LEMMA CountLose ==
    ASSUME TypeOK, NEW c \in Live, NEW t,
           Live' = Live \ {c}, retrying' = retrying \cup {t}
    PROVE  Capacity' <= Capacity
<1>1. Cardinality(Live') = Cardinality(Live) - 1
  BY Finite, FS_RemoveElement
<1>2. Cardinality(retrying') <= Cardinality(retrying) + 1
      /\ Cardinality(retrying') \in Nat
  BY Finite, AddOne
<1> QED
  BY <1>1, <1>2, Finite DEF Capacity

\* ... which it does here.
LEMMA CountOpen ==
    ASSUME TypeOK, NEW t \in retrying, NEW n,
           Live' = Live \cup {n}, retrying' = retrying \ {t}
    PROVE  Capacity' <= Capacity
<1>1. /\ Cardinality(Live') <= Cardinality(Live) + 1
      /\ Cardinality(Live') \in Nat
  BY Finite, AddOne
<1>2. Cardinality(retrying') = Cardinality(retrying) - 1
  BY Finite, FS_RemoveElement
<1> QED
  BY <1>1, <1>2, Finite DEF Capacity

(***************************************************************************)
(* No sharing, and no more than PoolSize connections.                      *)
(***************************************************************************)
Placed == NoSharing /\ LiveBounded

LEMMA PlacedInit == Init => Placed
<1> SUFFICES ASSUME Init PROVE Placed
  OBVIOUS
<1> USE PoolAssumption
<1>1. InHand = {} /\ Held = {} /\ IdleSet = Live
  BY DEF Init, InHand, Held, Live
<1>2. Len(idle) = PoolSize /\ IdleSet = {idle[i] : i \in 1..PoolSize}
  BY DEF Init, IdleSet, Elems
<1>3. NoSharing
  BY <1>1 DEF Init, NoSharing
<1>4. idle \in Surjection(1..PoolSize, IdleSet)
  BY <1>2 DEF Init, Surjection
<1>5. IsFiniteSet(IdleSet) /\ Cardinality(IdleSet) <= PoolSize
  BY <1>4, FS_Interval, FS_Surjection
<1>6. Cardinality(IdleSet) \in Nat
  BY <1>5, FS_CardinalityType
<1>7. LiveBounded
  BY <1>1, <1>5, <1>6, FS_EmptySet DEF Init, LiveBounded, Capacity
<1> QED
  BY <1>3, <1>7 DEF Placed

\* What every step does to them: no two places, and no more than there were
\* open or due to be opened.
Moved == NoSharing' /\ Capacity' <= Capacity

\* Steps that move no connection and record no loss.
LEMMA MovedSame ==
    ASSUME Control, NoSharing, idle' = idle, hand' = hand, held' = held,
           retrying' \subseteq retrying
    PROVE  Moved
<1>1. NoSharing' /\ Live' = Live
  BY SamePlaces DEF Moved
<1> QED
  BY <1>1, CountShrink DEF Moved, Control

\* Steps that pop.
LEMMA MovedTake ==
    ASSUME Control, NoSharing, NEW t \in Thread, pc[t] \notin {"validate", "push"},
           idle # <<>>, Take(t)
    PROVE  Moved
<1>1. hand[t] = NoConn
  BY DEF Control, CallDiscipline
<1>2. NoSharing' /\ Live' = Live /\ retrying' = retrying
  BY <1>1, TakePlaces DEF Moved, Control, Take
<1> QED
  BY <1>2, CountShrink DEF Moved, Control

LEMMA MovedNext == Control /\ NoSharing /\ [Next]_vars => Moved
<1> SUFFICES ASSUME Control, NoSharing, [Next]_vars PROVE Moved
  OBVIOUS
<1>0. TypeOK /\ CallDiscipline /\ NoSharing
  BY DEF Control, NoSharing
<1>1. ASSUME NEW t \in Thread, Request(t) PROVE Moved
  BY <1>1, MovedSame, MovedTake DEF Request, ReturnNull, Sleep
<1>2. ASSUME NEW t \in Thread, TimeUp(t) PROVE Moved
  BY <1>2, MovedSame DEF TimeUp, poolVars
<1>3. ASSUME NEW t \in Thread, WaitOver(t) PROVE Moved
  BY <1>3, MovedSame, MovedTake DEF WaitOver, ReturnNull
<1>4. ASSUME NEW t \in Thread, WaitAgain(t) PROVE Moved
  BY <1>4, MovedSame DEF WaitAgain, Sleep
<1>5. ASSUME NEW t \in Thread, WaitFailed(t) PROVE Moved
  BY <1>5, MovedSame DEF WaitFailed, ReturnNull, poolVars
<1>6. ASSUME NEW t \in Thread, Create(t) PROVE Moved
  <2>1. CASE ReturnNull(t)
    BY <2>1, MovedSame DEF ReturnNull
  <2>2. ASSUME NEW c \in Conn \ Live, HandOut(t, c) PROVE Moved
    <3>1. hand[t] = NoConn /\ t \in retrying
      BY <1>0, <1>6 DEF Create, CallDiscipline
    <3>2. NoSharing' /\ Live' = (Live \ {NoConn}) \cup {c}
      BY <1>0, <2>2, <3>1, HandOutPlaces DEF Live
    <3>3. Live' = Live \cup {c}
      BY <1>0, <3>2, LiveConn, PoolAssumption
    <3>4. Capacity' <= Capacity
      BY <1>0, <2>2, <3>1, <3>3, CountOpen DEF HandOut
    <3> QED
      BY <3>2, <3>4 DEF Moved
  <2> QED
    BY <1>6, <2>1, <2>2 DEF Create
<1>7. ASSUME NEW t \in Thread, Validate(t) PROVE Moved
  <2> DEFINE c == hand[t]
  <2>1. /\ c \in Conn /\ c \in InHand /\ c \in Live
        /\ c \notin IdleSet /\ c \notin Held
    BY <1>0, <1>7, PoolAssumption
    DEF Validate, TypeOK, CallDiscipline, NoSharing, InHand, Live
  <2>2. CASE HandOut(t, c)
    <3>1. NoSharing' /\ Live' = (Live \ {c}) \cup {c}
      BY <1>0, <2>1, <2>2, HandOutPlaces
    <3>2. Live' = Live
      BY <2>1, <3>1
    <3> QED
      BY <1>0, <2>2, <3>1, <3>2, CountShrink DEF HandOut, Moved
  <2>3. ASSUME NEW n \in Conn \ (Live \ {c}), HandOut(t, n) PROVE Moved
    <3>1. n \notin IdleSet /\ n \notin Held /\ n \notin InHand \ {c}
      BY <2>1, <2>3 DEF Live
    <3>2. NoSharing' /\ Live' = (Live \ {c}) \cup {n}
      BY <1>0, <2>3, <3>1, HandOutPlaces
    <3> QED
      BY <1>0, <2>1, <2>3, <3>2, CountSwap DEF HandOut, Moved
  <2>4. CASE /\ hand' = [hand EXCEPT ![t] = NoConn]
             /\ retrying' = retrying \cup {t}
             /\ UNCHANGED <<idle, held>>
    <3>1. InHand' = InHand \ {c} /\ IdleSet' = IdleSet /\ Held' = Held
      BY <1>0, <2>4, HandClear DEF IdleSet, Held
    <3>2. Live' = Live \ {c}
      BY <2>1, <3>1 DEF Live
    <3>3. \A u, w \in Thread : u # w => (hand'[u] = hand'[w] => hand'[u] = NoConn)
      BY <1>0, <2>4 DEF TypeOK, NoSharing
    <3>4. NoSharing'
      BY <1>0, <2>4, <3>1, <3>3 DEF NoSharing
    <3> QED
      BY <1>0, <2>1, <2>4, <3>2, <3>4, CountLose DEF Moved
  <2> QED
    BY <1>7, <2>2, <2>3, <2>4 DEF Validate
<1>8. ASSUME NEW t \in Thread, Retry(t) PROVE Moved
  BY <1>8, MovedSame, MovedTake DEF Retry, ReturnNull, Sleep, poolVars
<1>9. ASSUME NEW t \in Thread, Push(t) PROVE Moved
  <2> DEFINE c == hand[t]
  <2>1. /\ c \in Conn /\ c \in InHand /\ c \in Live
        /\ c \notin IdleSet /\ c \notin Held
    <3>1. pc[t] = "push"
      BY <1>9 DEF Push
    <3> QED
      BY <1>0, <3>1, PoolAssumption
      DEF TypeOK, CallDiscipline, NoSharing, InHand, Live
  <2>2. InHand' = InHand \ {c} /\ Held' = Held /\ held' = held
    <3>1. hand' = [hand EXCEPT ![t] = NoConn] /\ held' = held
      BY <1>9 DEF Push
    <3> QED
      BY <1>0, <3>1, HandClear DEF Held
  <2>3. \A u, w \in Thread : u # w => (hand'[u] = hand'[w] => hand'[u] = NoConn)
    BY <1>0, <1>9 DEF Push, TypeOK, NoSharing
  <2>4. \/ idle' = idle /\ IdleSet' = IdleSet
        \/ idle' = Append(idle, c) /\ IdleSet' = IdleSet \cup {c}
    BY <1>0, <1>9, <2>1, AppendBack DEF Push, IdleSet, TypeOK
  <2>5. Injective(idle')
    BY <1>0, <2>1, <2>4, AppendBack DEF NoSharing, TypeOK, IdleSet
  <2>6. NoSharing' /\ Live' \subseteq Live
    BY <1>0, <2>1, <2>2, <2>3, <2>4, <2>5 DEF NoSharing, Live
  <2> QED
    BY <1>0, <1>9, <2>6, CountShrink DEF Push, Moved
<1>10. ASSUME NEW t \in Thread, NEW c \in held[t], Release(t, c) PROVE Moved
  <2>1. /\ c \in Conn /\ c \in Held /\ c \in Live
        /\ c \notin IdleSet /\ c \notin InHand
    BY <1>0 DEF TypeOK, NoSharing, Held, Live
  <2>2. Held' = Held \ {c} /\ idle' = idle /\ IdleSet' = IdleSet
    BY <1>0, <1>10, HeldRemove DEF Release, IdleSet
  <2>3. \A u, w \in Thread : u # w => held'[u] \cap held'[w] = {}
    BY <1>0, <1>10 DEF Release, TypeOK, NoSharing
  <2>4. CASE hand' = hand
    <3>1. InHand' = InHand
      BY <2>4 DEF InHand
    <3>2. NoSharing' /\ Live' \subseteq Live
      BY <1>0, <2>1, <2>2, <2>3, <2>4, <3>1 DEF NoSharing, Live
    <3> QED
      BY <1>0, <1>10, <3>2, CountShrink DEF Release, Moved
  <2>5. CASE hand' = [hand EXCEPT ![t] = c]
    <3>1. hand[t] = NoConn
      BY <1>0, <1>10 DEF Release, CallDiscipline
    <3>2. InHand' = InHand \cup {c}
      BY <1>0, <2>1, <2>5, <3>1, HandFill
    <3>3. \A u, w \in Thread : u # w => (hand'[u] = hand'[w] => hand'[u] = NoConn)
      BY <1>0, <2>1, <2>5, <3>1, PoolAssumption DEF TypeOK, NoSharing, InHand
    <3>4. NoSharing' /\ Live' \subseteq Live
      BY <1>0, <2>1, <2>2, <2>3, <3>2, <3>3 DEF NoSharing, Live
    <3> QED
      BY <1>0, <1>10, <3>4, CountShrink DEF Release, Moved
  <2> QED
    BY <1>10, <2>4, <2>5 DEF Release
<1>11. CASE Close
  <2>1. idle' = <<>> /\ hand' = hand /\ held' = held /\ retrying' = retrying
    BY <1>11 DEF Close
  <2>2. IdleSet' = {} /\ Injective(idle') /\ InHand' = InHand /\ Held' = Held
    BY <2>1 DEF IdleSet, Elems, Injective, InHand, Held
  <2>3. NoSharing' /\ Live' \subseteq Live
    BY <1>0, <2>1, <2>2 DEF NoSharing, Live
  <2> QED
    BY <1>0, <2>1, <2>3, CountShrink DEF Moved
<1>12. CASE ServerDown \/ ServerUp \/ Elapse \/ UNCHANGED vars
  BY <1>12, MovedSame
  DEF ServerDown, ServerUp, Elapse, vars, poolVars, callVars
<1>13. ASSUME NEW c \in Live \ dropped, Drop(c) PROVE Moved
  BY <1>13, MovedSame DEF Drop, poolVars, callVars
<1> QED
  BY <1>1, <1>2, <1>3, <1>4, <1>5, <1>6, <1>7, <1>8, <1>9, <1>10, <1>11, <1>12,
     <1>13 DEF Next, Step

LEMMA CapacityNat == TypeOK => Capacity \in Nat
BY Finite DEF Capacity

LEMMA PlacedNext == Control /\ Placed /\ [Next]_vars => Placed'
<1> SUFFICES ASSUME Control, Placed, [Next]_vars PROVE Placed'
  OBVIOUS
<1>1. Control'
  BY ControlNext
<1>2. (TypeOK => Capacity \in Nat)'
  BY CapacityNat, PTL
<1>3. Capacity \in Nat /\ Capacity' \in Nat
  BY <1>1, <1>2, CapacityNat DEF Control
<1> QED
  BY <1>3, MovedNext, PoolAssumption DEF Placed, Moved, LiveBounded

\* No connection is ever in two places, for any number of threads.
THEOREM NoSharingCorrect == Spec => []NoSharing
<1>1. Spec => [](Control /\ Placed)
  BY ControlInit, ControlNext, PlacedInit, PlacedNext, PTL DEF Spec
<1> QED
  BY <1>1, PTL DEF Placed

\* The pool never has more than poolSize_ connections open.
THEOREM LiveBoundedCorrect == Spec => []LiveBounded
<1>1. Spec => [](Control /\ Placed)
  BY ControlInit, ControlNext, PlacedInit, PlacedNext, PTL DEF Spec
<1> QED
  BY <1>1, PTL DEF Placed

\* The connections that are open, with those some thread may still open,
\* only ever get fewer: what an outage costs is lost for good.
THEOREM CapacityNeverGrowsCorrect == Spec => CapacityNeverGrows
<1>1. Control /\ Placed /\ [Next]_vars => [Capacity' <= Capacity]_vars
  BY MovedNext DEF Placed, Moved
<1> QED
  BY <1>1, ControlInit, ControlNext, PlacedInit, PlacedNext, PTL
  DEF Spec, CapacityNeverGrows

\* Once every connection is gone and no thread is left to open one, nobody
\* is ever given one again, however long the server has been up.
THEOREM DrainedForGoodCorrect == Spec => DrainedForGood
<1>1. Control /\ Placed /\ [Next]_vars /\ Drained => Drained'
  <2> SUFFICES ASSUME Control, Placed, [Next]_vars, Drained PROVE Drained'
    OBVIOUS
  <2>1. Control' /\ Capacity' <= Capacity
    BY ControlNext, MovedNext DEF Placed, Moved
  <2>2. Capacity = 0
    BY FS_EmptySet DEF Drained, Capacity
  <2>3. (TypeOK => /\ IsFiniteSet(Live) /\ Cardinality(Live) \in Nat
                   /\ IsFiniteSet(retrying) /\ Cardinality(retrying) \in Nat)'
    BY Finite, PTL
  <2>4. Cardinality(Live') = 0 /\ Cardinality(retrying') = 0
    BY <2>1, <2>2, <2>3 DEF Control, Capacity
  <2> QED
    BY <2>1, <2>3, <2>4, FS_EmptySet DEF Control, Drained
<1> QED
  BY <1>1, ControlInit, ControlNext, PlacedInit, PlacedNext, PTL
  DEF Spec, DrainedForGood

(***************************************************************************)
(* No wakeup is lost.                                                      *)
(***************************************************************************)
LEMMA AwakeFinite == IsFiniteSet(Awake) /\ Cardinality(Awake) \in Nat
<1>1. IsFiniteSet(Awake)
  BY PoolAssumption, FS_Subset DEF Awake
<1> QED
  BY <1>1, FS_CardinalityType

LEMMA AwakeFinitePrime == IsFiniteSet(Awake') /\ Cardinality(Awake') \in Nat
<1>1. IsFiniteSet(Awake')
  BY PoolAssumption, FS_Subset DEF Awake
<1> QED
  BY <1>1, FS_CardinalityType

\* The queue of an open pool is empty after the step.
LEMMA WakeEmpty ==
    ASSUME idle' = <<>>, ~stopped'
    PROVE  NoLostWakeup'
BY AwakeFinitePrime DEF NoLostWakeup

\* Nobody falls asleep, nobody awake leaves, nothing is queued.
LEMMA WakeMore ==
    ASSUME TypeOK, NoLostWakeup, Asleep' \subseteq Asleep,
           Awake \subseteq Awake', idle' = idle, stopped' = stopped
    PROVE  NoLostWakeup'
<1>1. Cardinality(Awake) <= Cardinality(Awake')
  BY AwakeFinitePrime, FS_Subset
<1>2. Len(idle) \in Nat
  BY DEF TypeOK
<1> QED
  BY <1>1, <1>2, AwakeFinite, AwakeFinitePrime DEF NoLostWakeup

\* A connection is popped, by a thread awake or by a newcomer.
LEMMA WakeTake ==
    ASSUME TypeOK, NoLostWakeup, NEW t \in Thread, pc[t] # "asleep",
           idle # <<>>, Take(t)
    PROVE  NoLostWakeup'
<1>1. /\ Len(idle') = Len(idle) - 1 /\ Len(idle) \in Nat
      /\ stopped' = stopped
  BY HeadTail DEF TypeOK, Take
<1>2. Asleep' = Asleep /\ Awake' = Awake \ {t}
  BY DEF Take, At, TypeOK, Asleep, Awake
<1>3. Cardinality(Awake') =
         IF t \in Awake THEN Cardinality(Awake) - 1 ELSE Cardinality(Awake)
  BY <1>2, AwakeFinite, FS_RemoveElement
<1> QED
  BY <1>1, <1>2, <1>3, AwakeFinite DEF NoLostWakeup

LEMMA WakeReturn ==
    ASSUME TypeOK, NoLostWakeup, NEW t \in Thread, stopped' = stopped, idle' = idle,
           pc[t] \notin {"asleep", "woken", "expired"} \/ idle = <<>> \/ stopped,
           NEW step \in {"client", "retry", "create", "push"}, At(t, step)
    PROVE  NoLostWakeup'
<1>1. Asleep' \subseteq Asleep
  BY DEF At, TypeOK, Asleep
<1>2. CASE pc[t] \notin {"asleep", "woken", "expired"}
  <2>1. Awake' = Awake
    BY <1>2 DEF At, TypeOK, Awake
  <2> QED
    BY <1>1, <2>1, WakeMore
<1>3. CASE idle = <<>>
  BY <1>1, <1>3, AwakeFinitePrime DEF NoLostWakeup
<1>4. CASE stopped
  BY <1>1, <1>4 DEF NoLostWakeup
<1> QED
  BY <1>2, <1>3, <1>4

LEMMA WakeupInit == Init => NoLostWakeup
BY DEF Init, NoLostWakeup, Asleep

LEMMA WakeupNext == Control /\ NoLostWakeup /\ [Next]_vars => NoLostWakeup'
<1> SUFFICES ASSUME Control, NoLostWakeup, [Next]_vars PROVE NoLostWakeup'
  OBVIOUS
<1>0. TypeOK /\ CallDiscipline
  BY DEF Control
<1>1. ASSUME NEW t \in Thread, Request(t) PROVE NoLostWakeup'
  <2>1. CASE ReturnNull(t)
    BY <1>0, <1>1, <2>1, WakeReturn DEF Request, ReturnNull
  <2>2. CASE idle = <<>> /\ ~stopped /\ Sleep(t)
    BY <2>2, WakeEmpty DEF Sleep
  <2>3. CASE idle # <<>> /\ Take(t)
    BY <1>0, <1>1, <2>3, WakeTake DEF Request
  <2> QED
    BY <1>1, <2>1, <2>2, <2>3 DEF Request
<1>2. ASSUME NEW t \in Thread, TimeUp(t) PROVE NoLostWakeup'
  <2>1. Asleep' \subseteq Asleep /\ Awake \subseteq Awake'
    BY <1>0, <1>2 DEF TimeUp, At, TypeOK, Asleep, Awake
  <2> QED
    BY <1>0, <1>2, <2>1, WakeMore DEF TimeUp, poolVars
<1>3. ASSUME NEW t \in Thread, WaitOver(t) PROVE NoLostWakeup'
  <2>1. CASE idle # <<>> /\ Take(t)
    BY <1>0, <1>3, <2>1, WakeTake DEF WaitOver
  <2>2. CASE stopped /\ ReturnNull(t)
    BY <1>0, <2>2, WakeReturn DEF ReturnNull
  <2>3. CASE stopped /\ At(t, "retry") /\ idle' = idle /\ stopped' = stopped
    BY <1>0, <2>3, WakeReturn
  <2> QED
    BY <1>3, <2>1, <2>2, <2>3 DEF WaitOver
<1>4. ASSUME NEW t \in Thread, WaitAgain(t) PROVE NoLostWakeup'
  BY <1>4, WakeEmpty DEF WaitAgain, Sleep
<1>5. ASSUME NEW t \in Thread, WaitFailed(t) PROVE NoLostWakeup'
  BY <1>5, WakeEmpty DEF WaitFailed, ReturnNull, poolVars
<1>6. ASSUME NEW t \in Thread, Create(t) PROVE NoLostWakeup'
  BY <1>0, <1>6, WakeReturn DEF Create, ReturnNull, HandOut
<1>7. ASSUME NEW t \in Thread, Validate(t) PROVE NoLostWakeup'
  <2>1. At(t, "client") \/ At(t, "retry")
    BY <1>7 DEF Validate, HandOut
  <2>2. pc[t] = "validate" /\ idle' = idle /\ stopped' = stopped
    BY <1>7 DEF Validate, HandOut
  <2> QED
    BY <1>0, <2>1, <2>2, WakeReturn
<1>8. ASSUME NEW t \in Thread, Retry(t) PROVE NoLostWakeup'
  <2>1. CASE ReturnNull(t)
    BY <1>0, <1>8, <2>1, WakeReturn DEF Retry, ReturnNull
  <2>2. CASE idle # <<>> /\ Take(t)
    BY <1>0, <1>8, <2>2, WakeTake DEF Retry
  <2>3. CASE idle = <<>> /\ ~stopped /\ Sleep(t)
    BY <2>3, WakeEmpty DEF Sleep
  <2>4. CASE UNCHANGED <<poolVars, pc>>
    BY <1>0, <2>4, WakeMore DEF poolVars, Asleep, Awake
  <2> QED
    BY <1>8, <2>1, <2>2, <2>3, <2>4 DEF Retry
<1>9. ASSUME NEW t \in Thread, Push(t) PROVE NoLostWakeup'
  <2>1. pc[t] = "push" /\ stopped' = stopped
    BY <1>9 DEF Push
  <2>2. CASE idle' = idle /\ At(t, "client")
    BY <1>0, <2>1, <2>2, WakeReturn
  <2>3. CASE Asleep = {} /\ At(t, "client")
    <3>1. Asleep' = {}
      BY <1>0, <2>3 DEF At, TypeOK, Asleep
    <3> QED
      BY <3>1 DEF NoLostWakeup
  <2>4. ASSUME NEW w \in Asleep, idle' = Append(idle, hand[t]),
               pc' = [pc EXCEPT ![t] = "client", ![w] = "woken"]
        PROVE  NoLostWakeup'
    <3>1. w \notin Awake /\ Awake' = Awake \cup {w}
      BY <1>0, <2>1, <2>4 DEF TypeOK, Asleep, Awake
    <3>2. Cardinality(Awake') =
             IF w \in Awake THEN Cardinality(Awake) ELSE Cardinality(Awake) + 1
      BY <3>1, AwakeFinite, FS_AddElement
    <3>3. Len(idle') = Len(idle) + 1 /\ Len(idle) \in Nat
      <4>1. idle \in Seq(Conn) /\ hand[t] \in Conn
        BY <1>0, <2>1 DEF TypeOK, CallDiscipline
      <4> QED
        BY <2>4, <4>1, AppendBack
    <3> QED
      BY <2>1, <2>4, <3>1, <3>2, <3>3, AwakeFinite DEF NoLostWakeup
  <2> QED
    BY <1>9, <2>2, <2>3, <2>4 DEF Push, NotifyOne
<1>10. ASSUME NEW t \in Thread, NEW c \in held[t], Release(t, c) PROVE NoLostWakeup'
  <2>1. CASE UNCHANGED <<idle, stopped, pc>>
    BY <1>0, <2>1, WakeMore DEF Asleep, Awake
  <2>2. CASE At(t, "push")
    BY <1>0, <1>10, <2>2, WakeReturn DEF Release
  <2> QED
    BY <1>10, <2>1, <2>2 DEF Release
<1>11. CASE Close
  <2>1. Asleep' = {}
    BY <1>11 DEF Close, NotifyAll, Asleep
  <2> QED
    BY <2>1 DEF NoLostWakeup
<1>12. CASE UNCHANGED <<idle, stopped, pc>>
  BY <1>0, <1>12, WakeMore DEF Asleep, Awake
<1> QED
  BY <1>1, <1>2, <1>3, <1>4, <1>5, <1>6, <1>7, <1>8, <1>9, <1>10, <1>11, <1>12
  DEF Next, Step, ServerDown, ServerUp, Elapse, Drop, vars, poolVars, callVars

\* While a thread sleeps on cv_, every queued connection has a thread awake
\* that comes for it: notify_one per release is enough.
THEOREM NoLostWakeupCorrect == Spec => []NoLostWakeup
BY ControlInit, ControlNext, WakeupInit, WakeupNext, PTL DEF Spec

(***************************************************************************)
(* After close.                                                            *)
(***************************************************************************)
LEMMA OnlyHandOutLends ==
    ASSUME Control, [Next]_vars, stopped, NEW t \in Thread, t \notin retrying
    PROVE  held'[t] \subseteq held[t]
<1>0. TypeOK /\ CallDiscipline
  BY DEF Control
<1> USE <1>0
<1>1. CASE held' = held
  BY <1>1
<1>2. ASSUME NEW u \in Thread, NEW c, HandOut(u, c), u \in retrying
      PROVE  held'[t] \subseteq held[t]
  BY <1>2 DEF HandOut, TypeOK
<1>3. ASSUME NEW u \in Thread, Validate(u) PROVE held'[t] \subseteq held[t]
  <2>1. u \in retrying
    BY <1>3 DEF Validate, CallDiscipline
  <2> QED
    BY <1>1, <1>2, <1>3, <2>1 DEF Validate
<1>4. ASSUME NEW u \in Thread, Create(u) PROVE held'[t] \subseteq held[t]
  <2>1. u \in retrying
    BY <1>4 DEF Create, CallDiscipline
  <2> QED
    BY <1>1, <1>2, <1>4, <2>1 DEF Create, ReturnNull
<1>5. ASSUME NEW u \in Thread, NEW c \in held[u], Release(u, c)
      PROVE  held'[t] \subseteq held[t]
  BY <1>5 DEF Release, TypeOK
<1>6. ASSUME NEW u \in Thread,
             \/ Request(u) \/ TimeUp(u) \/ WaitOver(u) \/ WaitAgain(u)
             \/ WaitFailed(u) \/ Retry(u) \/ Push(u)
      PROVE  held' = held
  BY <1>6 DEF Request, TimeUp, WaitOver, WaitAgain, WaitFailed, Retry, Push,
              Take, Sleep, ReturnNull, poolVars
<1> QED
  BY <1>1, <1>3, <1>4, <1>5, <1>6
  DEF Next, Step, Close, ServerDown, ServerUp, Elapse, Drop, vars, poolVars, callVars

\* After close only a call already in its retry loop is given a connection.
THEOREM AfterCloseCorrect == Spec => AfterCloseOnlyRetries
<1>1. Control /\ [Next]_vars =>
        [stopped => \A t \in Thread : held'[t] \subseteq held[t] \/ t \in retrying]_vars
  BY OnlyHandOutLends
<1> QED
  BY <1>1, ControlInit, ControlNext, PTL DEF Spec, AfterCloseOnlyRetries

(***************************************************************************)
(* The retries of a call.                                                  *)
(***************************************************************************)
RunsDown(t) ==
    pc[t] # "client" /\ pc'[t] # "client" =>
        /\ left'[t] <= left[t]
        /\ pc[t] = "retry" /\ pc'[t] # "retry" => left'[t] < left[t]

LEMMA RunsDownNext ==
    ASSUME Control, [Next]_vars, NEW t \in Thread
    PROVE  RunsDown(t)
<1>0. TypeOK /\ CallDiscipline /\ left[t] \in Nat
  BY PoolAssumption DEF Control, TypeOK
<1>1. CASE left' = left /\ (pc[t] = "retry" => pc'[t] = "retry")
  BY <1>0, <1>1 DEF RunsDown
<1>2. CASE pc'[t] = "client"
  BY <1>2 DEF RunsDown
<1>3. ASSUME NEW u \in Thread, Request(u) PROVE RunsDown(t)
  <2>1. pc[u] = "client" /\ \A v \in Thread \ {u} : pc'[v] = pc[v] /\ left'[v] = left[v]
    BY <1>0, <1>3 DEF Request, ReturnNull, Sleep, Take, At, TypeOK
  <2> QED
    BY <1>0, <2>1 DEF RunsDown
<1>4. ASSUME NEW u \in Thread, Retry(u) PROVE RunsDown(t)
  <2>1. \A v \in Thread \ {u} : pc'[v] = pc[v] /\ left'[v] = left[v]
    BY <1>0, <1>4 DEF Retry, ReturnNull, Sleep, Take, At, TypeOK
  <2>2. pc'[u] = "client" \/ left'[u] = left[u] - 1
    BY <1>0, <1>4 DEF Retry, ReturnNull, At, TypeOK
  <2> QED
    BY <1>0, <2>1, <2>2 DEF RunsDown
<1>5. ASSUME NEW u \in Thread,
             \/ WaitOver(u) \/ WaitFailed(u) \/ Create(u) \/ Validate(u)
      PROVE  RunsDown(t)
  <2>1. pc[u] # "retry" /\ \A v \in Thread \ {u} : pc'[v] = pc[v] /\ left'[v] = left[v]
    BY <1>0, <1>5
    DEF WaitOver, WaitFailed, Create, Validate, ReturnNull, Take, HandOut, At, TypeOK
  <2>2. pc'[u] = "client" \/ left' = left
    BY <1>0, <1>5
    DEF WaitOver, WaitFailed, Create, Validate, ReturnNull, Take, HandOut, At, TypeOK
  <2> QED
    BY <1>0, <2>1, <2>2 DEF RunsDown
<1>6. ASSUME NEW u \in Thread, TimeUp(u) \/ WaitAgain(u) \/ Push(u)
      PROVE  RunsDown(t)
  <2>1. left' = left
    BY <1>6 DEF TimeUp, WaitAgain, Push
  <2>2. pc[t] = "retry" => pc'[t] = "retry"
    BY <1>0, <1>6
    DEF TimeUp, WaitAgain, Sleep, Push, NotifyOne, Asleep, At, TypeOK
  <2> QED
    BY <1>1, <2>1, <2>2
<1>7. ASSUME NEW u \in Thread, NEW c \in held[u], Release(u, c) PROVE RunsDown(t)
  BY <1>0, <1>1, <1>7 DEF Release, At, TypeOK
<1>8. CASE Close
  BY <1>0, <1>1, <1>8 DEF Close, NotifyAll
<1>9. CASE UNCHANGED <<pc, left>>
  BY <1>1, <1>9
<1> QED
  BY <1>3, <1>4, <1>5, <1>6, <1>7, <1>8, <1>9
  DEF Next, Step, ServerDown, ServerUp, Elapse, Drop, vars, callVars

\* A call never gets a retry back: each pass of the loop costs one.
THEOREM RetriesRunDownCorrect == Spec => RetriesRunDown
<1>1. Control /\ [Next]_vars =>
        [\A t \in Thread : pc[t] # "client" /\ pc'[t] # "client" =>
            /\ left'[t] <= left[t]
            /\ pc[t] = "retry" /\ pc'[t] # "retry" => left'[t] < left[t]]_vars
  BY RunsDownNext DEF RunsDown
<1> QED
  BY <1>1, ControlInit, ControlNext, PTL DEF Spec, RetriesRunDown

(***************************************************************************)
(* The pool implements ConnLease.                                          *)
(***************************************************************************)
\* ConnLease's own copy of Cardinality is the same operator.
LEMMA LeaseCardinality == \A S : Lease!Cardinality(S) = Cardinality(S)
BY DEF Lease!Cardinality, Cardinality

LEMMA LeaseInit == Init => Lease!Init
<1> SUFFICES ASSUME Init PROVE Lease!Init
  OBVIOUS
<1> USE PoolAssumption
<1>1. lentBar = [t \in Thread |-> {}] /\ spareBar = IdleSet
  BY DEF Init, lentBar, spareBar
<1>2. Len(idle) = PoolSize /\ IdleSet = {idle[i] : i \in 1..PoolSize}
  BY DEF Init, IdleSet, Elems
<1>3. idle \in Bijection(1..PoolSize, IdleSet)
  BY <1>2 DEF Init, Bijection, Injection, Surjection, IsInjective, Injective
<1>4. Cardinality(IdleSet) = PoolSize
  BY <1>3, FS_Interval, FS_Bijection DEF ExistsBijection
<1>5. IdleSet \subseteq Conn
  BY <1>2 DEF Init
<1> QED
  BY <1>1, <1>4, <1>5, LeaseCardinality DEF Lease!Init

\* Everything in use, abstractly and concretely.
LEMMA InUseIsLive == Control => Lease!InUse = Live
<1> SUFFICES ASSUME Control PROVE Lease!InUse = Live
  OBVIOUS
<1>1. ASSUME NEW x \in Lease!InUse PROVE x \in Live
  <2>1. CASE x \in spareBar
    BY <2>1 DEF spareBar, Live, InHand, Control, CallDiscipline
  <2>2. ASSUME NEW t \in Thread, x \in lentBar[t] PROVE x \in Live
    <3>1. x \in held[t] \/ (x = hand[t] /\ pc[t] = "push")
      BY <2>2 DEF lentBar
    <3> QED
      BY <3>1 DEF Live, InHand, Held, Control, CallDiscipline
  <2> QED
    BY <1>1, <2>1, <2>2 DEF Lease!InUse, Lease!Lent
<1>2. ASSUME NEW x \in InHand PROVE x \in Lease!InUse
  <2>1. PICK t \in Thread : x = hand[t] /\ pc[t] \in {"validate", "push"}
    BY <1>2 DEF InHand, Control, CallDiscipline
  <2> QED
    BY <2>1 DEF Lease!InUse, Lease!Lent, lentBar, spareBar
<1>3. ASSUME NEW x \in Held PROVE x \in Lease!InUse
  BY <1>3 DEF Held, Lease!InUse, Lease!Lent, lentBar
<1>4. IdleSet \subseteq Lease!InUse
  BY DEF Lease!InUse, spareBar
<1> QED
  BY <1>1, <1>2, <1>3, <1>4 DEF Live

\* The owners and the pool after a step of t that leaves the other threads'
\* connections alone.
LEMMA LentBar ==
    ASSUME Control, NEW t \in Thread, NEW S,
           held'[t] \cup {c \in {hand'[t]} : pc'[t] = "push"} = S,
           \A u \in Thread \ {t} : /\ held'[u] = held[u] /\ hand'[u] = hand[u]
                                   /\ pc'[u] = "push" <=> pc[u] = "push"
    PROVE  lentBar' = [lentBar EXCEPT ![t] = S]
BY DEF lentBar

LEMMA SpareBar ==
    ASSUME Control, NEW t \in Thread,
           \A u \in Thread \ {t} : pc[u] # "validate" /\ pc'[u] # "validate"
    PROVE  /\ spareBar = IdleSet \cup {c \in {hand[t]} : pc[t] = "validate"}
           /\ spareBar' = IdleSet' \cup {c \in {hand'[t]} : pc'[t] = "validate"}
BY DEF spareBar

LEMMA LeaseHandOut ==
    ASSUME Control, Placed, LiveBounded', Control', NEW t \in Thread,
           NEW c \in Conn, HandOut(t, c),
           \/ pc[t] = "validate" /\ c = hand[t]
           \/ pc[t] = "validate" /\ c \notin Live \ {hand[t]}
           \/ pc[t] = "create" /\ c \notin Live
    PROVE  Lease!Next
<1>0. TypeOK /\ CallDiscipline /\ NoSharing
  BY DEF Control, Placed
<1>1. /\ \A u \in Thread \ {t} : /\ held'[u] = held[u] /\ hand'[u] = hand[u]
                                 /\ pc'[u] = pc[u]
      /\ held'[t] = held[t] \cup {c} /\ pc'[t] = "client"
      /\ IdleSet' = IdleSet
  BY <1>0 DEF HandOut, At, TypeOK, IdleSet
<1>2. lentBar[t] = held[t]
  BY <1>0 DEF lentBar
<1>3. lentBar' = [lentBar EXCEPT ![t] = @ \cup {c}]
  <2>1. held'[t] \cup {x \in {hand'[t]} : pc'[t] = "push"} = lentBar[t] \cup {c}
    BY <1>1, <1>2
  <2> QED
    BY <1>1, <2>1, LentBar
<1>4. Lease!InUse = Live
  BY InUseIsLive
<1>5. IsFiniteSet(Live') /\ Cardinality(Live') <= PoolSize
  <2>1. IsFiniteSet(Live') /\ IsFiniteSet(retrying')
    <3>1. (TypeOK => Live \subseteq Conn)'
      BY LiveConn, PTL
    <3>2. Live' \subseteq Conn /\ retrying' \subseteq Thread
      BY <3>1 DEF Control, TypeOK
    <3> QED
      BY <3>2, PoolAssumption, FS_Subset
  <2>2. Cardinality(Live') \in Nat /\ Cardinality(retrying') \in Nat
    BY <2>1, FS_CardinalityType
  <2> QED
    BY <2>1, <2>2, PoolAssumption DEF LiveBounded, Capacity
<1>6. CASE pc[t] = "validate"
  <2>1. \A u \in Thread \ {t} : pc[u] # "validate" /\ pc'[u] # "validate"
    BY <1>0, <1>1, <1>6 DEF CallDiscipline
  <2>2. spareBar = IdleSet \cup {hand[t]} /\ spareBar' = IdleSet
    BY <1>1, <1>6, <2>1, SpareBar
  <2>3. hand[t] \notin IdleSet /\ hand[t] \in InHand
    BY <1>0, <1>6 DEF NoSharing, InHand, CallDiscipline
  <2>4. spareBar' = spareBar \ {hand[t]}
    BY <2>2, <2>3
  <2>5. CASE c = hand[t]
    <3>1. c \in spareBar
      BY <2>2, <2>5
    <3> QED
      BY <1>3, <2>4, <2>5, <3>1 DEF Lease!Next, Lease!Lend
  <2>6. CASE c \notin Live \ {hand[t]}
    <3>1. {hand[t]} \in SUBSET spareBar /\ c \in Conn \ (Lease!InUse \ {hand[t]})
      BY <1>4, <2>2, <2>6
    <3>2. (Lease!InUse \ {hand[t]}) \cup {c} = Live'
      <4>1. /\ c \notin IdleSet \/ c = hand[t]
            /\ c \notin Held \/ c = hand[t]
            /\ c \notin InHand \ {hand[t]}
        BY <2>6 DEF Live
      <4>2. hand[t] \notin Held
        BY <1>0, <2>3 DEF NoSharing
      <4>3. Live' = (Live \ {hand[t]}) \cup {c}
        BY <1>0, <2>3, <4>1, <4>2, HandOutPlaces
      <4> QED
        BY <1>4, <4>3
    <3> QED
      BY <1>3, <1>5, <2>4, <3>1, <3>2, LeaseCardinality DEF Lease!Next, Lease!LendNew
  <2> QED
    BY <1>6, <2>5, <2>6
<1>7. CASE pc[t] = "create" /\ c \notin Live
  <2>1. spareBar' = spareBar
    BY <1>1, <1>7 DEF spareBar
  <2>2. hand[t] = NoConn
    BY <1>0, <1>7 DEF CallDiscipline
  <2>3. Live' = Live \cup {c}
    <3>1. Live' = (Live \ {NoConn}) \cup {c}
      BY <1>0, <1>7, <2>2, HandOutPlaces DEF Live
    <3> QED
      BY <1>0, <3>1, LiveConn, PoolAssumption
  <2>4. {} \in SUBSET spareBar /\ c \in Conn \ (Lease!InUse \ {})
    BY <1>4, <1>7
  <2>5. spareBar' = spareBar \ {} /\ (Lease!InUse \ {}) \cup {c} = Live'
    BY <1>4, <2>1, <2>3
  <2> QED
    BY <1>3, <1>5, <2>4, <2>5, LeaseCardinality DEF Lease!Next, Lease!LendNew
<1> QED
  BY <1>6, <1>7

LEMMA LeaseNext ==
    Control /\ Control' /\ Placed /\ Placed' /\ [Next]_vars
        => [Lease!Next]_<<lentBar, spareBar>>
<1> SUFFICES ASSUME Control, Control', Placed, Placed', [Next]_vars
             PROVE  Lease!Next \/ UNCHANGED <<lentBar, spareBar>>
  OBVIOUS
<1>0. TypeOK /\ CallDiscipline /\ NoSharing /\ LiveBounded'
  BY DEF Control, Placed
\* A step that keeps the queue, the owners and what is validated or returned.
<1>1. ASSUME idle' = idle, held' = held, hand' = hand,
             \A u \in Thread : /\ pc'[u] = "push" <=> pc[u] = "push"
                               /\ pc'[u] = "validate" <=> pc[u] = "validate"
      PROVE  UNCHANGED <<lentBar, spareBar>>
  BY <1>1 DEF lentBar, spareBar, IdleSet
\* Popping: the pool still owns the connection.
<1>2. ASSUME NEW t \in Thread, idle # <<>>, Take(t), mutex = NoThread \/ mutex = t,
             pc[t] \notin {"validate", "push"}
      PROVE  UNCHANGED <<lentBar, spareBar>>
  <2>1. /\ \A u \in Thread \ {t} : hand'[u] = hand[u] /\ pc'[u] = pc[u]
        /\ pc'[t] = "validate" /\ hand'[t] = Head(idle)
        /\ held' = held /\ idle' = Tail(idle)
    BY <1>0, <1>2 DEF Take, At, TypeOK
  <2>2. \A u \in Thread \ {t} : pc[u] # "validate" /\ pc'[u] # "validate"
    BY <1>0, <1>2, <2>1, PoolAssumption DEF CallDiscipline
  <2>3. spareBar = IdleSet /\ spareBar' = IdleSet' \cup {Head(idle)}
    BY <1>2, <2>1, <2>2, SpareBar
  <2>4. IdleSet = IdleSet' \cup {Head(idle)}
    BY <1>0, <1>2, <2>1, HeadTail DEF IdleSet, TypeOK
  <2>5. lentBar' = lentBar
    BY <1>2, <2>1 DEF lentBar
  <2> QED
    BY <2>3, <2>4, <2>5
<1>3. ASSUME NEW t \in Thread, pc[t] \notin {"validate", "push"},
             NEW step \in {"client", "asleep", "woken", "expired", "retry", "create"},
             At(t, step), idle' = idle, held' = held, hand' = hand
      PROVE  UNCHANGED <<lentBar, spareBar>>
  BY <1>0, <1>1, <1>3 DEF At, TypeOK
<1>4. ASSUME NEW t \in Thread, Request(t)
      PROVE  UNCHANGED <<lentBar, spareBar>>
  BY <1>2, <1>3, <1>4 DEF Request, ReturnNull, Sleep
<1>5. ASSUME NEW t \in Thread,
             TimeUp(t) \/ WaitAgain(t) \/ WaitFailed(t)
      PROVE  UNCHANGED <<lentBar, spareBar>>
  BY <1>3, <1>5 DEF TimeUp, WaitAgain, WaitFailed, Sleep, ReturnNull, poolVars
<1>6. ASSUME NEW t \in Thread, WaitOver(t)
      PROVE  UNCHANGED <<lentBar, spareBar>>
  BY <1>2, <1>3, <1>6 DEF WaitOver, ReturnNull
<1>7. ASSUME NEW t \in Thread, Retry(t)
      PROVE  UNCHANGED <<lentBar, spareBar>>
  <2>1. mutex = t /\ pc[t] = "retry"
    BY <1>0, <1>7 DEF Retry, CallDiscipline
  <2> QED
    BY <1>1, <1>2, <1>3, <1>7, <2>1 DEF Retry, ReturnNull, Sleep, poolVars
<1>8. ASSUME NEW t \in Thread, Create(t)
      PROVE  Lease!Next \/ UNCHANGED <<lentBar, spareBar>>
  <2>1. CASE ReturnNull(t)
    BY <1>3, <1>8, <2>1 DEF Create, ReturnNull
  <2>2. ASSUME NEW c \in Conn \ Live, HandOut(t, c) PROVE Lease!Next
    BY <1>0, <1>8, <2>2, LeaseHandOut DEF Create
  <2> QED
    BY <1>8, <2>1, <2>2 DEF Create
<1>9. ASSUME NEW t \in Thread, Validate(t) PROVE Lease!Next
  <2>1. pc[t] = "validate" /\ hand[t] \in Conn
    BY <1>0, <1>9 DEF Validate, CallDiscipline, TypeOK
  <2>2. CASE HandOut(t, hand[t])
    BY <1>0, <2>1, <2>2, LeaseHandOut
  <2>3. ASSUME NEW n \in Conn \ (Live \ {hand[t]}), HandOut(t, n) PROVE Lease!Next
    BY <1>0, <2>1, <2>3, LeaseHandOut
  <2>4. CASE At(t, "retry") /\ UNCHANGED <<idle, held>>
             /\ hand' = [hand EXCEPT ![t] = NoConn]
    <3>1. /\ \A u \in Thread \ {t} : hand'[u] = hand[u] /\ pc'[u] = pc[u]
          /\ pc'[t] = "retry" /\ IdleSet' = IdleSet
      BY <1>0, <2>4 DEF At, TypeOK, IdleSet
    <3>2. lentBar' = lentBar
      BY <2>1, <2>4, <3>1 DEF lentBar
    <3>3. spareBar' \in SUBSET spareBar
      BY <3>1 DEF spareBar
    <3> QED
      BY <3>2, <3>3 DEF Lease!Next, Lease!Discard
  <2> QED
    BY <1>9, <2>2, <2>3, <2>4 DEF Validate
<1>10. ASSUME NEW t \in Thread, Push(t) PROVE Lease!Next
  <2> DEFINE c == hand[t]
  <2>1. pc[t] = "push" /\ hand' = [hand EXCEPT ![t] = NoConn] /\ held' = held
    BY <1>10 DEF Push
  <2>2. At(t, "client") \/ NotifyOne(t)
    BY <1>10 DEF Push
  <2>3. /\ pc'[t] = "client"
        /\ \A u \in Thread \ {t} : /\ hand'[u] = hand[u]
                                   /\ pc'[u] = "push" <=> pc[u] = "push"
                                   /\ pc'[u] = "validate" <=> pc[u] = "validate"
    BY <1>0, <2>1, <2>2 DEF At, NotifyOne, Asleep, TypeOK
  <2>4. /\ lentBar[t] = held[t] \cup {c} /\ c \notin held[t]
        /\ \A u \in Thread : u # t => pc[u] # "validate" \/ pc'[u] = "validate"
    BY <1>0, <2>1, <2>3 DEF lentBar, NoSharing, InHand, Held, CallDiscipline
  <2>5. lentBar' = [lentBar EXCEPT ![t] = @ \ {c}]
    <3>1. held'[t] \cup {x \in {hand'[t]} : pc'[t] = "push"} = lentBar[t] \ {c}
      BY <2>1, <2>3, <2>4
    <3> QED
      BY <2>1, <2>3, <3>1, LentBar
  <2>6. \/ IdleSet' = IdleSet
        \/ IdleSet' = IdleSet \cup {c}
    <3>1. idle \in Seq(Conn) /\ c \in Conn
      BY <1>0, <2>1 DEF TypeOK, CallDiscipline
    <3>2. idle' = idle \/ idle' = Append(idle, c)
      BY <1>10 DEF Push
    <3> QED
      BY <3>1, <3>2, AppendBack DEF IdleSet
  <2>7. spareBar' = spareBar \/ spareBar' = spareBar \cup {c}
    <3>1. {hand'[u] : u \in {v \in Thread : pc'[v] = "validate"}}
            = {hand[u] : u \in {v \in Thread : pc[v] = "validate"}}
      BY <2>1, <2>3
    <3> QED
      BY <2>6, <3>1 DEF spareBar
  <2> QED
    BY <2>4, <2>5, <2>7 DEF Lease!Next, Lease!TakeBack, Lease!Retire
<1>11. ASSUME NEW t \in Thread, NEW c \in held[t], Release(t, c)
       PROVE  Lease!Next \/ UNCHANGED <<lentBar, spareBar>>
  <2>1. /\ pc[t] = "client" /\ idle' = idle
        /\ held' = [held EXCEPT ![t] = @ \ {c}] /\ lentBar[t] = held[t]
    BY <1>11 DEF Release, lentBar
  <2>2. CASE UNCHANGED <<hand, pc>>
    <3>1. spareBar' = spareBar
      BY <2>1, <2>2 DEF spareBar, IdleSet
    <3>2. held'[t] \cup {x \in {hand'[t]} : pc'[t] = "push"} = lentBar[t] \ {c}
      BY <1>0, <2>1, <2>2 DEF TypeOK
    <3>3. lentBar' = [lentBar EXCEPT ![t] = @ \ {c}]
      BY <1>0, <2>1, <2>2, <3>2, LentBar DEF TypeOK
    <3> QED
      BY <2>1, <3>1, <3>3 DEF Lease!Next, Lease!Retire
  <2>3. CASE hand' = [hand EXCEPT ![t] = c] /\ At(t, "push")
    <3>1. /\ \A u \in Thread \ {t} : /\ held'[u] = held[u] /\ hand'[u] = hand[u]
                                     /\ pc'[u] = pc[u]
          /\ pc'[t] = "push" /\ hand'[t] = c /\ held'[t] = held[t] \ {c}
      BY <1>0, <2>1, <2>3 DEF At, TypeOK
    <3>2. lentBar' = lentBar
      BY <2>1, <3>1 DEF lentBar
    <3>3. spareBar' = spareBar
      BY <2>1, <3>1 DEF spareBar, IdleSet
    <3> QED
      BY <3>2, <3>3
  <2> QED
    BY <1>11, <2>2, <2>3 DEF Release
<1>12. CASE Close
  <2>1. /\ hand' = hand /\ held' = held /\ idle' = <<>>
        /\ \A u \in Thread : /\ pc'[u] = "push" <=> pc[u] = "push"
                             /\ pc'[u] = "validate" <=> pc[u] = "validate"
    BY <1>12 DEF Close, NotifyAll
  <2>2. lentBar' = lentBar
    BY <2>1 DEF lentBar
  <2>3. spareBar' \in SUBSET spareBar
    BY <2>1 DEF spareBar, IdleSet, Elems
  <2> QED
    BY <2>2, <2>3 DEF Lease!Next, Lease!Discard
<1>13. CASE UNCHANGED <<idle, held, hand, pc>>
  BY <1>1, <1>13
<1> QED
  BY <1>4, <1>5, <1>6, <1>7, <1>8, <1>9, <1>10, <1>11, <1>12, <1>13
  DEF Next, Step, ServerDown, ServerUp, Elapse, Drop, vars, poolVars, callVars

\* The pool implements ConnLease: initial states map to initial states and
\* every step of getConnection, releaseConnection, close and of the server
\* maps to a step on leases or to a stutter.
THEOREM PoolImplementsLease == Spec => LeaseSpec
<1>1. Spec => [](Control /\ Placed)
  BY ControlInit, ControlNext, PlacedInit, PlacedNext, PTL DEF Spec
<1>2. Init => Lease!Init
  BY LeaseInit
<1>3. Control /\ Control' /\ Placed /\ Placed' /\ [Next]_vars
        => [Lease!Next]_Lease!vars
  BY LeaseNext DEF Lease!vars
<1> QED
  BY <1>1, <1>2, <1>3, PTL DEF Spec, LeaseSpec, Lease!Spec
=============================================================================
