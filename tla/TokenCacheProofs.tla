-------------------------- MODULE TokenCacheProofs --------------------------
(***************************************************************************)
(* Proofs about TokenCache: the shard's map never dangles, a null iterator *)
(* needs a full shard or a thread held up, and an idle token is only good  *)
(* on Redis's word, for any threads, tokens, capacity and times to live.   *)
(***************************************************************************)
EXTENDS TokenCache, TLAPS

\* A shard whose list and map agree.
Sound(s) ==
    /\ s \in Shard
    /\ s.ahead \subseteq s.nodes \X s.nodes
    /\ \A n \in s.nodes : s.key[n] \in Token
    /\ \A k \in Token : s.map[k] # NoNode => /\ s.map[k] \in s.nodes
                                             /\ s.key[s.map[k]] = k

\* r is s with some of its nodes and map entries gone.
Shrunk(s, r) ==
    /\ Sound(r)
    /\ r.nodes \subseteq s.nodes
    /\ \A n \in r.nodes : r.key[n] = s.key[n] /\ r.life[n] = s.life[n]
    /\ \A k \in Token : r.map[k] \in {NoNode, s.map[k]}

\* Erasing nodes with the map entries of their tokens leaves no dangling one.
LEMMA EraseShrinks ==
    ASSUME NEW s, Sound(s), NEW N \in SUBSET Node
    PROVE  Shrunk(s, Erase(s, N))
<1> DEFINE e == Erase(s, N)
<1> USE TokenAssumption
<1>1. /\ e.nodes = s.nodes \ N
      /\ e.ahead = {p \in s.ahead : p[1] \notin N /\ p[2] \notin N}
      /\ e.key = [n \in Node |-> IF n \in N THEN NoToken ELSE s.key[n]]
      /\ e.life = [n \in Node |-> IF n \in N THEN 0 ELSE s.life[n]]
      /\ e.map = [k \in Token |-> IF \E n \in N : s.key[n] = k
                                  THEN NoNode ELSE s.map[k]]
  BY DEF Erase
<1>2. e = [nodes |-> e.nodes, ahead |-> e.ahead, key |-> e.key,
           life |-> e.life, map |-> e.map]
  BY DEF Erase
<1>3. e \in Shard
  <2>1. e.nodes \in SUBSET Node /\ e.ahead \in SUBSET (Node \X Node)
    BY <1>1 DEF Sound, Shard
  <2>2. e.key \in [Node -> Token \cup {NoToken}]
    BY <1>1 DEF Sound, Shard
  <2>3. e.life \in [Node -> 0..CacheTtl]
    BY <1>1 DEF Sound, Shard
  <2>4. e.map \in [Token -> Node \cup {NoNode}]
    BY <1>1 DEF Sound, Shard
  <2> QED
    BY <1>2, <2>1, <2>2, <2>3, <2>4, Zenon DEF Shard
<1>4. e.ahead \subseteq e.nodes \X e.nodes
  BY <1>1 DEF Sound
<1>5. \A n \in e.nodes : n \in Node /\ n \notin N /\ e.key[n] = s.key[n] /\ e.life[n] = s.life[n]
  BY <1>1 DEF Sound, Shard
<1>6. ASSUME NEW k \in Token, e.map[k] # NoNode
      PROVE  e.map[k] = s.map[k] /\ e.map[k] \in e.nodes /\ e.key[e.map[k]] = k
  <2>1. e.map[k] = s.map[k] /\ ~\E n \in N : s.key[n] = k
    BY <1>1, <1>6
  <2>2. s.map[k] \in s.nodes /\ s.key[s.map[k]] = k
    BY <2>1, <1>6 DEF Sound
  <2>3. s.map[k] \in e.nodes
    BY <1>1, <2>1, <2>2
  <2> QED
    BY <1>5, <2>1, <2>2, <2>3
<1> HIDE DEF e
<1>7. Sound(e)
  BY <1>3, <1>4, <1>5, <1>6, <1>1 DEF Sound
<1>8. e.nodes \subseteq s.nodes /\ \A k \in Token : e.map[k] \in {NoNode, s.map[k]}
  BY <1>1
<1>9. Shrunk(s, e)
  BY <1>5, <1>7, <1>8 DEF Shrunk
<1> QED
  BY <1>9 DEF e

LEMMA ShrunkOnce == ASSUME NEW s, Sound(s) PROVE Shrunk(s, s)
  BY DEF Shrunk

LEMMA ShrunkTwice ==
    ASSUME NEW s, NEW r, NEW q, Shrunk(s, r), Shrunk(r, q)
    PROVE  Shrunk(s, q)
<1>1. \A k \in Token : q.map[k] \in {NoNode, s.map[k]}
  BY DEF Shrunk
<1>2. \A n \in q.nodes : q.key[n] = s.key[n] /\ q.life[n] = s.life[n]
  BY DEF Shrunk
<1> QED
  BY <1>1, <1>2 DEF Shrunk

\* Making room only takes nodes away, and only from a full shard.
LEMMA MakeRoomShrinks ==
    ASSUME NEW s, Sound(s)
    PROVE  /\ Shrunk(s, MakeRoom(s))
           /\ ~Full(s) => MakeRoom(s) = s
<1> DEFINE c == IF Full(s) THEN CleanExpired(s) ELSE s
<1>1. Shrunk(s, CleanExpired(s))
  <2> DEFINE gone == {n \in {m \in s.nodes :
                               /\ Cardinality(Behind(s, m)) < Scan
                               /\ Cardinality(Behind(s, m)) < Cardinality(Mapped(s))} :
                        s.life[n] = 0}
  <2>1. gone \in SUBSET Node
    BY DEF Sound, Shard
  <2>2. CleanExpired(s) = Erase(s, gone)
    BY Zenon DEF CleanExpired
  <2> HIDE DEF gone
  <2> QED
    BY <2>1, <2>2, EraseShrinks
<1>2. Shrunk(s, c)
  BY <1>1, ShrunkOnce
<1>3. MakeRoom(s) = IF Full(c) THEN Erase(c, Back(c)) ELSE c
  BY Zenon DEF MakeRoom
<1>4. ~Full(s) => MakeRoom(s) = s
  BY <1>3
<1> HIDE DEF c
<1>5. Back(c) \in SUBSET Node
  BY <1>2 DEF Back, Shrunk, Sound, Shard
<1>6. Shrunk(c, Erase(c, Back(c)))
  BY <1>2, <1>5, EraseShrinks DEF Shrunk
<1>7. Shrunk(s, MakeRoom(s))
  BY <1>2, <1>3, <1>6, ShrunkTwice
<1> QED
  BY <1>4, <1>7

\* A pushed node is the one the map has.
LEMMA PushSound ==
    ASSUME NEW s, Sound(s), NEW n \in Node \ s.nodes, NEW k \in Token,
           NEW p, p = PushFront(s, n, k)
    PROVE  /\ Sound(p)
           /\ p.nodes = s.nodes \cup {n}
           /\ p.key[n] = k /\ p.life[n] = CacheTtl /\ p.map[k] = n
           /\ \A m \in Node \ {n} : p.key[m] = s.key[m] /\ p.life[m] = s.life[m]
           /\ \A j \in Token \ {k} : p.map[j] = s.map[j]
<1> USE TokenAssumption
<1>1. /\ p.nodes = s.nodes \cup {n}
      /\ p.ahead = s.ahead \cup ({n} \X s.nodes)
      /\ p.key = [s.key EXCEPT ![n] = k]
      /\ p.life = [s.life EXCEPT ![n] = CacheTtl]
      /\ p.map = [s.map EXCEPT ![k] = n]
      /\ p = [nodes |-> p.nodes, ahead |-> p.ahead, key |-> p.key,
              life |-> p.life, map |-> p.map]
  BY DEF PushFront
<1>2. p \in Shard
  <2>1. p.nodes \in SUBSET Node /\ p.ahead \in SUBSET (Node \X Node)
    BY <1>1 DEF Sound, Shard
  <2>2. p.key \in [Node -> Token \cup {NoToken}]
    BY <1>1 DEF Sound, Shard
  <2>3. p.life \in [Node -> 0..CacheTtl]
    BY <1>1 DEF Sound, Shard
  <2>4. p.map \in [Token -> Node \cup {NoNode}]
    BY <1>1 DEF Sound, Shard
  <2> QED
    BY <1>1, <2>1, <2>2, <2>3, <2>4, Zenon DEF Shard
<1>3. p.ahead \subseteq p.nodes \X p.nodes
  BY <1>1 DEF Sound
<1>4. \A m \in p.nodes : p.key[m] \in Token
  BY <1>1 DEF Sound, Shard
<1>5. ASSUME NEW j \in Token, p.map[j] # NoNode
      PROVE  p.map[j] \in p.nodes /\ p.key[p.map[j]] = j
  <2>1. CASE j = k
    BY <2>1, <1>1 DEF Sound, Shard
  <2>2. CASE j # k
    <3>1. p.map[j] = s.map[j] /\ s.map[j] \in s.nodes /\ s.key[s.map[j]] = j
      BY <2>2, <1>1, <1>5 DEF Sound, Shard
    <3> QED
      BY <3>1, <1>1 DEF Sound, Shard
  <2> QED
    BY <2>1, <2>2
<1>6. Sound(p)
  BY <1>2, <1>3, <1>4, <1>5 DEF Sound
<1>7. s.key \in [Node -> Token \cup {NoToken}] /\ s.life \in [Node -> 0..CacheTtl]
      /\ s.map \in [Token -> Node \cup {NoNode}]
  BY DEF Sound, Shard
<1> QED
  BY <1>1, <1>6, <1>7

\* Moving a node of the list changes the order only.
LEMMA ToFrontSound ==
    ASSUME NEW s, Sound(s), NEW n \in s.nodes
    PROVE  /\ Sound(ToFront(s, n))
           /\ ToFront(s, n).nodes = s.nodes
           /\ ToFront(s, n).key = s.key
           /\ ToFront(s, n).life = s.life
           /\ ToFront(s, n).map = s.map
<1> DEFINE p == ToFront(s, n)
<1>1. /\ p.nodes = s.nodes /\ p.key = s.key /\ p.life = s.life /\ p.map = s.map
      /\ p.ahead = {q \in s.ahead : n \notin {q[1], q[2]}}
                   \cup ({n} \X (s.nodes \ {n}))
  BY DEF ToFront, Sound, Shard
<1>2. p \in Shard
  BY DEF ToFront, Sound, Shard
<1>3. p.ahead \subseteq p.nodes \X p.nodes
  BY <1>1 DEF Sound
<1> HIDE DEF p
<1>4. Sound(p)
  BY <1>1, <1>2, <1>3 DEF Sound
<1> QED
  BY <1>1, <1>4 DEF p

\* Writing the times only changes the times.
LEMMA LifeSound ==
    ASSUME NEW s, Sound(s), NEW f \in [Node -> 0..CacheTtl]
    PROVE  /\ Sound([s EXCEPT !.life = f])
           /\ [s EXCEPT !.life = f].nodes = s.nodes
           /\ [s EXCEPT !.life = f].key = s.key
           /\ [s EXCEPT !.life = f].life = f
           /\ [s EXCEPT !.life = f].map = s.map
<1> DEFINE p == [s EXCEPT !.life = f]
<1>1. /\ p.nodes = s.nodes /\ p.key = s.key /\ p.ahead = s.ahead
      /\ p.map = s.map /\ p.life = f
  BY DEF Sound, Shard
<1>2. p \in Shard
  BY DEF Sound, Shard
<1> HIDE DEF p
<1>3. Sound(p)
  BY <1>1, <1>2 DEF Sound
<1> QED
  BY <1>1, <1>3 DEF p
-----------------------------------------------------------------------------
(* Type correctness, and the map *)

ThreadTypes ==
    /\ redis \in [Token -> 0..RedisTtl]
    /\ known \subseteq Token
    /\ pc \in [Thread -> Step]
    /\ tok \in [Thread -> Token \cup {NoToken}]
    /\ \A t \in Thread : (tok[t] = NoToken) <=> (pc[t] = "idle")
    /\ since \in [Thread -> 0..CacheTtl]
    /\ last \in [Thread -> known \cup {NoToken}]
    /\ lastAge \in [Thread -> 0..LocalTtl]
    /\ quiet \in [Token -> 0..CacheTtl]

Flags == everFull \in BOOLEAN /\ crashed \in BOOLEAN

\* What the map has is known; so is a token with which a thread goes on after
\* the map or Redis had it, and nobody asks Redis for another it has.
Checked ==
    /\ \A k \in Token : shard.map[k] # NoNode => k \in known
    /\ \A t \in Thread :
          /\ pc[t] \in {"promote", "renew", "insert"} => tok[t] \in known
          /\ pc[t] \in {"drop", "ask"} => tok[t] \in known \/ redis[tok[t]] = 0

Typed == Sound(shard) /\ ThreadTypes /\ Flags /\ Checked

LEMMA TypedInit == Init => Typed
<1> SUFFICES ASSUME Init PROVE Typed
  OBVIOUS
<1> USE TokenAssumption
<1>1. Sound(shard)
  BY DEF Init, EmptyShard, Sound, Shard
<1>2. ThreadTypes
  BY DEF Init, ThreadTypes, Step
<1>3. Flags
  BY Zenon DEF Init, Flags
<1>4. Checked
  BY DEF Init, EmptyShard, Checked
<1> QED
  BY <1>1, <1>2, <1>3, <1>4 DEF Typed

\* A thread goes from one step to the next with token k.
LEMMA GoTyped ==
    ASSUME Typed, NEW t \in Thread, NEW step \in Step, NEW k \in Token \cup {NoToken},
           (k = NoToken) <=> (step = "idle"), Go(t, step, k)
    PROVE  /\ pc' \in [Thread -> Step]
           /\ tok' \in [Thread -> Token \cup {NoToken}]
           /\ \A u \in Thread : (tok'[u] = NoToken) <=> (pc'[u] = "idle")
           /\ since' \in [Thread -> 0..CacheTtl]
           /\ pc'[t] = step /\ tok'[t] = k /\ since'[t] = 0
           /\ \A u \in Thread \ {t} : pc'[u] = pc[u] /\ tok'[u] = tok[u]
                                     /\ since'[u] = since[u]
  BY TokenAssumption DEF Typed, ThreadTypes, Go

LEMMA TypedStep == Typed /\ [Next]_vars => Typed'
<1> SUFFICES ASSUME Typed, [Next]_vars PROVE Typed'
  OBVIOUS
<1> USE TokenAssumption
<1>f. (~crashed /\ UNCHANGED crashed) /\ UNCHANGED everFull => Flags'
  BY Zenon DEF Typed, Flags
<1>q. ASSUME NEW k \in Token, Good(k) PROVE quiet' \in [Token -> 0..CacheTtl]
  BY <1>q DEF Good, Typed, ThreadTypes
<1>1. ASSUME NEW t \in Thread, NEW k \in Token, ~crashed, UNCHANGED crashed, LocalHit(t, k)
      PROVE  Typed'
  <2>1. Flags'
    BY <1>1, <1>f DEF LocalHit
  <2>2. Sound(shard)' /\ Checked'
    BY <1>1 DEF LocalHit, threadVars, Typed, Sound, Checked
  <2>3. ThreadTypes'
    BY <1>1, <1>q DEF LocalHit, threadVars, localVars, Typed, ThreadTypes
  <2> QED
    BY <2>1, <2>2, <2>3 DEF Typed
<1>2. ASSUME NEW t \in Thread, NEW k \in Token, ~crashed, UNCHANGED crashed, Hit(t, k)
      PROVE  Typed'
  <2> DEFINE f == [shard.life EXCEPT ![shard.map[k]] = CacheTtl]
  <2>1. Flags'
    BY <1>2, <1>f DEF Hit
  <2>2. f \in [Node -> 0..CacheTtl] /\ shard' = [shard EXCEPT !.life = f]
    <3>1. f \in [Node -> 0..CacheTtl]
      <4>1. shard.life \in [Node -> 0..CacheTtl] /\ CacheTtl \in 0..CacheTtl
        BY DEF Typed, Sound, Shard
      <4> QED
        BY <4>1
    <3>2. shard' = [shard EXCEPT !.life[shard.map[k]] = CacheTtl]
      BY <1>2 DEF Hit, Slide
    <3>3. shard' = [shard EXCEPT !.life = f]
      BY <3>2, Zenon
    <3> QED
      BY <3>1, <3>3
  <2> HIDE DEF f
  <2>3. Sound(shard') /\ shard'.map = shard.map
    BY <2>2, LifeSound DEF Typed
  <2>4. k \in known /\ Go(t, "promote", k) /\ "promote" \in Step /\ k # NoToken
    BY <1>2 DEF Hit, Fresh, Typed, Checked, Step
  <2>5. ThreadTypes'
    BY <1>2, <2>4, <1>q, GoTyped DEF Hit, localVars, Typed, ThreadTypes
  <2>6. Checked'
    BY <1>2, <2>3, <2>4, GoTyped DEF Hit, Typed, Checked
  <2> QED
    BY <2>1, <2>3, <2>5, <2>6 DEF Typed, Sound
<1>3. ASSUME NEW t \in Thread, NEW k \in Token, ~crashed, UNCHANGED crashed, Miss(t, k),
             k \in known \/ redis[k] = 0
      PROVE  Typed'
  <2>1. Flags'
    BY <1>3, <1>f DEF Miss
  <2>2. Go(t, "drop", k) /\ "drop" \in Step /\ k # NoToken
    BY <1>3 DEF Miss, Step
  <2>3. ThreadTypes'
    BY <1>3, <2>2, GoTyped DEF Miss, localVars, Typed, ThreadTypes
  <2>4. Checked'
    BY <1>3, <2>2, GoTyped DEF Miss, Typed, Checked
  <2> QED
    BY <1>3, <2>1, <2>3, <2>4 DEF Miss, Typed, Sound
<1>4. ASSUME NEW t \in Thread, NEW k \in Token, ~crashed, UNCHANGED crashed, Login(t, k)
      PROVE  Typed'
  <2>1. Flags'
    BY <1>4, <1>f DEF Login
  <2>2. Go(t, "stored", k) /\ "stored" \in Step /\ k # NoToken
    BY <1>4 DEF Login, Step
  <2>3. ThreadTypes'
    BY <1>4, <2>2, GoTyped DEF Login, localVars, Typed, ThreadTypes
  <2>4. Checked'
    <3>1. /\ pc'[t] = "stored"
          /\ \A u \in Thread \ {t} : pc'[u] = pc[u] /\ tok'[u] = tok[u] /\ tok[u] # k
      BY <1>4, <2>2, GoTyped DEF Login
    <3>2. \A j \in Token \ {k} : redis'[j] = redis[j]
      BY <1>4 DEF Login, Typed, ThreadTypes
    <3>3. \A u \in Thread : pc[u] \in {"drop", "ask"} => tok[u] \in Token
      BY DEF Typed, ThreadTypes
    <3> QED
      BY <1>4, <3>1, <3>2, <3>3 DEF Login, Typed, Checked
  <2> QED
    BY <1>4, <2>1, <2>3, <2>4 DEF Login, Typed, Sound
<1>5. ASSUME NEW t \in Thread, ~crashed, Promote(t) PROVE Typed'
  <2>0. tok[t] \in known /\ tok[t] \in Token
    BY <1>5 DEF Promote, Typed, Checked, ThreadTypes
  <2>1. CASE shard.map[tok[t]] # NoNode
    <3> DEFINE n == shard.map[tok[t]]
    <3>1. /\ shard' = ToFront(shard, n) /\ Good(tok[t]) /\ Answer(t)
          /\ UNCHANGED <<redis, known, everFull>>
          /\ UNCHANGED crashed
      BY <1>5, <2>1 DEF Promote
    <3>2. Flags'
      BY <3>1, Zenon DEF Typed, Flags
    <3>3. n \in shard.nodes
      BY <2>0, <2>1 DEF Typed, Sound
    <3> HIDE DEF n
    <3>4. Sound(shard') /\ shard'.map = shard.map
      BY <3>1, <3>3, ToFrontSound DEF Typed
    <3>5. Go(t, "idle", NoToken) /\ "idle" \in Step
      BY <3>1 DEF Answer, Step
    <3>6. ThreadTypes'
      BY <2>0, <3>1, <3>5, <1>q, GoTyped DEF Answer, Typed, ThreadTypes
    <3>7. Checked'
      BY <3>1, <3>4, <3>5, GoTyped DEF Typed, Checked
    <3> QED
      BY <3>2, <3>4, <3>6, <3>7 DEF Typed, Sound
  <2>2. CASE shard.map[tok[t]] = NoNode
    <3>1. /\ crashed' = TRUE
          /\ UNCHANGED <<shard, quiet, threadVars, localVars>>
          /\ UNCHANGED <<redis, known, everFull>>
      BY <1>5, <2>2 DEF Promote
    <3>2. Flags'
      BY <3>1, Zenon DEF Typed, Flags
    <3>3. Sound(shard)' /\ ThreadTypes' /\ Checked'
      BY <3>1 DEF threadVars, localVars, Typed, Sound, ThreadTypes, Checked
    <3> QED
      BY <3>2, <3>3 DEF Typed
  <2> QED
    BY <2>1, <2>2
<1>6. ASSUME NEW t \in Thread, ~crashed, UNCHANGED crashed, DropExpired(t) PROVE Typed'
  <2>1. Flags'
    BY <1>6, <1>f DEF DropExpired
  <2>2. /\ tok[t] \in Token /\ Go(t, "ask", tok[t]) /\ "ask" \in Step
        /\ tok[t] \in known \/ redis[tok[t]] = 0
    BY <1>6 DEF DropExpired, Step, Typed, ThreadTypes, Checked
  <2>3. Shrunk(shard, shard')
    <3>1. CASE shard' = shard
      BY <3>1, ShrunkOnce DEF Typed
    <3>2. CASE shard.map[tok[t]] # NoNode /\ shard' = Erase(shard, {shard.map[tok[t]]})
      <4>1. {shard.map[tok[t]]} \in SUBSET Node
        BY <2>2, <3>2 DEF Typed, Sound, Shard
      <4> QED
        BY <3>2, <4>1, EraseShrinks DEF Typed
    <3> QED
      BY <1>6, <3>1, <3>2 DEF DropExpired
  <2>4. ThreadTypes'
    BY <1>6, <2>2, GoTyped DEF DropExpired, localVars, Typed, ThreadTypes
  <2>5. Checked'
    <3>1. \A k \in Token : shard'.map[k] # NoNode => k \in known
      BY <2>3 DEF Shrunk, Typed, Checked
    <3>2. /\ pc'[t] = "ask" /\ tok'[t] = tok[t]
          /\ \A u \in Thread \ {t} : pc'[u] = pc[u] /\ tok'[u] = tok[u]
      BY <2>2, GoTyped
    <3> QED
      BY <1>6, <2>2, <3>1, <3>2 DEF DropExpired, Typed, Checked
  <2> QED
    BY <2>1, <2>3, <2>4, <2>5 DEF Typed, Shrunk, Sound
<1>7. ASSUME NEW t \in Thread, ~crashed, UNCHANGED crashed, Ask(t) PROVE Typed'
  <2>1. Flags'
    BY <1>7, <1>f DEF Ask
  <2>2. tok[t] \in Token /\ tok[t] \in known
    BY <1>7 DEF Ask, Typed, ThreadTypes, Checked
  <2>3. PICK step \in {"renew", "insert"} : Go(t, step, tok[t])
    BY <1>7 DEF Ask
  <2>4. step \in Step /\ step # "idle" /\ tok[t] # NoToken
    BY <2>2 DEF Step
  <2>5. ThreadTypes'
    BY <1>7, <2>2, <2>3, <2>4, GoTyped DEF Ask, localVars, Typed, ThreadTypes
  <2>6. Checked'
    BY <1>7, <2>2, <2>3, <2>4, GoTyped DEF Ask, Typed, Checked
  <2> QED
    BY <1>7, <2>1, <2>5, <2>6 DEF Ask, Typed, Sound
<1>8. ASSUME NEW t \in Thread, ~crashed, UNCHANGED crashed, Refuse(t) PROVE Typed'
  <2>1. Flags'
    BY <1>8, <1>f DEF Refuse
  <2>2. Go(t, "idle", NoToken) /\ "idle" \in Step
    BY <1>8 DEF Refuse, Step
  <2>3. ThreadTypes'
    BY <1>8, <2>2, GoTyped DEF Refuse, localVars, Typed, ThreadTypes
  <2>4. Checked'
    BY <1>8, <2>2, GoTyped DEF Refuse, Typed, Checked
  <2> QED
    BY <1>8, <2>1, <2>3, <2>4 DEF Refuse, Typed, Sound
<1>9. ASSUME NEW t \in Thread, ~crashed, UNCHANGED crashed, Renew(t) PROVE Typed'
  <2>1. Flags'
    BY <1>9, <1>f DEF Renew
  <2>2. /\ tok[t] \in Token /\ tok[t] \in known
        /\ Go(t, "insert", tok[t]) /\ "insert" \in Step /\ tok[t] # NoToken
    BY <1>9 DEF Renew, Step, Typed, ThreadTypes, Checked
  <2>3. redis' \in [Token -> 0..RedisTtl] /\ \A k \in Token : redis[k] = 0 => redis'[k] = 0
    BY <1>9, <2>2 DEF Renew, Typed, ThreadTypes
  <2>4. ThreadTypes'
    BY <1>9, <2>2, <2>3, GoTyped DEF Renew, localVars, Typed, ThreadTypes
  <2>5. Checked'
    BY <1>9, <2>2, <2>3, GoTyped DEF Renew, Typed, Checked, ThreadTypes
  <2> QED
    BY <1>9, <2>1, <2>4, <2>5 DEF Renew, Typed, Sound
<1>10. ASSUME NEW t \in Thread, ~crashed, UNCHANGED crashed, Insert(t) PROVE Typed'
  <2>1. Flags'
    BY <1>10, Zenon DEF Insert, Typed, Flags, Full
  <2>2. tok[t] \in Token /\ tok[t] \in known
    BY <1>10 DEF Insert, Typed, ThreadTypes, Checked
  <2>3. Shrunk(shard, MakeRoom(shard))
    BY MakeRoomShrinks DEF Typed
  <2>4. PICK n \in Node \ MakeRoom(shard).nodes : shard' = PushFront(MakeRoom(shard), n, tok[t])
    BY <1>10 DEF Insert
  <2>5. /\ Sound(shard')
        /\ \A k \in Token \ {tok[t]} : shard'.map[k] = MakeRoom(shard).map[k]
    BY <2>2, <2>3, <2>4, PushSound DEF Shrunk
  <2>6. Answer(t) /\ Go(t, "idle", NoToken) /\ "idle" \in Step /\ Good(tok[t])
    BY <1>10 DEF Insert, Answer, Step
  <2>7. ThreadTypes'
    BY <1>10, <2>2, <2>6, <1>q, GoTyped DEF Insert, Answer, Typed, ThreadTypes
  <2>8. Checked'
    <3>1. \A k \in Token : shard'.map[k] # NoNode => k \in known
      BY <2>2, <2>3, <2>5 DEF Shrunk, Sound, Shard, Typed, Checked
    <3> QED
      BY <1>10, <3>1, <2>6, GoTyped DEF Insert, Typed, Checked
  <2> QED
    BY <2>1, <2>5, <2>7, <2>8 DEF Typed, Sound
<1>11. ASSUME NEW t \in Thread, ~crashed, UNCHANGED crashed, CacheNew(t) PROVE Typed'
  <2>1. Flags'
    BY <1>11, <1>f DEF CacheNew
  <2>2. tok[t] \in Token
    BY <1>11 DEF CacheNew, Typed, ThreadTypes
  <2>3. PICK n \in Node \ shard.nodes : shard' = PushFront(shard, n, tok[t])
    BY <1>11 DEF CacheNew
  <2>4. /\ Sound(shard')
        /\ \A k \in Token \ {tok[t]} : shard'.map[k] = shard.map[k]
    BY <2>2, <2>3, PushSound DEF Typed
  <2>5. /\ Go(t, "idle", NoToken) /\ "idle" \in Step /\ Good(tok[t])
        /\ known' = known \cup {tok[t]}
    BY <1>11 DEF CacheNew, Step
  <2>6. ThreadTypes'
    BY <1>11, <2>2, <2>5, <1>q, GoTyped DEF CacheNew, localVars, Typed, ThreadTypes
  <2>7. Checked'
    <3>1. \A k \in Token : shard'.map[k] # NoNode => k \in known'
      BY <2>2, <2>4, <2>5 DEF Sound, Shard, Typed, Checked
    <3> QED
      BY <1>11, <3>1, <2>5, GoTyped DEF CacheNew, Typed, Checked
  <2> QED
    BY <2>1, <2>4, <2>6, <2>7 DEF Typed, Sound
<1>12. CASE Tick
  <2>1. Flags'
    BY <1>12, Zenon DEF Tick, Typed, Flags
  <2>2. Sound(shard') /\ shard'.map = shard.map
    <3> DEFINE f == [n \in Node |-> Down(shard.life[n])]
    <3>1. f \in [Node -> 0..CacheTtl]
      BY DEF Typed, Sound, Shard, Down
    <3>2. shard' = [shard EXCEPT !.life = f]
      BY <1>12 DEF Tick, Typed, Sound, Shard
    <3> HIDE DEF f
    <3> QED
      BY <3>1, <3>2, LifeSound DEF Typed
  <2>3. ThreadTypes'
    BY <1>12 DEF Tick, Up, Down, Typed, ThreadTypes
  <2>4. Checked'
    <3>1. \A k \in Token : redis[k] = 0 => redis'[k] = 0
      BY <1>12 DEF Tick, Down
    <3> QED
      BY <1>12, <2>2, <3>1 DEF Tick, Typed, Checked, ThreadTypes
  <2> QED
    BY <2>1, <2>2, <2>3, <2>4 DEF Typed, Sound
<1>13. CASE Restart
  <2>1. Flags'
    BY <1>13, Zenon DEF Restart, Flags
  <2>2. Sound(shard)'
    BY <1>13 DEF Restart, EmptyShard, Sound, Shard
  <2>3. ThreadTypes' /\ Checked'
    BY <1>13 DEF Restart, EmptyShard, Typed, ThreadTypes, Checked, Step
  <2> QED
    BY <2>1, <2>2, <2>3 DEF Typed
<1>14. CASE UNCHANGED vars
  <2>1. Flags'
    BY <1>14, Zenon DEF vars, Typed, Flags
  <2>2. Sound(shard)' /\ ThreadTypes' /\ Checked'
    BY <1>14 DEF vars, threadVars, localVars, Typed, Sound, ThreadTypes, Checked
  <2> QED
    BY <2>1, <2>2 DEF Typed
<1> QED
  BY <1>1, <1>2, <1>3, <1>4, <1>5, <1>6, <1>7, <1>8, <1>9, <1>10, <1>11, <1>12,
     <1>13, <1>14 DEF Next, Request, Serve
LEMMA TypedHolds == Spec => []Typed
<1>1. Typed /\ [Next]_vars => Typed'
  BY TypedStep
<1> QED
  BY <1>1, TypedInit, PTL DEF Spec

\* The types of every variable; threads only remember answered tokens.
THEOREM TypeCorrect == Spec => []TypeOK
<1>1. Typed => TypeOK
  <2>1. Flags => everFull \in BOOLEAN /\ crashed \in BOOLEAN
    BY Zenon DEF Flags
  <2> QED
    BY <2>1 DEF Typed, Sound, ThreadTypes, TypeOK
<1> QED
  BY <1>1, TypedHolds, PTL

\* No iterator of the map dangles.
THEOREM MapInListCorrect == Spec => []MapInList
<1>1. Typed => MapInList
  BY DEF Typed, Sound, MapInList, Mapped
<1> QED
  BY <1>1, TypedHolds, PTL
-----------------------------------------------------------------------------
(* The times *)

\* An entry outlives the last good use of its token by CacheTtl at most.
LifeBound ==
    \A n \in shard.nodes : shard.life[n] + quiet[shard.key[n]] <= CacheTtl

\* A remembered token has been good not longer ago than it was remembered.
LocalBound ==
    \A t \in Thread : last[t] # NoToken /\ lastAge[t] < LocalTtl
                         => quiet[last[t]] <= lastAge[t]

\* The entry a thread is about to move is there, and lives as long as it
\* would from the hit on; or the thread has waited CacheTtl.
InTime(t) ==
    \/ since[t] = CacheTtl
    \/ /\ shard.map[tok[t]] # NoNode
       /\ shard.life[shard.map[tok[t]]] + since[t] >= CacheTtl

PromoteBound == ~everFull => \A t \in Thread : pc[t] = "promote" => InTime(t)

Stalled == \E t \in Thread : pc[t] = "promote" /\ since[t] = CacheTtl

CrashBound == crashed => everFull \/ Stalled

Timed == LifeBound /\ LocalBound /\ PromoteBound /\ CrashBound

LEMMA GoodQuiet ==
    ASSUME Typed, NEW k \in Token, Good(k)
    PROVE  quiet'[k] = 0 /\ \A j \in Token : quiet'[j] <= quiet[j]
  BY DEF Typed, ThreadTypes, Good

\* A miss only drops an entry that has expired.
LEMMA DropShape ==
    ASSUME Typed, NEW t \in Thread, DropExpired(t)
    PROVE  /\ Shrunk(shard, shard')
           /\ \A k \in Token : shard.map[k] # NoNode /\ shard'.map[k] = NoNode
                                  => shard.life[shard.map[k]] = 0
<1> DEFINE n == shard.map[tok[t]]
<1>1. tok[t] \in Token
  BY DEF DropExpired, Typed, ThreadTypes
<1>2. CASE shard' = shard
  BY <1>2, ShrunkOnce DEF Typed
<1>3. CASE n # NoNode /\ shard.life[n] = 0 /\ shard' = Erase(shard, {n})
  <2>1. {n} \in SUBSET Node /\ shard.key[n] = tok[t]
    BY <1>1, <1>3 DEF Typed, Sound, Shard
  <2>2. \A k \in Token : shard'.map[k] = IF tok[t] = k THEN NoNode ELSE shard.map[k]
    BY <1>3, <2>1 DEF Erase
  <2> QED
    BY <1>3, <2>1, <2>2, EraseShrinks DEF Typed
<1> QED
  BY <1>2, <1>3 DEF DropExpired

\* An insertion makes room, only in a full shard, and pushes one node.
LEMMA InsertShape ==
    ASSUME Typed, NEW t \in Thread, Insert(t)
    PROVE  \E n \in Node :
             /\ Shrunk(shard, MakeRoom(shard))
             /\ ~Full(shard) => MakeRoom(shard) = shard
             /\ n \notin MakeRoom(shard).nodes
             /\ shard' = PushFront(MakeRoom(shard), n, tok[t])
  BY MakeRoomShrinks DEF Insert, Typed

LEMMA LifeStep == Typed /\ Timed /\ [Next]_vars => LifeBound'
<1> SUFFICES ASSUME Typed, Timed, [Next]_vars PROVE LifeBound'
  OBVIOUS
<1> USE TokenAssumption
<1>a. /\ shard \in Shard /\ quiet \in [Token -> 0..CacheTtl] /\ LifeBound
      /\ \A n \in shard.nodes : /\ shard.key[n] \in Token /\ n \in Node
                                /\ shard.life[n] \in Nat
      /\ \A k \in Token : quiet[k] \in 0..CacheTtl
  BY DEF Typed, Sound, Shard, ThreadTypes, Timed
<1>b. ASSUME \A k \in Token : quiet'[k] \in 0..CacheTtl /\ quiet'[k] <= quiet[k],
             shard'.nodes \subseteq shard.nodes,
             \A n \in shard'.nodes : /\ shard'.key[n] = shard.key[n]
                                     /\ shard'.life[n] = shard.life[n]
      PROVE  LifeBound'
  BY <1>a, <1>b DEF LifeBound
<1>t. quiet' \in [Token -> 0..CacheTtl]
  BY TypedStep DEF Typed, ThreadTypes
<1>1. ASSUME NEW t \in Thread, NEW k \in Token, LocalHit(t, k) PROVE LifeBound'
  BY <1>1, <1>a, <1>b, <1>t, GoodQuiet DEF LocalHit
<1>2. ASSUME NEW t \in Thread, NEW k \in Token, Hit(t, k) PROVE LifeBound'
  <2> DEFINE n == shard.map[k]
  <2>1. /\ n \in shard.nodes /\ shard.key[n] = k /\ Good(k)
        /\ shard'.nodes = shard.nodes /\ shard'.key = shard.key
        /\ shard'.life = [shard.life EXCEPT ![n] = CacheTtl]
    BY <1>2 DEF Hit, Fresh, Slide, Typed, Sound, Shard
  <2>2. shard.life \in [Node -> 0..CacheTtl]
    BY DEF Typed, Sound, Shard
  <2> HIDE DEF n
  <2>3. \A m \in shard.nodes : shard'.life[m] = IF m = n THEN CacheTtl ELSE shard.life[m]
    BY <1>a, <2>1, <2>2
  <2> QED
    BY <2>1, <2>3, <1>a, <1>t, GoodQuiet DEF LifeBound
<1>3. ASSUME UNCHANGED <<shard, quiet>> PROVE LifeBound'
  BY <1>3 DEF Timed, LifeBound
<1>4. ASSUME NEW t \in Thread, Promote(t) PROVE LifeBound'
  <2>1. CASE shard.map[tok[t]] # NoNode
    <3>1. tok[t] \in Token
      BY <1>4 DEF Promote, Typed, ThreadTypes
    <3>2. /\ shard.map[tok[t]] \in shard.nodes /\ Good(tok[t])
          /\ shard' = ToFront(shard, shard.map[tok[t]])
      BY <1>4, <2>1, <3>1 DEF Promote, Typed, Sound
    <3>3. shard'.nodes = shard.nodes /\ shard'.key = shard.key /\ shard'.life = shard.life
      BY <3>2, ToFrontSound DEF Typed
    <3> QED
      BY <3>1, <3>2, <3>3, <1>a, <1>b, <1>t, GoodQuiet
  <2>2. CASE shard.map[tok[t]] = NoNode
    BY <1>3, <1>4, <2>2 DEF Promote
  <2> QED
    BY <2>1, <2>2
<1>5. ASSUME NEW t \in Thread, DropExpired(t) PROVE LifeBound'
  <2>1. UNCHANGED quiet /\ Shrunk(shard, shard')
    BY <1>5, DropShape DEF DropExpired
  <2>2. \A k \in Token : quiet'[k] \in 0..CacheTtl /\ quiet'[k] <= quiet[k]
    BY <1>a, <2>1
  <2>3. /\ shard'.nodes \subseteq shard.nodes
        /\ \A n \in shard'.nodes : /\ shard'.key[n] = shard.key[n]
                                   /\ shard'.life[n] = shard.life[n]
    BY <2>1 DEF Shrunk
  <2> QED
    BY <1>b, <2>2, <2>3
<1>6. ASSUME NEW t \in Thread, Insert(t) PROVE LifeBound'
  <2>1. tok[t] \in Token /\ Good(tok[t])
    BY <1>6 DEF Insert, Typed, ThreadTypes
  <2>2. PICK n \in Node : /\ Shrunk(shard, MakeRoom(shard))
                          /\ n \notin MakeRoom(shard).nodes
                          /\ shard' = PushFront(MakeRoom(shard), n, tok[t])
    BY <1>6, InsertShape
  <2>3. /\ shard'.nodes = MakeRoom(shard).nodes \cup {n}
        /\ shard'.key[n] = tok[t] /\ shard'.life[n] = CacheTtl
        /\ \A m \in Node \ {n} : /\ shard'.key[m] = MakeRoom(shard).key[m]
                                 /\ shard'.life[m] = MakeRoom(shard).life[m]
    BY <2>1, <2>2, PushSound DEF Shrunk
  <2>4. \A m \in shard'.nodes \ {n} : /\ m \in shard.nodes
                                      /\ shard'.key[m] = shard.key[m]
                                      /\ shard'.life[m] = shard.life[m]
    BY <1>a, <2>2, <2>3 DEF Shrunk
  <2> QED
    BY <2>1, <2>3, <2>4, <1>a, <1>t, GoodQuiet DEF LifeBound
<1>7. ASSUME NEW t \in Thread, CacheNew(t) PROVE LifeBound'
  <2>1. tok[t] \in Token /\ Good(tok[t])
    BY <1>7 DEF CacheNew, Typed, ThreadTypes
  <2>2. PICK n \in Node \ shard.nodes : shard' = PushFront(shard, n, tok[t])
    BY <1>7 DEF CacheNew
  <2>3. /\ shard'.nodes = shard.nodes \cup {n}
        /\ shard'.key[n] = tok[t] /\ shard'.life[n] = CacheTtl
        /\ \A m \in Node \ {n} : /\ shard'.key[m] = shard.key[m]
                                 /\ shard'.life[m] = shard.life[m]
    BY <2>1, <2>2, PushSound DEF Typed
  <2> QED
    BY <2>1, <2>3, <1>a, <1>t, GoodQuiet DEF LifeBound
<1>8. CASE Tick
  <2>1. /\ shard'.nodes = shard.nodes /\ shard'.key = shard.key
        /\ \A n \in Node : shard'.life[n] = Down(shard.life[n])
        /\ \A k \in Token : quiet'[k] = Up(quiet[k], CacheTtl)
    BY <1>8 DEF Tick, Typed, Sound, Shard
  <2> QED
    BY <2>1, <1>a DEF LifeBound, Up, Down
<1>9. CASE Restart
  BY <1>9 DEF Restart, EmptyShard, LifeBound
<1> QED
  BY <1>1, <1>2, <1>3, <1>4, <1>5, <1>6, <1>7, <1>8, <1>9
     DEF Next, Request, Serve, Miss, Login, Ask, Refuse, Renew, vars

LEMMA LocalStep == Typed /\ Timed /\ [Next]_vars => LocalBound'
<1> SUFFICES ASSUME Typed, Timed, [Next]_vars PROVE LocalBound'
  OBVIOUS
<1> USE TokenAssumption
<1>a. /\ quiet \in [Token -> 0..CacheTtl] /\ lastAge \in [Thread -> 0..LocalTtl]
      /\ last \in [Thread -> known \cup {NoToken}] /\ known \subseteq Token
      /\ \A k \in Token : quiet[k] \in 0..CacheTtl
      /\ LocalBound
  BY DEF Typed, ThreadTypes, Timed
<1>b. ASSUME NEW k \in Token, Good(k), UNCHANGED localVars PROVE LocalBound'
  BY <1>a, <1>b, GoodQuiet, TypedStep DEF localVars, LocalBound, Typed, ThreadTypes
<1>c. ASSUME NEW t \in Thread, tok[t] \in Token, Good(tok[t]), Answer(t) PROVE LocalBound'
  <2>1. /\ last' = [last EXCEPT ![t] = tok[t]] /\ lastAge' = [lastAge EXCEPT ![t] = 0]
    BY <1>c DEF Answer
  <2>2. /\ quiet'[tok[t]] = 0
        /\ \A j \in Token : quiet'[j] <= quiet[j] /\ quiet'[j] \in 0..CacheTtl
    BY <1>c, GoodQuiet, TypedStep DEF Typed, ThreadTypes
  <2> QED
    BY <1>a, <2>1, <2>2 DEF LocalBound
<1>1. ASSUME NEW t \in Thread, NEW k \in Token, LocalHit(t, k) \/ Hit(t, k) PROVE LocalBound'
  BY <1>1, <1>b DEF LocalHit, Hit
<1>2. ASSUME UNCHANGED <<quiet, localVars>> PROVE LocalBound'
  BY <1>2, <1>a DEF localVars, LocalBound
<1>3. ASSUME NEW t \in Thread, Promote(t) PROVE LocalBound'
  <2>1. tok[t] \in Token
    BY <1>3 DEF Promote, Typed, ThreadTypes
  <2> QED
    BY <1>2, <1>3, <1>c, <2>1 DEF Promote
<1>4. ASSUME NEW t \in Thread, Insert(t) PROVE LocalBound'
  <2>1. tok[t] \in Token
    BY <1>4 DEF Insert, Typed, ThreadTypes
  <2> QED
    BY <1>4, <1>c, <2>1 DEF Insert
<1>5. ASSUME NEW t \in Thread, CacheNew(t) PROVE LocalBound'
  <2>1. tok[t] \in Token
    BY <1>5 DEF CacheNew, Typed, ThreadTypes
  <2> QED
    BY <1>5, <1>b, <2>1 DEF CacheNew
<1>6. CASE Tick
  <2>1. /\ last' = last
        /\ \A t \in Thread : lastAge'[t] = Up(lastAge[t], LocalTtl)
        /\ \A k \in Token : quiet'[k] = Up(quiet[k], CacheTtl)
    BY <1>6 DEF Tick
  <2>2. ASSUME NEW t \in Thread, last[t] # NoToken, lastAge'[t] < LocalTtl
        PROVE  quiet'[last[t]] <= lastAge'[t]
    <3>1. last[t] \in Token /\ lastAge[t] < LocalTtl /\ lastAge'[t] = lastAge[t] + 1
      BY <1>a, <2>1, <2>2 DEF Up
    <3> QED
      BY <1>a, <2>1, <2>2, <3>1 DEF Up, LocalBound
  <2> QED
    BY <2>1, <2>2 DEF LocalBound
<1>7. CASE Restart
  BY <1>7 DEF Restart, LocalBound
<1> QED
  BY <1>1, <1>2, <1>3, <1>4, <1>5, <1>6, <1>7
     DEF Next, Request, Serve, Miss, Login, DropExpired, Ask, Refuse, Renew, vars

\* What a step of thread t may change of another's wait.
LEMMA OthersWait ==
    ASSUME Typed, NEW t \in Thread, NEW step, NEW k, Go(t, step, k), step # "promote"
    PROVE  \A u \in Thread : pc'[u] = "promote" =>
              u # t /\ pc[u] = "promote" /\ tok'[u] = tok[u] /\ since'[u] = since[u]
  BY DEF Typed, ThreadTypes, Go

LEMMA PromoteStep == Typed /\ Timed /\ [Next]_vars => PromoteBound'
<1> SUFFICES ASSUME Typed, Timed, [Next]_vars, ~everFull' PROVE
              \A t \in Thread : pc'[t] = "promote" => InTime(t)'
  BY DEF PromoteBound
<1> USE TokenAssumption
<1>a. /\ \A k \in Token : shard.map[k] # NoNode =>
            /\ shard.map[k] \in shard.nodes /\ shard.map[k] \in Node
            /\ shard.life[shard.map[k]] \in 0..CacheTtl
  BY DEF Typed, Sound, Shard
<1>d. \A t \in Thread : /\ since[t] \in 0..CacheTtl
                        /\ pc[t] = "promote" => tok[t] \in Token
  BY DEF Typed, ThreadTypes
<1>p. ~everFull => \A t \in Thread : pc[t] = "promote" => InTime(t)
  BY Zenon DEF Timed, PromoteBound
\* It is enough that waiting threads wait on, and what they wait for stays.
<1>b. ASSUME ~everFull,
             \A u \in Thread : pc'[u] = "promote" =>
                pc[u] = "promote" /\ tok'[u] = tok[u] /\ since'[u] = since[u],
             \A k \in Token : shard.map[k] # NoNode /\ shard.life[shard.map[k]] > 0 =>
                /\ shard'.map[k] # NoNode
                /\ shard'.life[shard'.map[k]] \in 0..CacheTtl
                /\ shard'.life[shard'.map[k]] >= shard.life[shard.map[k]]
      PROVE  \A u \in Thread : pc'[u] = "promote" => InTime(u)'
  <2> SUFFICES ASSUME NEW u \in Thread, pc'[u] = "promote" PROVE InTime(u)'
    OBVIOUS
  <2>1. InTime(u) /\ tok[u] \in Token
    BY <1>b, <1>d, <1>p
  <2>2. CASE since[u] = CacheTtl
    BY <1>b, <2>2 DEF InTime
  <2>3. CASE since[u] # CacheTtl
    <3>1. shard.map[tok[u]] # NoNode /\ shard.life[shard.map[tok[u]]] + since[u] >= CacheTtl
      BY <2>1, <2>3 DEF InTime
    <3>2. shard.life[shard.map[tok[u]]] > 0
      <4>1. shard.life[shard.map[tok[u]]] \in 0..CacheTtl /\ since[u] \in 0..CacheTtl
        BY <1>a, <1>d, <2>1, <3>1
      <4> QED
        BY <2>3, <3>1, <4>1
    <3>3. /\ shard'.map[tok[u]] # NoNode
          /\ shard'.life[shard'.map[tok[u]]] \in 0..CacheTtl
          /\ shard'.life[shard'.map[tok[u]]] >= shard.life[shard.map[tok[u]]]
          /\ tok'[u] = tok[u] /\ since'[u] = since[u]
      BY <1>b, <2>1, <3>1, <3>2
    <3>4. shard.life[shard.map[tok[u]]] \in 0..CacheTtl /\ since[u] \in 0..CacheTtl
      BY <1>a, <1>d, <2>1, <3>1
    <3>5. shard'.life[shard'.map[tok[u]]] + since[u] >= CacheTtl
      BY <3>1, <3>3, <3>4
    <3> QED
      BY <3>3, <3>5 DEF InTime
  <2> QED
    BY <2>2, <2>3
<1>c. /\ \A k \in Token : shard'.map[k] # NoNode =>
            shard'.map[k] \in shard'.nodes /\ shard'.life[shard'.map[k]] \in 0..CacheTtl
  BY TypedStep DEF Typed, Sound, Shard
<1>1. ASSUME UNCHANGED <<shard, everFull>>,
             \A u \in Thread : pc'[u] = "promote" =>
                pc[u] = "promote" /\ tok'[u] = tok[u] /\ since'[u] = since[u]
      PROVE  \A u \in Thread : pc'[u] = "promote" => InTime(u)'
  BY <1>1, <1>a, <1>b
<1>2. ASSUME NEW t \in Thread, NEW k \in Token, Hit(t, k)
      PROVE  \A u \in Thread : pc'[u] = "promote" => InTime(u)'
  <2> DEFINE n == shard.map[k]
  <2>1. /\ n \in shard.nodes /\ n \in Node /\ n # NoNode /\ shard'.map = shard.map
        /\ shard'.life = [shard.life EXCEPT ![n] = CacheTtl]
        /\ shard.life \in [Node -> 0..CacheTtl]
        /\ Go(t, "promote", k) /\ "promote" \in Step /\ k # NoToken
    BY <1>2 DEF Hit, Fresh, Slide, Typed, Sound, Shard, Step
  <2>2. /\ tok'[t] = k /\ since'[t] = 0
        /\ \A u \in Thread \ {t} : pc'[u] = pc[u] /\ tok'[u] = tok[u]
                                  /\ since'[u] = since[u]
    BY <2>1, GoTyped
  <2>3. \A m \in Node : shard'.life[m] = IF m = n THEN CacheTtl ELSE shard.life[m]
    BY <2>1
  <2>4. shard'.map[k] = n /\ shard'.life[n] = CacheTtl
    BY <2>1, <2>3
  <2> HIDE DEF n
  <2>5. InTime(t)'
    BY <2>1, <2>2, <2>4 DEF InTime
  <2>6. ASSUME NEW u \in Thread \ {t}, pc'[u] = "promote" PROVE InTime(u)'
    <3>1. /\ pc[u] = "promote" /\ tok'[u] = tok[u] /\ since'[u] = since[u]
          /\ tok[u] \in Token
      BY <1>d, <2>2, <2>6
    <3>2. InTime(u)
      BY <1>2, <1>p, <3>1 DEF Hit
    <3>3. CASE since[u] = CacheTtl
      BY <3>1, <3>3 DEF InTime
    <3>4. CASE shard.map[tok[u]] # NoNode
               /\ shard.life[shard.map[tok[u]]] + since[u] >= CacheTtl
      <4>1. shard'.life[shard.map[tok[u]]] \in {CacheTtl, shard.life[shard.map[tok[u]]]}
        BY <1>a, <2>3, <3>1, <3>4
      <4>2. shard.life[shard.map[tok[u]]] \in 0..CacheTtl /\ since[u] \in 0..CacheTtl
        BY <1>a, <1>d, <3>1, <3>4
      <4>3. shard'.life[shard.map[tok[u]]] + since[u] >= CacheTtl
        BY <3>4, <4>1, <4>2
      <4> QED
        BY <2>1, <3>1, <3>4, <4>3 DEF InTime
    <3> QED
      BY <3>2, <3>3, <3>4 DEF InTime
  <2> QED
    BY <2>5, <2>6
<1>3. ASSUME NEW t \in Thread, Promote(t)
      PROVE  \A u \in Thread : pc'[u] = "promote" => InTime(u)'
  <2>1. CASE shard.map[tok[t]] # NoNode
    <3>1. tok[t] \in Token /\ Go(t, "idle", NoToken) /\ UNCHANGED everFull
      BY <1>3, <2>1 DEF Promote, Answer, Typed, ThreadTypes
    <3>2. /\ shard.map[tok[t]] \in shard.nodes
          /\ shard' = ToFront(shard, shard.map[tok[t]])
      BY <1>3, <2>1, <3>1 DEF Promote, Typed, Sound
    <3>3. shard'.map = shard.map /\ shard'.life = shard.life
      BY <3>2, ToFrontSound DEF Typed
    <3> QED
      BY <3>1, <3>3, <1>a, <1>b, OthersWait
  <2>2. CASE shard.map[tok[t]] = NoNode
    BY <1>1, <1>3, <2>2 DEF Promote, threadVars
  <2> QED
    BY <2>1, <2>2
<1>4. ASSUME NEW t \in Thread, DropExpired(t)
      PROVE  \A u \in Thread : pc'[u] = "promote" => InTime(u)'
  <2>1. /\ Shrunk(shard, shard') /\ Go(t, "ask", tok[t]) /\ UNCHANGED everFull
        /\ \A k \in Token : shard.map[k] # NoNode /\ shard'.map[k] = NoNode
                                => shard.life[shard.map[k]] = 0
    BY <1>4, DropShape DEF DropExpired
  <2>2. ASSUME NEW k \in Token, shard.map[k] # NoNode, shard.life[shard.map[k]] > 0
        PROVE  /\ shard'.map[k] # NoNode
               /\ shard'.life[shard'.map[k]] \in 0..CacheTtl
               /\ shard'.life[shard'.map[k]] >= shard.life[shard.map[k]]
    <3>1. shard'.map[k] # NoNode
      BY <1>a, <2>1, <2>2
    <3>2. shard'.map[k] = shard.map[k] /\ shard'.map[k] \in shard'.nodes
      BY <1>c, <2>1, <3>1 DEF Shrunk
    <3> QED
      BY <1>a, <2>1, <2>2, <3>1, <3>2 DEF Shrunk
  <2> QED
    BY <1>b, <2>1, <2>2, OthersWait
<1>5. ASSUME NEW t \in Thread, Insert(t) \/ CacheNew(t)
      PROVE  \A u \in Thread : pc'[u] = "promote" => InTime(u)'
  <2>1. tok[t] \in Token /\ Go(t, "idle", NoToken) /\ ~everFull
    <3>1. tok[t] \in Token /\ Go(t, "idle", NoToken)
      BY <1>5 DEF Insert, CacheNew, Answer, Typed, ThreadTypes
    <3>2. everFull => everFull'
      BY <1>5, Zenon DEF Insert, CacheNew
    <3> QED
      BY <3>1, <3>2
  <2>2. PICK n \in Node \ shard.nodes : shard' = PushFront(shard, n, tok[t])
    BY <1>5, InsertShape DEF Insert, CacheNew
  <2>3. /\ shard'.life[n] = CacheTtl /\ shard'.map[tok[t]] = n
        /\ \A m \in Node \ {n} : shard'.life[m] = shard.life[m]
        /\ \A j \in Token \ {tok[t]} : shard'.map[j] = shard.map[j]
    BY <2>1, <2>2, PushSound DEF Typed
  <2>4. ASSUME NEW k \in Token, shard.map[k] # NoNode
        PROVE  /\ shard'.map[k] # NoNode
               /\ shard'.life[shard'.map[k]] \in 0..CacheTtl
               /\ shard'.life[shard'.map[k]] >= shard.life[shard.map[k]]
    <3>1. CASE k = tok[t]
      BY <1>a, <2>2, <2>3, <2>4, <3>1
    <3>2. CASE k # tok[t]
      BY <1>a, <2>2, <2>3, <2>4, <3>2
    <3> QED
      BY <3>1, <3>2
  <2> QED
    BY <1>b, <2>1, <2>4, OthersWait
<1>6. CASE Tick
  <2>1. /\ shard'.map = shard.map /\ \A n \in Node : shard'.life[n] = Down(shard.life[n])
        /\ pc' = pc /\ tok' = tok /\ ~everFull
        /\ \A t \in Thread : pc[t] = "promote" => since'[t] = Up(since[t], CacheTtl)
    BY <1>6 DEF Tick, Typed, Sound, Shard
  <2>2. ASSUME NEW u \in Thread, pc[u] = "promote" PROVE InTime(u)'
    <3>1. InTime(u) /\ tok[u] \in Token /\ since[u] \in 0..CacheTtl
      BY <1>d, <1>p, <2>1, <2>2
    <3>2. CASE since[u] = CacheTtl
      BY <2>1, <2>2, <3>2 DEF InTime, Up
    <3>3. CASE since[u] < CacheTtl
      <4>1. /\ shard.map[tok[u]] # NoNode /\ shard.map[tok[u]] \in Node
            /\ shard.life[shard.map[tok[u]]] \in 0..CacheTtl
            /\ shard.life[shard.map[tok[u]]] + since[u] >= CacheTtl
        BY <1>a, <3>1, <3>3 DEF InTime
      <4>2. since'[u] = since[u] + 1
        BY <2>1, <2>2, <3>3 DEF Up
      <4>3. shard'.life[shard.map[tok[u]]] = shard.life[shard.map[tok[u]]] - 1
        BY <2>1, <3>1, <3>3, <4>1 DEF Down
      <4> QED
        BY <2>1, <3>1, <4>1, <4>2, <4>3 DEF InTime
    <3> QED
      BY <3>1, <3>2, <3>3
  <2> QED
    BY <2>1, <2>2
<1>7. CASE Restart
  BY <1>7 DEF Restart
<1>8. ASSUME NEW t \in Thread, NEW k \in Token,
             LocalHit(t, k) \/ Miss(t, k) \/ Login(t, k) \/ Ask(t) \/ Refuse(t) \/ Renew(t)
      PROVE  \A u \in Thread : pc'[u] = "promote" => InTime(u)'
  <2>1. UNCHANGED <<shard, everFull>>
    BY <1>8 DEF LocalHit, Miss, Login, Ask, Refuse, Renew
  <2>2. \/ UNCHANGED threadVars
        \/ \E step \in Step \ {"promote"}, j \in Token \cup {NoToken} : Go(t, step, j)
    BY <1>8 DEF LocalHit, Miss, Login, Ask, Refuse, Renew, Step, Typed, ThreadTypes
  <2> QED
    BY <1>1, <2>1, <2>2, OthersWait DEF threadVars
<1>9. CASE UNCHANGED vars
  BY <1>1, <1>9 DEF vars, threadVars
<1>10. ASSUME NEW t \in Thread, Ask(t) \/ Refuse(t) \/ Renew(t)
       PROVE  \A u \in Thread : pc'[u] = "promote" => InTime(u)'
  <2>1. tok[t] \in Token
    BY <1>10 DEF Ask, Refuse, Renew, Typed, ThreadTypes
  <2> QED
    BY <1>8, <1>10, <2>1
<1> QED
  BY <1>2, <1>3, <1>4, <1>5, <1>6, <1>7, <1>8, <1>9, <1>10 DEF Next, Request, Serve

\* A crash comes of a wait that is not in time; afterwards only time passes.
LEMMA CrashStep == Typed /\ Timed /\ [Next]_vars => CrashBound'
<1> SUFFICES ASSUME Typed, Timed, [Next]_vars PROVE CrashBound'
  OBVIOUS
<1>1. ASSUME NEW t \in Thread, ~crashed, Promote(t) PROVE CrashBound'
  <2>1. CASE shard.map[tok[t]] # NoNode
    <3>1. UNCHANGED crashed
      BY <1>1, <2>1 DEF Promote
    <3> QED
      BY <1>1, <3>1, Zenon DEF CrashBound
  <2>2. CASE shard.map[tok[t]] = NoNode
    <3>1. pc[t] = "promote" /\ UNCHANGED threadVars
      BY <1>1, <2>2 DEF Promote
    <3>2. UNCHANGED everFull
      BY <1>1, Zenon DEF Promote
    <3>3. everFull \/ InTime(t)
      BY <3>1, Zenon DEF Timed, PromoteBound
    <3>4. InTime(t) => Stalled'
      BY <2>2, <3>1 DEF InTime, Stalled, threadVars
    <3> QED
      BY <3>2, <3>3, <3>4, Zenon DEF CrashBound
  <2> QED
    BY <2>1, <2>2
<1>2. CASE Tick
  <2>1. UNCHANGED <<crashed, everFull>>
    BY <1>2, Zenon DEF Tick
  <2>2. Stalled => Stalled'
    BY <1>2, TokenAssumption DEF Tick, Stalled, Up
  <2> QED
    BY <2>1, <2>2, Zenon DEF Timed, CrashBound
<1>3. CASE Restart
  BY <1>3, Zenon DEF Restart, CrashBound
<1>4. ASSUME ~crashed, UNCHANGED crashed PROVE CrashBound'
  BY <1>4, Zenon DEF CrashBound
<1>5. CASE UNCHANGED vars
  <2>1. UNCHANGED <<crashed, everFull>>
    BY <1>5, Zenon DEF vars
  <2>2. Stalled => Stalled'
    BY <1>5 DEF vars, threadVars, Stalled
  <2> QED
    BY <2>1, <2>2, Zenon DEF Timed, CrashBound
<1> QED
  BY <1>1, <1>2, <1>3, <1>4, <1>5 DEF Next

LEMMA TimedHolds == Spec => [](Typed /\ Timed)
<1>1. Init => Typed /\ Timed
  <2> SUFFICES ASSUME Init PROVE Typed /\ Timed
    OBVIOUS
  <2>1. Typed
    BY TypedInit
  <2>2. LifeBound /\ LocalBound
    BY DEF Init, EmptyShard, LifeBound, LocalBound
  <2>3. PromoteBound
    <3>1. \A t \in Thread : pc[t] # "promote"
      BY DEF Init
    <3> QED
      BY <3>1, Zenon DEF PromoteBound
  <2>4. CrashBound
    BY Zenon DEF Init, CrashBound
  <2> QED
    BY <2>1, <2>2, <2>3, <2>4 DEF Timed
<1>2. Typed /\ Timed /\ [Next]_vars => (Typed /\ Timed)'
  <2> SUFFICES ASSUME Typed, Timed, [Next]_vars PROVE Typed' /\ Timed'
    OBVIOUS
  <2>1. Typed' /\ LifeBound' /\ LocalBound' /\ PromoteBound' /\ CrashBound'
    BY TypedStep, LifeStep, LocalStep, PromoteStep, CrashStep
  <2> QED
    BY <2>1, Zenon DEF Timed
<1> QED
  BY <1>1, <1>2, PTL DEF Spec

\* A null iterator needs a full shard or a thread held up for CacheTtl.
THEOREM CrashCorrect == Spec => []CrashNeedsFullOrStall
<1>1. Timed => CrashNeedsFullOrStall
  BY Zenon DEF Timed, CrashBound, Stalled, CrashNeedsFullOrStall
<1> QED
  BY <1>1, TimedHolds, PTL

\* Token k has been idle, and is found good again.
Revived(k) == quiet[k] = CacheTtl /\ quiet'[k] = 0

InHand(k) == \E t \in Thread : tok[t] = k /\ pc[t] \in {"insert", "stored", "promote"}

\* Neither the thread's last token nor the shard revives an idle token.
THEOREM IdleCorrect == Spec => IdleTokenAsksRedis
<1>1. ASSUME Typed, Timed, [Next]_vars, NEW k \in Token, Revived(k) PROVE InHand(k)
  <2> USE TokenAssumption
  <2>a. /\ quiet \in [Token -> 0..CacheTtl]
        /\ \A j \in Token, i \in Token : Good(j) /\ i # j => quiet'[i] = quiet[i]
    BY <1>1 DEF Typed, ThreadTypes, Good
  <2>b. quiet'[k] # quiet[k] /\ quiet[k] = CacheTtl
    BY <1>1 DEF Revived
  <2>1. ASSUME NEW t \in Thread, NEW j \in Token, LocalHit(t, j) PROVE FALSE
    <3>1. j = k
      BY <2>1, <2>a, <2>b DEF LocalHit
    <3>2. /\ last[t] = k /\ lastAge[t] < LocalTtl /\ k # NoToken
          /\ lastAge[t] \in 0..LocalTtl
      BY <1>1, <2>1, <3>1 DEF LocalHit, Remembered, Typed, ThreadTypes
    <3>3. quiet[k] <= lastAge[t]
      BY <1>1, <3>2 DEF Timed, LocalBound
    <3> QED
      BY <2>b, <3>2, <3>3
  <2>2. ASSUME NEW t \in Thread, NEW j \in Token, Hit(t, j) PROVE FALSE
    <3>1. j = k
      BY <2>2, <2>a, <2>b DEF Hit
    <3>2. /\ shard.map[k] \in shard.nodes /\ shard.key[shard.map[k]] = k
          /\ shard.life[shard.map[k]] \in 1..CacheTtl
      BY <1>1, <2>2, <3>1 DEF Hit, Fresh, Typed, Sound, Shard
    <3>3. shard.life[shard.map[k]] + quiet[k] <= CacheTtl
      BY <1>1, <3>2 DEF Timed, LifeBound
    <3> QED
      BY <2>b, <3>2, <3>3
  <2>3. ASSUME NEW t \in Thread, Promote(t) \/ Insert(t) \/ CacheNew(t) PROVE InHand(k)
    <3>1. tok[t] \in Token /\ (UNCHANGED quiet \/ Good(tok[t]))
      BY <1>1, <2>3 DEF Promote, Insert, CacheNew, Typed, ThreadTypes
    <3>2. tok[t] = k
      BY <2>a, <2>b, <3>1
    <3> QED
      BY <2>3, <3>2 DEF Promote, Insert, CacheNew, InHand
  <2>4. CASE Tick
    BY <2>4, <1>1, <2>b DEF Tick, Up, Revived
  <2>5. ASSUME UNCHANGED quiet PROVE FALSE
    BY <2>5, <2>b
  <2> QED
    BY <1>1, <2>1, <2>2, <2>3, <2>4, <2>5
       DEF Next, Request, Serve, Miss, Login, DropExpired, Ask, Refuse, Renew, Restart, vars
<1>2. Typed /\ Timed /\ [Next]_vars =>
        [\A k \in Token : quiet[k] = CacheTtl /\ quiet'[k] = 0
            => \E t \in Thread : tok[t] = k /\ pc[t] \in {"insert", "stored", "promote"}]_vars
  BY <1>1 DEF Revived, InHand
<1> QED
  BY <1>2, TimedHolds, PTL DEF Spec, IdleTokenAsksRedis

\* What is found good is known: it was in the map, in Redis or remembered.
THEOREM IssuedCorrect == Spec => OnlyIssuedTokens
<1>1. ASSUME Typed, [Next]_vars, NEW k \in Token, quiet[k] # 0, quiet'[k] = 0
      PROVE  k \in known'
  <2> USE TokenAssumption
  <2>a. /\ quiet \in [Token -> 0..CacheTtl]
        /\ \A j \in Token : Good(j) => j = k
    BY <1>1 DEF Typed, ThreadTypes, Good
  <2>1. ASSUME NEW t \in Thread, NEW j \in Token, LocalHit(t, j) PROVE k \in known'
    BY <1>1, <2>1, <2>a DEF LocalHit, Remembered, Typed, ThreadTypes
  <2>2. ASSUME NEW t \in Thread, NEW j \in Token, Hit(t, j) PROVE k \in known'
    BY <1>1, <2>2, <2>a DEF Hit, Fresh, Typed, Checked
  <2>3. ASSUME NEW t \in Thread, Promote(t) \/ Insert(t) \/ CacheNew(t) PROVE k \in known'
    <3>1. tok[t] \in Token /\ (UNCHANGED quiet \/ Good(tok[t]))
      BY <1>1, <2>3 DEF Promote, Insert, CacheNew, Typed, ThreadTypes
    <3>2. tok[t] = k
      BY <1>1, <2>a, <3>1
    <3>3. CASE CacheNew(t)
      BY <3>2, <3>3 DEF CacheNew
    <3>4. CASE Promote(t) \/ Insert(t)
      BY <1>1, <3>2, <3>4 DEF Promote, Insert, Typed, Checked
    <3> QED
      BY <2>3, <3>3, <3>4
  <2>4. CASE Tick
    <3>1. quiet'[k] = Up(quiet[k], CacheTtl) /\ quiet[k] \in 0..CacheTtl
      BY <2>4, <2>a DEF Tick
    <3> QED
      BY <1>1, <3>1 DEF Up
  <2>5. ASSUME UNCHANGED quiet PROVE FALSE
    BY <2>5, <1>1
  <2> QED
    BY <1>1, <2>1, <2>2, <2>3, <2>4, <2>5
       DEF Next, Request, Serve, Miss, Login, DropExpired, Ask, Refuse, Renew, Restart, vars
<1>2. Typed /\ [Next]_vars =>
        [\A k \in Token : quiet[k] # 0 /\ quiet'[k] = 0 => k \in known']_vars
  BY <1>1
<1> QED
  BY <1>2, TimedHolds, PTL DEF Spec, OnlyIssuedTokens
=============================================================================
