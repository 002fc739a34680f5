----------------------------- MODULE TokenCache -----------------------------
(***************************************************************************)
(* What stands between a request and Redis when its token is checked:      *)
(* the last token of the thread (src/http/ControllerHelpers.hpp), one      *)
(* shard of the LRU cache and the Redis key (src/http/Auth.cc).  A shard   *)
(* is a list and a map of iterators into it under a shared_mutex; each     *)
(* critical section is one action, and so is each Redis command.  A hit    *)
(* reads the entry under the shared lock and moves it under the exclusive  *)
(* one: between the two the entry may go.                                  *)
(*                                                                         *)
(* Time is counted in ticks; every deadline is kept as what is left of it. *)
(***************************************************************************)
EXTENDS Naturals, FiniteSets

CONSTANTS Thread,     \* threads that serve requests
          Token,      \* tokens of the shard, their number bounds the logins
          Node,       \* list nodes, their number bounds the list
          Capacity,   \* shard.capacity, 625 in the code
          Scan,       \* nodes cleanExpiredShard looks at, 20 in the code
          LocalTtl,   \* the 30 seconds of tl_lastToken
          CacheTtl,   \* TOKEN_CACHE_TTL_SECONDS, 60 in the code
          RedisTtl,   \* the 86400 seconds of auth_token:<token>
          NoToken, NoNode

ASSUME TokenAssumption ==
    /\ IsFiniteSet(Node)
    /\ Capacity \in Nat \ {0} /\ Scan \in Nat
    /\ LocalTtl \in Nat /\ CacheTtl \in Nat \ {0} /\ RedisTtl \in Nat \ {0}
    /\ LocalTtl <= CacheTtl
    /\ NoToken \notin Token /\ NoNode \notin Node

VARIABLES
    shard,      \* lruList and cache, see Shard
    redis,      \* what is left of the key of each token, 0 when it is gone
    known,      \* tokens a login has answered
    pc,         \* where each thread is in verify or generateToken
    tok,        \* the token it works on
    since,      \* ticks since the entry it is about to move was found
    last,       \* tl_lastToken
    lastAge,    \* age of tl_lastTime
    quiet,      \* ticks since the token was last found good
    everFull,   \* a miss has found the shard at its capacity
    crashed     \* the process has dereferenced a null iterator

threadVars == <<pc, tok, since>>
localVars  == <<last, lastAge>>
vars == <<shard, redis, known, threadVars, localVars, quiet, everFull, crashed>>
-----------------------------------------------------------------------------
(***************************************************************************)
(* The shard: the nodes of lruList, which of two is nearer the front, the  *)
(* token and expire_at of each, and the node the map has for each token.   *)
(* Two misses of one token push two nodes; the map has the later one.      *)
(***************************************************************************)
Shard == [nodes : SUBSET Node, ahead : SUBSET (Node \X Node),
          key : [Node -> Token \cup {NoToken}], life : [Node -> 0..CacheTtl],
          map : [Token -> Node \cup {NoNode}]]

EmptyShard == [nodes |-> {}, ahead |-> {},
               key |-> [n \in Node |-> NoToken], life |-> [n \in Node |-> 0],
               map |-> [k \in Token |-> NoNode]]

Mapped(s)    == {k \in Token : s.map[k] # NoNode}
Full(s)      == Cardinality(Mapped(s)) >= Capacity
Behind(s, n) == {m \in s.nodes : <<n, m>> \in s.ahead}
Back(s)      == {n \in s.nodes : Behind(s, n) = {}}

\* Mutant: the map keeps the iterators of erased nodes.
EraseNodes(s, N) ==
    [s EXCEPT !.nodes = @ \ N,
              !.ahead = {p \in @ : p[1] \notin N /\ p[2] \notin N},
              !.key   = [n \in Node |-> IF n \in N THEN NoToken ELSE @[n]],
              !.life  = [n \in Node |-> IF n \in N THEN 0 ELSE @[n]]]

\* Erase nodes, and from the map whatever node it has for their tokens.
Erase(s, N) ==
    [nodes |-> s.nodes \ N,
     ahead |-> {p \in s.ahead : p[1] \notin N /\ p[2] \notin N},
     key   |-> [n \in Node |-> IF n \in N THEN NoToken ELSE s.key[n]],
     life  |-> [n \in Node |-> IF n \in N THEN 0 ELSE s.life[n]],
     map   |-> [k \in Token |-> IF \E n \in N : s.key[n] = k
                                THEN NoNode ELSE s.map[k]]]

\* emplace_front, and the map points to the new node.
PushFront(s, n, k) ==
    [nodes |-> s.nodes \cup {n},
     ahead |-> s.ahead \cup ({n} \X s.nodes),
     key   |-> [s.key EXCEPT ![n] = k],
     life  |-> [s.life EXCEPT ![n] = CacheTtl],
     map   |-> [s.map EXCEPT ![k] = n]]

\* splice to the front.
ToFront(s, n) ==
    [s EXCEPT !.ahead = {p \in @ : n \notin {p[1], p[2]}}
                        \cup ({n} \X (s.nodes \ {n}))]

\* cleanExpiredShard: the expired among the last nodes, as many as the map
\* has entries and at most Scan.
CleanExpired(s) ==
    LET behind(n) == Cardinality(Behind(s, n))
        scanned == {n \in s.nodes : behind(n) < Scan
                                 /\ behind(n) < Cardinality(Mapped(s))}
    IN Erase(s, {n \in scanned : s.life[n] = 0})

\* Room for one entry: clean, then evict the back.
MakeRoom(s) ==
    LET c == IF Full(s) THEN CleanExpired(s) ELSE s
    IN IF Full(c) THEN Erase(c, Back(c)) ELSE c
-----------------------------------------------------------------------------
Init ==
    /\ shard = EmptyShard
    /\ redis = [k \in Token |-> 0]
    /\ known = {}
    /\ pc = [t \in Thread |-> "idle"]
    /\ tok = [t \in Thread |-> NoToken]
    /\ since = [t \in Thread |-> 0]
    /\ last = [t \in Thread |-> NoToken]
    /\ lastAge = [t \in Thread |-> 0]
    /\ quiet = [k \in Token |-> CacheTtl]
    /\ everFull = FALSE
    /\ crashed = FALSE

Go(t, step, k) ==
    /\ pc' = [pc EXCEPT ![t] = step]
    /\ tok' = [tok EXCEPT ![t] = k]
    /\ since' = [since EXCEPT ![t] = 0]

Good(k) == quiet' = [quiet EXCEPT ![k] = 0]

\* getUserIdFromToken after verify found a user: the thread remembers the
\* token.
Answer(t) ==
    /\ last' = [last EXCEPT ![t] = tok[t]]
    /\ lastAge' = [lastAge EXCEPT ![t] = 0]
    /\ Go(t, "idle", NoToken)

\* The thread's last token is this one, less than 30 seconds ago.
Remembered(t, k) == last[t] = k /\ lastAge[t] < LocalTtl

\* getUserIdFromToken without verify.
LocalHit(t, k) ==
    /\ pc[t] = "idle" /\ Remembered(t, k)
    /\ Good(k)
    /\ UNCHANGED <<shard, redis, known, threadVars, localVars, everFull>>

\* Mutant: expire_at is not compared.
FreshForEver(k) == shard.map[k] # NoNode

\* The map has the token and its entry has not expired.
Fresh(k) == shard.map[k] # NoNode /\ shard.life[shard.map[k]] > 0

\* Mutant: a hit does not move expire_at.
Extend(k) == shard' = shard

\* A hit's new expire_at, written under the shared lock.
Slide(k) == shard' = [shard EXCEPT !.life[shard.map[k]] = CacheTtl]

\* verify finds the entry: it has a user, and has yet to move the node.
Hit(t, k) ==
    /\ pc[t] = "idle" /\ ~Remembered(t, k) /\ Fresh(k)
    /\ Slide(k)
    /\ Good(k)
    /\ Go(t, "promote", k)
    /\ UNCHANGED <<redis, known, localVars, everFull>>

\* verify finds none, or one that has expired.
Miss(t, k) ==
    /\ pc[t] = "idle" /\ ~Remembered(t, k) /\ ~Fresh(k)
    /\ Go(t, "drop", k)
    /\ UNCHANGED <<shard, redis, known, localVars, quiet, everFull>>

\* splice(begin, list, cache[token]): operator[] makes a null iterator of a
\* token that has left the map, and moving it ends the process.
Promote(t) ==
    /\ pc[t] = "promote"
    /\ \/ /\ shard.map[tok[t]] # NoNode
          /\ shard' = ToFront(shard, shard.map[tok[t]])
          /\ Good(tok[t])
          /\ Answer(t)
          /\ UNCHANGED crashed
       \/ /\ shard.map[tok[t]] = NoNode
          /\ crashed' = TRUE
          /\ UNCHANGED <<shard, quiet, threadVars, localVars>>
    /\ UNCHANGED <<redis, known, everFull>>

\* The exclusive section after a miss: an expired entry goes.
DropExpired(t) ==
    /\ pc[t] = "drop"
    /\ LET n == shard.map[tok[t]] IN
       shard' = IF n # NoNode /\ shard.life[n] = 0 THEN Erase(shard, {n}) ELSE shard
    /\ Go(t, "ask", tok[t])
    /\ UNCHANGED <<redis, known, localVars, quiet, everFull>>

\* redis.get has the key; every hundredth miss of a thread renews it.
Ask(t) ==
    /\ pc[t] = "ask" /\ redis[tok[t]] > 0
    /\ \E step \in {"renew", "insert"} : Go(t, step, tok[t])
    /\ UNCHANGED <<shard, redis, known, localVars, quiet, everFull>>

\* Mutant: the token is remembered although verify has no user.
RefuseRemember(t) ==
    /\ pc[t] = "ask"
    /\ Answer(t)
    /\ UNCHANGED <<shard, redis, known, quiet, everFull>>

\* redis.get answers "": no key, or no connection.
Refuse(t) ==
    /\ pc[t] = "ask"
    /\ Go(t, "idle", NoToken)
    /\ UNCHANGED <<shard, redis, known, localVars, quiet, everFull>>

\* expire(key, 86400), which may fail.
Renew(t) ==
    /\ pc[t] = "renew"
    /\ redis' \in {redis, [redis EXCEPT ![tok[t]] = IF @ > 0 THEN RedisTtl ELSE 0]}
    /\ Go(t, "insert", tok[t])
    /\ UNCHANGED <<shard, known, localVars, quiet, everFull>>

\* The exclusive section that caches what Redis answered.  It does not look
\* whether the map has the token by now.
Insert(t) ==
    /\ pc[t] = "insert"
    /\ everFull' = (everFull \/ Full(shard))
    /\ LET room == MakeRoom(shard) IN
       \E n \in Node \ room.nodes : shard' = PushFront(room, n, tok[t])
    /\ Good(tok[t])
    /\ Answer(t)
    /\ UNCHANGED <<redis, known>>

\* generateToken: setex of a new random token.
Login(t, k) ==
    /\ pc[t] = "idle" /\ k \notin known /\ redis[k] = 0
    /\ \A u \in Thread : tok[u] # k
    /\ redis' = [redis EXCEPT ![k] = RedisTtl]
    /\ Go(t, "stored", k)
    /\ UNCHANGED <<shard, known, localVars, quiet, everFull>>

\* generateToken caches it without a look at the capacity, and answers it.
CacheNew(t) ==
    /\ pc[t] = "stored"
    /\ \E n \in Node \ shard.nodes : shard' = PushFront(shard, n, tok[t])
    /\ known' = known \cup {tok[t]}
    /\ Good(tok[t])
    /\ Go(t, "idle", NoToken)
    /\ UNCHANGED <<redis, localVars, everFull>>
-----------------------------------------------------------------------------
Down(x) == IF x > 0 THEN x - 1 ELSE 0
Up(x, top) == IF x < top THEN x + 1 ELSE top

\* Time passes: 30 seconds in the configurations.
Tick ==
    /\ shard' = [shard EXCEPT !.life = [n \in Node |-> Down(@[n])]]
    /\ redis' = [k \in Token |-> Down(redis[k])]
    /\ since' = [t \in Thread |-> IF pc[t] = "promote" THEN Up(since[t], CacheTtl) ELSE 0]
    /\ lastAge' = [t \in Thread |-> Up(lastAge[t], LocalTtl)]
    /\ quiet' = [k \in Token |-> Up(quiet[k], CacheTtl)]
    /\ UNCHANGED <<known, pc, tok, last, everFull, crashed>>

\* The container is started again: the caches are empty, Redis is not.
Restart ==
    /\ crashed
    /\ crashed' = FALSE
    /\ shard' = EmptyShard
    /\ pc' = [t \in Thread |-> "idle"]
    /\ tok' = [t \in Thread |-> NoToken]
    /\ since' = [t \in Thread |-> 0]
    /\ last' = [t \in Thread |-> NoToken]
    /\ lastAge' = [t \in Thread |-> 0]
    /\ everFull' = FALSE
    /\ UNCHANGED <<redis, known, quiet>>

\* Any string may be presented, but no token that Redis has and no login has
\* answered: nobody guesses 32 random characters.
Request(t, k) ==
    \/ /\ k \in known \/ redis[k] = 0
       /\ LocalHit(t, k) \/ Hit(t, k) \/ Miss(t, k)
    \/ Login(t, k)

Serve(t) == DropExpired(t) \/ Ask(t) \/ Refuse(t) \/ Renew(t) \/ Insert(t) \/ CacheNew(t)

Next ==
    \/ \E t \in Thread : /\ ~crashed
                         /\ UNCHANGED crashed
                         /\ Serve(t) \/ \E k \in Token : Request(t, k)
    \/ \E t \in Thread : ~crashed /\ Promote(t)
    \/ Tick
    \/ Restart

Spec == Init /\ [][Next]_vars
-----------------------------------------------------------------------------
(* Correctness properties *)

Step == {"idle", "promote", "drop", "ask", "renew", "insert", "stored"}

\* The types; a thread only remembers tokens that a login has answered.
TypeOK ==
    /\ shard \in Shard
    /\ shard.ahead \subseteq shard.nodes \X shard.nodes
    /\ redis \in [Token -> 0..RedisTtl]
    /\ known \subseteq Token
    /\ pc \in [Thread -> Step]
    /\ tok \in [Thread -> Token \cup {NoToken}]
    /\ \A t \in Thread : (tok[t] = NoToken) <=> (pc[t] = "idle")
    /\ since \in [Thread -> 0..CacheTtl]
    /\ last \in [Thread -> known \cup {NoToken}]
    /\ lastAge \in [Thread -> 0..LocalTtl]
    /\ quiet \in [Token -> 0..CacheTtl]
    /\ everFull \in BOOLEAN /\ crashed \in BOOLEAN

(***************************************************************************)
(* No iterator of the map dangles: what it has for a token is a node of    *)
(* the list that holds this token, although the list may have older nodes  *)
(* of the token and erasing one of those takes the entry from the map.     *)
(* verify follows and splices these iterators, and takes back() of a list  *)
(* it only knows not to be empty because the map is not.                   *)
(***************************************************************************)
MapInList ==
    \A k \in Mapped(shard) :
        /\ shard.map[k] \in shard.nodes
        /\ shard.key[shard.map[k]] = k

(***************************************************************************)
(* verify gives the shared lock up before it moves the node (Auth.cc:94).  *)
(* The null iterator this may lead to needs a shard that has been full, or *)
(* a thread held up for a whole TOKEN_CACHE_TTL_SECONDS between the locks. *)
(***************************************************************************)
CrashNeedsFullOrStall ==
    crashed => \/ everFull
               \/ \E t \in Thread : pc[t] = "promote" /\ since[t] = CacheTtl

(***************************************************************************)
(* A token that nobody has used for TOKEN_CACHE_TTL_SECONDS is only found  *)
(* good on the word of Redis, by a login or a request that had Redis's     *)
(* answer or an entry in hand before: neither cache revives it.            *)
(***************************************************************************)
IdleTokenAsksRedis ==
    [][\A k \in Token : quiet[k] = CacheTtl /\ quiet'[k] = 0
         => \E t \in Thread : tok[t] = k /\ pc[t] \in {"insert", "stored", "promote"}]_vars

\* Only a token that a login has answered is ever found good, whichever of the
\* caches finds it and whatever has been erased from the shard meanwhile.
OnlyIssuedTokens ==
    [][\A k \in Token : quiet[k] # 0 /\ quiet'[k] = 0 => k \in known']_vars
=============================================================================
