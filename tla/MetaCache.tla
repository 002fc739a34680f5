----------------------------- MODULE MetaCache -----------------------------
(***************************************************************************)
(* The metadata of one file: its row in MySQL and the hash file_meta:<id>  *)
(* that caches it in Redis, read and written by concurrent handlers        *)
(* through FileMetaDAO (src/storage/FileMeta.cc).  Every remote command is *)
(* a step of its own: hsetex is one HSET per field and then EXPIRE, in a   *)
(* pipeline that other clients' commands may cut into.                     *)
(***************************************************************************)
EXTENDS FiniteSets

CONSTANTS Caller      \* handler threads

VARIABLES
    row,        \* the row of files: "none", or its is_public
    hash,       \* file_meta:<id>, of which these fields matter (below)
    ttl,        \* the hash has an expiry
    lock,       \* lock:meta:<id> exists
    pc,         \* where each caller is
    meta,       \* what its get returns
    snap,       \* what it read from MySQL and writes to the cache
    todo,       \* the fields it has not written yet
    hasLock,    \* hasLock
    missed,     \* history: a change was not purged, or its purge overtook a
                \* writer of an older row, and what it missed may still be shown
    broken      \* history: a Redis connection broke inside a pipeline, and the
                \* hash has had no expiry since

cache  == <<hash, ttl>>
local  == <<meta, snap, todo, hasLock>>
history == <<missed, broken>>
vars   == <<row, cache, lock, pc, local, history>>

Row == {"none", "private", "public"}

(***************************************************************************)
(* A hash: file_id and user_id present or not, is_public as stored, and    *)
(* the __null__ sentinel for a file that does not exist.                   *)
(***************************************************************************)
Field == {"file_id", "user_id", "is_public", "__null__"}
Empty == [f \in Field |-> "unset"]

\* metaToHash, or the sentinel: the fields of a row and their values.
FieldsOf(r) == IF r = "none" THEN {"__null__"} ELSE Field \ {"__null__"}
ValueOf(r, f) ==
    IF f # "is_public" THEN "set" ELSE IF r = "public" THEN "1" ELSE "0"

Missing == [found |-> FALSE, owned |-> FALSE, pub |-> FALSE]

\* Mutant: is_public defaults to "1".
ParseOpen(h) ==
    IF h["__null__"] = "set" \/ h["file_id"] = "unset" THEN Missing
    ELSE [found |-> TRUE, owned |-> h["user_id"] = "set", pub |-> h["is_public"] # "0"]

\* What get makes of a cached hash: the sentinel, or hashToMeta with its
\* defaults for missing fields.
Parse(h) ==
    IF h["__null__"] = "set" \/ h["file_id"] = "unset" THEN Missing
    ELSE [found |-> TRUE, owned |-> h["user_id"] = "set", pub |-> h["is_public"] = "1"]

MetaOf(r) == [found |-> r # "none", owned |-> r # "none", pub |-> r = "public"]

Init ==
    /\ row = "none" /\ hash = Empty /\ ttl = FALSE /\ lock = FALSE
    /\ pc = [c \in Caller |-> "idle"]
    /\ meta = [c \in Caller |-> Missing]
    /\ snap = [c \in Caller |-> "none"]
    /\ todo = [c \in Caller |-> {}]
    /\ hasLock = [c \in Caller |-> FALSE]
    /\ missed = FALSE /\ broken = FALSE

At(c, step) == pc' = [pc EXCEPT ![c] = step]

\* A caller that has read another version of the row than r, and is about to
\* cache it; another than the one that is there.
WriterOtherThan(r) == \E d \in Caller : pc[d] = "write" /\ snap[d] \notin {"none", r}
StaleWriter == WriterOtherThan(row)
-----------------------------------------------------------------------------
(* get *)

\* HGETALL, first and again after the 50ms without the lock.  A Redis call
\* that fails looks like a miss.
Lookup(c) ==
    /\ pc[c] \in {"idle", "nap"}
    /\ \/ /\ hash # Empty
          /\ meta' = [meta EXCEPT ![c] = Parse(hash)]
          /\ At(c, "got")
       \/ /\ At(c, IF pc[c] = "idle" THEN "lock" ELSE "query")
          /\ UNCHANGED meta
    /\ UNCHANGED <<row, cache, lock, snap, todo, hasLock, history>>

\* SET lock NX EX 3
TryLock(c) ==
    /\ pc[c] = "lock"
    /\ \/ /\ ~lock
          /\ lock' = TRUE
          /\ hasLock' = [hasLock EXCEPT ![c] = TRUE]
          /\ At(c, "query")
       \/ /\ At(c, "nap")
          /\ UNCHANGED <<lock, hasLock>>
    /\ UNCHANGED <<row, cache, meta, snap, todo, history>>

\* Mutant: what was not written stays to be written.
LeaveTodo(c, m) ==
    /\ meta' = [meta EXCEPT ![c] = m]
    /\ snap' = [snap EXCEPT ![c] = "none"]
    /\ UNCHANGED todo
    /\ At(c, IF hasLock[c] THEN "unlock" ELSE "got")

\* The end of get: DEL the lock if this call took it, then return m.
Leave(c, m) ==
    /\ meta' = [meta EXCEPT ![c] = m]
    /\ snap' = [snap EXCEPT ![c] = "none"]
    /\ todo' = [todo EXCEPT ![c] = {}]
    /\ At(c, IF hasLock[c] THEN "unlock" ELSE "got")

\* The SELECT.  Without a connection, or when it cannot be executed, nothing
\* is cached.  A row that cannot be fetched after that (the connection breaks,
\* or a column is longer than its buffer) is taken for one that is not there.
Query(c) ==
    /\ pc[c] = "query"
    /\ \/ \E r \in {row, "none"} :
             /\ snap' = [snap EXCEPT ![c] = r]
             /\ todo' = [todo EXCEPT ![c] = FieldsOf(r)]
             /\ At(c, "write")
          /\ UNCHANGED meta
       \/ Leave(c, Missing)
    /\ UNCHANGED <<row, cache, lock, hasLock, history>>

\* One HSET; the order is that of an unordered_map.
WriteField(c) ==
    /\ pc[c] = "write"
    /\ \E f \in todo[c] :
          /\ hash' = [hash EXCEPT ![f] = ValueOf(snap[c], f)]
          /\ todo' = [todo EXCEPT ![c] = @ \ {f}]
    /\ UNCHANGED <<row, ttl, lock, pc, meta, snap, hasLock, history>>

\* Mutant: EXPIRE is sent before the fields, when there is no key yet.
WriteTtlFirst(c) ==
    /\ pc[c] = "write" /\ todo[c] = {}
    /\ UNCHANGED ttl
    /\ Leave(c, MetaOf(snap[c]))
    /\ UNCHANGED <<row, hash, lock, hasLock, history>>

\* EXPIRE, which does nothing when the key is gone.
WriteTtl(c) ==
    /\ pc[c] = "write" /\ todo[c] = {}
    /\ ttl' = (hash # Empty)
    /\ broken' = FALSE
    /\ Leave(c, MetaOf(snap[c]))
    /\ UNCHANGED <<row, hash, lock, hasLock, missed>>

\* hsetex gets no connection, or the one it has breaks half way.
WriteFails(c) ==
    /\ pc[c] = "write"
    /\ \/ todo[c] = FieldsOf(snap[c]) /\ UNCHANGED broken
       \/ todo[c] # FieldsOf(snap[c]) /\ broken' = (hash # Empty /\ ~ttl)
    /\ Leave(c, MetaOf(snap[c]))
    /\ UNCHANGED <<row, cache, lock, hasLock, missed>>

\* DEL of the lock, whoever has it by now; it may fail.
Unlock(c) ==
    /\ pc[c] = "unlock"
    /\ lock' \in {FALSE, lock}
    /\ hasLock' = [hasLock EXCEPT ![c] = FALSE]
    /\ At(c, "got")
    /\ UNCHANGED <<row, cache, meta, snap, todo, history>>
-----------------------------------------------------------------------------
(* The handlers *)

\* The metadata is not used again.
Forget(c) == meta' = [meta EXCEPT ![c] = Missing]

Finish(c) == At(c, "idle") /\ Forget(c)

\* execute reports an error, though the statement, which makes the row r, may
\* have been done: there is no purge.
WriteLost(r) ==
    /\ row' \in {row, r}
    /\ missed' = (missed \/ (row' # row /\ (hash # Empty \/ WriterOtherThan(row'))))

\* The opposite of what get returned.
Toggled(c) ==
    IF row = "none" THEN "none" ELSE IF meta[c].pub THEN "private" ELSE "public"

\* With its metadata a handler answers (access, share, presign; 404 or 403),
\* or goes on to toggle or to delete when the caller owns the file.
Decide(c) ==
    /\ pc[c] = "got"
    /\ \/ Finish(c)
       \/ /\ meta[c].found /\ meta[c].owned
          /\ \/ At(c, "update") /\ UNCHANGED meta
             \/ At(c, "erase") /\ Forget(c)
    /\ UNCHANGED <<row, cache, lock, snap, todo, hasLock, history>>

\* Mutant: the cache is not purged.
UpdateOnly(c) ==
    /\ pc[c] = "update"
    /\ row' = Toggled(c)
    /\ Finish(c)
    /\ UNCHANGED <<cache, lock, snap, todo, hasLock, history>>

\* updatePublic: UPDATE, also of no row.
Update(c) ==
    /\ pc[c] = "update"
    /\ \/ row' = Toggled(c) /\ At(c, "purge") /\ Forget(c) /\ UNCHANGED missed
       \/ WriteLost(Toggled(c)) /\ Finish(c)
    /\ UNCHANGED <<cache, lock, snap, todo, hasLock, broken>>

\* del: DELETE, and the purge only when a row was deleted.
Erase(c) ==
    /\ pc[c] = "erase"
    /\ \/ row # "none" /\ row' = "none" /\ At(c, "purge") /\ UNCHANGED <<meta, missed>>
       \/ WriteLost("none") /\ Finish(c)
    /\ UNCHANGED <<cache, lock, snap, todo, hasLock, broken>>

\* handleBatchDeleteFiles: getValidFileIds asks MySQL, not the cache.
BatchSelect(c) ==
    /\ pc[c] = "idle"
    /\ row # "none"
    /\ At(c, "batch")
    /\ UNCHANGED <<row, cache, lock, local, history>>

\* deleteFilesBatch: DELETE, and the purge whether or not the row was there.
BatchErase(c) ==
    /\ pc[c] = "batch"
    /\ \/ row' = "none" /\ At(c, "purge") /\ UNCHANGED missed
       \/ WriteLost("none") /\ At(c, "idle")
    /\ UNCHANGED <<cache, lock, local, broken>>

\* DEL of the hash; it may fail.
Purge(c) ==
    /\ pc[c] = "purge"
    /\ \/ /\ hash' = Empty /\ ttl' = FALSE
          /\ missed' = StaleWriter /\ broken' = FALSE
       \/ /\ missed' = (missed \/ hash # Empty \/ StaleWriter)
          /\ UNCHANGED <<cache, broken>>
    /\ Finish(c)
    /\ UNCHANGED <<row, lock, snap, todo, hasLock>>

\* save, by an upload or its confirmation: INSERT, and no purge.
Save ==
    /\ row = "none"
    /\ row' = "private"
    /\ UNCHANGED <<cache, lock, pc, local, history>>
-----------------------------------------------------------------------------
(* Redis expires keys *)

Expire ==
    /\ ttl
    /\ hash' = Empty /\ ttl' = FALSE
    /\ missed' = (missed /\ StaleWriter)
    /\ UNCHANGED <<row, lock, pc, local, broken>>

ExpireLock ==
    /\ lock
    /\ lock' = FALSE
    /\ UNCHANGED <<row, cache, pc, local, history>>
-----------------------------------------------------------------------------
\* The steps of a get or a change in progress.
Proceed(c) ==
    \/ pc[c] = "nap" /\ Lookup(c)
    \/ TryLock(c) \/ Query(c)
    \/ WriteField(c) \/ WriteTtl(c) \/ WriteFails(c) \/ Unlock(c)
    \/ Decide(c) \/ Update(c) \/ Erase(c) \/ BatchErase(c) \/ Purge(c)

Next ==
    \/ \E c \in Caller : Lookup(c) \/ BatchSelect(c) \/ Proceed(c)
    \/ Save \/ Expire \/ ExpireLock

Spec == Init /\ [][Next]_vars

(***************************************************************************)
(* Fairness.  A handler goes on, and Redis expires the hash.  That each    *)
(* remote call ends, possibly in an error, is assumed of the services.     *)
(***************************************************************************)
Fairness == WF_vars(Expire) /\ \A c \in Caller : WF_vars(Proceed(c))
-----------------------------------------------------------------------------
(* Properties *)

\* Every variable has its type; a caller has fields to write only while it
\* writes, and only fields of what it read.
TypeOK ==
    /\ row \in Row
    /\ hash \in [Field -> {"unset", "set", "0", "1"}]
    /\ ttl \in BOOLEAN /\ lock \in BOOLEAN /\ missed \in BOOLEAN /\ broken \in BOOLEAN
    /\ pc \in [Caller -> {"idle", "lock", "nap", "query", "write", "unlock",
                          "got", "update", "erase", "batch", "purge"}]
    /\ meta \in [Caller -> [found : BOOLEAN, owned : BOOLEAN, pub : BOOLEAN]]
    /\ snap \in [Caller -> Row]
    /\ todo \in [Caller -> SUBSET Field]
    /\ hasLock \in [Caller -> BOOLEAN]
    /\ \A c \in Caller : /\ pc[c] # "write" => todo[c] = {}
                         /\ todo[c] \subseteq FieldsOf(snap[c])

\* A hash without an expiry is being written: its writer has written a field
\* and EXPIRE is still to come.  (Or a connection broke in such a pipeline, and
\* the hash has been neither purged nor written to its end since.)
EntryExpires ==
    broken \/ ttl \/ hash = Empty
    \/ \E c \in Caller : pc[c] = "write" /\ todo[c] # FieldsOf(snap[c])

\* While no purge is due, and since the hash was last gone none was left out,
\* failed or overtook a writer, what the cache shows of a file is what MySQL
\* has: no deleted file, no private file as public, also when only some fields
\* are written or two writers mix theirs.
CoherentUnlessMissed ==
    \/ missed
    \/ \E c \in Caller : pc[c] = "purge"
    \/ LET m == Parse(hash) IN
       /\ m.found => row # "none"
       /\ m.pub => row = "public"
       /\ m.found /\ hash["is_public"] = "0" => row = "private"

\* A row that is there cannot be fetched, and is about to be cached as missing.
Misread ==
    \E c \in Caller : pc[c] = "query" /\ pc'[c] = "write" /\ snap'[c] = "none" /\ row # "none"

\* However a purge was missed, it does not last: a file that stays deleted or
\* private is in the end no longer shown as there or public, and one that stays
\* is no longer cached as missing, although save does not purge the sentinel,
\* unless its row time and again cannot be fetched.  (And unless time and again
\* connections break in a pipeline and leave a hash without expiry.)
CacheHeals ==
    <>[]~broken =>
    /\ <>[](row = "none") => <>[](~Parse(hash).found)
    /\ <>[](row # "public") => <>[](~Parse(hash).pub)
    /\ <>[](row # "none") /\ <>[][~Misread]_vars => <>[](hash["__null__"] = "unset")

\* docs/DETAILED.md:46: PUT /api/file/{id}/public switches between public and
\* private, so each successful call flips the row.
ToggleFlips ==
    [][\A c \in Caller :
         pc[c] = "update" /\ pc'[c] = "purge" /\ row # "none" => row' # row]_vars
=============================================================================
