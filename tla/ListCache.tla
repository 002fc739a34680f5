----------------------------- MODULE ListCache ------------------------------
(***************************************************************************)
(* One page of a user's file list (src/http/Handlers.cc): the Redis key    *)
(* that caches it and the set user_files_idx:<user> by which a change      *)
(* finds the keys to delete.  handleListFiles fills both; a handler that   *)
(* has changed a file of the user ends with invalidateUserFilesCache.      *)
(* Each Redis command and each query is a step.  A hit, of Redis or of the *)
(* entry the process keeps for half a second, changes neither.             *)
(***************************************************************************)
CONSTANTS Thread,     \* handler threads
          Content,    \* what the page may show
          NoFiles,    \* the empty page
          NoPage      \* nothing cached

VARIABLES
    content,    \* what MySQL has
    page,       \* the key of the page
    indexed,    \* the index set has that key
    indexShort, \* the index may expire before the page
    lpc,        \* where each thread is
    got,        \* the page a list has read and has yet to store
    purge,      \* the keys a change found in the index include the page's
    spoilt,     \* history: this list met a change, or its query failed
    tainted     \* history: so did the list that wrote the page; or a command
                \* on the page failed, or its index expired first

callVars == <<lpc, got, purge, spoilt>>
listVars == <<content, page, indexed, indexShort, callVars, tainted>>

Listing  == {t \in Thread : lpc[t] \in {"select", "setex", "sadd"}}
Changing == {t \in Thread : lpc[t] \in {"smembers", "delindex", "delpages"}}

ListInit ==
    /\ content \in Content
    /\ page = NoPage /\ indexed = FALSE /\ indexShort = FALSE
    /\ lpc = [t \in Thread |-> "idle"]
    /\ got = [t \in Thread |-> NoPage]
    /\ purge = [t \in Thread |-> FALSE]
    /\ spoilt = [t \in Thread |-> FALSE]
    /\ tainted = FALSE

At(t, step) == lpc' = [lpc EXCEPT ![t] = step]

Done(t) ==
    /\ At(t, "idle")
    /\ got' = [got EXCEPT ![t] = NoPage]
    /\ purge' = [purge EXCEPT ![t] = FALSE]
    /\ spoilt' = [spoilt EXCEPT ![t] = FALSE]
-----------------------------------------------------------------------------
(* handleListFiles *)

\* GET finds nothing: no page, or Redis failed.
Get(t) ==
    /\ lpc[t] = "idle"
    /\ spoilt' = [spoilt EXCEPT ![t] = Changing # {}]
    /\ At(t, "select")
    /\ UNCHANGED <<content, page, indexed, indexShort, got, purge, tainted>>

\* The query; without a connection or on an error the list is empty.
Select(t) ==
    /\ lpc[t] = "select"
    /\ \/ /\ got' = [got EXCEPT ![t] = content]
          /\ UNCHANGED spoilt
       \/ /\ got' = [got EXCEPT ![t] = NoFiles]
          /\ spoilt' = [spoilt EXCEPT ![t] = TRUE]
    /\ At(t, "setex")
    /\ UNCHANGED <<content, page, indexed, indexShort, purge, tainted>>

\* SETEX page 30, which may fail.
SetPage(t) ==
    /\ lpc[t] = "setex"
    /\ \/ /\ page' = got[t]
          /\ indexShort' = TRUE
          /\ tainted' = spoilt[t]
       \/ UNCHANGED <<page, indexShort, tainted>>
    /\ At(t, "sadd")
    /\ UNCHANGED <<content, indexed, got, purge, spoilt>>

\* Mutant: the page is not entered in the index.
SkipIndex(t) ==
    /\ lpc[t] = "sadd"
    /\ At(t, "expire")
    /\ UNCHANGED <<content, page, indexed, indexShort, got, purge, spoilt, tainted>>

\* SADD
AddIndex(t) ==
    /\ lpc[t] = "sadd"
    /\ \/ indexed' = TRUE /\ UNCHANGED tainted
       \/ tainted' = (tainted \/ ~indexed) /\ UNCHANGED indexed
    /\ At(t, "expire")
    /\ UNCHANGED <<content, page, indexShort, got, purge, spoilt>>

\* EXPIRE index 60
RenewIndex(t) ==
    /\ lpc[t] = "expire"
    /\ indexShort' \in {FALSE, indexShort}
    /\ Done(t)
    /\ UNCHANGED <<content, page, indexed, tainted>>
-----------------------------------------------------------------------------
(* A change, and invalidateUserFilesCache *)

Overtake == spoilt' = [u \in Thread |-> spoilt[u] \/ u \in Listing]

\* A handler has changed a file of the user.
Change(t) ==
    /\ lpc[t] = "idle"
    /\ content' \in Content
    /\ Overtake
    /\ tainted' = (tainted \/ \E u \in Thread : lpc[u] = "sadd")
    /\ At(t, "smembers")
    /\ UNCHANGED <<page, indexed, indexShort, got, purge>>

\* MySQL has committed a change and its answer was lost: the handler
\* answers 500 and leaves the cache alone.
LostChange(t) ==
    /\ lpc[t] = "idle"
    /\ content' \in Content
    /\ Overtake
    /\ tainted' = TRUE
    /\ UNCHANGED <<page, indexed, indexShort, lpc, got, purge>>

\* SMEMBERS
Members(t) ==
    /\ lpc[t] = "smembers"
    /\ \/ /\ purge' = [purge EXCEPT ![t] = indexed]
          /\ UNCHANGED tainted
       \/ /\ tainted' = TRUE
          /\ UNCHANGED purge
    /\ At(t, "delindex")
    /\ UNCHANGED <<content, page, indexed, indexShort, got, spoilt>>

\* DEL of the index, with whatever was added since.
DropIndex(t) ==
    /\ lpc[t] = "delindex"
    /\ indexed' \in {FALSE, indexed}
    /\ \/ purge[t] /\ At(t, "delpages") /\ UNCHANGED <<got, purge, spoilt>>
       \/ ~purge[t] /\ Done(t)
    /\ UNCHANGED <<content, page, indexShort, tainted>>

\* delBatch
DropPages(t) ==
    /\ lpc[t] = "delpages"
    /\ \/ page' = NoPage /\ tainted' = FALSE
       \/ tainted' = TRUE /\ UNCHANGED page
    /\ Done(t)
    /\ UNCHANGED <<content, indexed, indexShort>>
-----------------------------------------------------------------------------
ExpirePage ==
    /\ page # NoPage
    /\ page' = NoPage /\ tainted' = FALSE
    /\ UNCHANGED <<content, indexed, indexShort, callVars>>

\* The index lives 60 seconds from its last EXPIRE, the page 30.
ExpireIndex ==
    /\ indexed /\ (page = NoPage \/ indexShort)
    /\ indexed' = FALSE
    /\ tainted' = (tainted \/ page # NoPage)
    /\ UNCHANGED <<content, page, indexShort, callVars>>

\* The process is started again: what threads had to do is lost.
ListRestart ==
    /\ tainted' = (tainted \/ Listing # {} \/ Changing # {})
    /\ lpc' = [t \in Thread |-> "idle"]
    /\ got' = [t \in Thread |-> NoPage]
    /\ purge' = [t \in Thread |-> FALSE]
    /\ spoilt' = [t \in Thread |-> FALSE]
    /\ UNCHANGED <<content, page, indexed, indexShort>>

ListStep(t) ==
    \/ Get(t) \/ Select(t) \/ SetPage(t) \/ AddIndex(t) \/ RenewIndex(t)
    \/ Members(t) \/ DropIndex(t) \/ DropPages(t)

ListTime == ExpirePage \/ ExpireIndex

ListNext ==
    \/ \E t \in Thread : ListStep(t) \/ Change(t) \/ LostChange(t)
    \/ ListTime
    \/ ListRestart

ListSpec == ListInit /\ [][ListNext]_listVars
-----------------------------------------------------------------------------
ListTypes ==
    /\ content \in Content
    /\ page \in Content \cup {NoPage}
    /\ indexed \in BOOLEAN /\ indexShort \in BOOLEAN /\ tainted \in BOOLEAN
    /\ lpc \in [Thread -> {"idle", "select", "setex", "sadd", "expire",
                           "smembers", "delindex", "delpages"}]
    /\ got \in [Thread -> Content \cup {NoPage}]
    /\ purge \in [Thread -> BOOLEAN] /\ spoilt \in [Thread -> BOOLEAN]
    /\ \A t \in Thread : lpc[t] = "setex" => got[t] # NoPage

\* A change under way has found the page, or will find it.
Purging == \E t \in Thread : purge[t] \/ (indexed /\ lpc[t] = "smembers")

(***************************************************************************)
(* The page shows what MySQL has, or a change under way is about to delete *)
(* it - unless the list that wrote it met a change at any moment from its  *)
(* GET to its SADD, or a command failed, or the index expired first.  The  *)
(* handlers' races are confined to lists and changes that overlap: what a  *)
(* quiet list has cached, no later change leaves behind.                   *)
(***************************************************************************)
PageCoherent ==
    page # NoPage /\ ~tainted => page = content \/ Purging
=============================================================================
