-------------------------- MODULE MultipartUpload ---------------------------
(***************************************************************************)
(* One multipart upload (src/http/Handlers.cc 722-1004): its chunks in     *)
(* MinIO, the key upload_active in Redis that admits requests, and its     *)
(* entry in active_multipart_uploads, by which the hourly sweep finds what *)
(* is left of it.  Requests overlap as clients retry; every remote call is *)
(* a step.  upload_owner lives and dies with upload_active as long as that *)
(* is looked at, and is left out.                                          *)
(***************************************************************************)
EXTENDS Naturals, FiniteSets

CONSTANTS Caller,     \* concurrent requests and sweeps
          Parts,      \* total_chunks
          MaxFiles,   \* bound: files saved from the upload
          MaxFaults   \* bound: kinds of failure in one behaviour

ASSUME MultipartAssumption ==
    /\ IsFiniteSet(Caller)
    /\ Parts \in Nat \ {0} /\ MaxFiles \in Nat /\ MaxFaults \in Nat

Part == 0 .. Parts - 1

VARIABLES
    active,     \* the key upload_active:<id>
    tracked,    \* the entry in active_multipart_uploads
    old,        \* the entry has its MAX_AGE_SECONDS
    chunks,     \* chunk objects
    due,        \* queued deletions of each chunk
    files,      \* rows saved from this upload
    pc,         \* where each request is
    part,       \* the chunk it is at
    missing,    \* complete found a chunk missing
    lost,       \* history: rows among them whose save reported a failure
    stray,      \* history: chunks put when nobody would remove them any more
    overlap,    \* history: two completes were in progress
    fault       \* history: failures that happened

redis   == <<active, tracked, old>>
local   == <<pc, part, missing>>
rows    == <<files, lost>>
history == <<stray, overlap, fault>>
vars    == <<redis, chunks, due, rows, local, history>>

\* handleMultipartInit: two SETEX and a SADD, whose result is ignored.
Init ==
    /\ active = TRUE
    /\ tracked \in BOOLEAN
    /\ old = FALSE
    /\ chunks = {} /\ due = [p \in Part |-> 0]
    /\ files = 0 /\ lost = 0
    /\ pc = [c \in Caller |-> "idle"]
    /\ part = [c \in Caller |-> 0]
    /\ missing = {}
    /\ stray = {} /\ overlap = FALSE
    /\ fault = IF tracked THEN {} ELSE {"untracked"}

Goto(c, step, p) ==
    /\ pc' = [pc EXCEPT ![c] = step]
    /\ part' = [part EXCEPT ![c] = p]

Fail(kind) ==
    /\ Cardinality(fault \cup {kind}) <= MaxFaults
    /\ fault' = fault \cup {kind}

\* A loop over the chunks is at part[c]; after the last it goes on to step.
Advance(c, step) ==
    IF part[c] + 1 = Parts THEN Goto(c, step, 0) ELSE Goto(c, pc[c], part[c] + 1)

\* deleteObject of one chunk.
Remove(p) ==
    \/ /\ chunks' = chunks \ {p}
       /\ UNCHANGED fault
    \/ /\ Fail("undeleted")
       /\ UNCHANGED chunks

\* Steps of a complete, of a cleanup or sweep that removes the chunks itself.
Completing == {"exists", "compose", "save", "forget"}
Wiping     == {"wipe", "sweep"}
Ending     == {"unwatch", "drop"}

\* A cleanup or sweep has passed chunk p, or no entry leads to it any more.
TooLate(p) ==
    \/ ~tracked
    \/ \E c \in Caller : \/ pc[c] \in Wiping /\ part[c] > p
                         \/ pc[c] \in Ending
-----------------------------------------------------------------------------
(* handleMultipartUploadChunk *)

\* The request is admitted.
Chunk(c, p) ==
    /\ pc[c] = "idle"
    /\ active
    /\ Goto(c, "put", p)
    /\ UNCHANGED <<redis, chunks, due, rows, missing, history>>

\* putObject; a failed one may have stored the chunk, or not.
Put(c) ==
    /\ pc[c] = "put"
    /\ \/ /\ chunks' = chunks \cup {part[c]}
          /\ stray' = IF TooLate(part[c]) THEN stray \cup {part[c]} ELSE stray
       \/ UNCHANGED <<chunks, stray>>
    /\ Goto(c, "idle", 0)
    /\ UNCHANGED <<redis, due, rows, missing, overlap, fault>>
-----------------------------------------------------------------------------
(* handleMultipartComplete *)

\* Mutant: the upload is not looked up.
CompleteAlways(c) ==
    /\ pc[c] = "idle"
    /\ Goto(c, "exists", 0)
    /\ overlap' = (overlap \/ \E d \in Caller : pc[d] \in Completing)
    /\ UNCHANGED <<redis, chunks, due, rows, missing, stray, fault>>

\* The request is admitted.
Complete(c) ==
    /\ pc[c] = "idle"
    /\ active
    /\ Goto(c, "exists", 0)
    /\ overlap' = (overlap \/ \E d \in Caller : pc[d] \in Completing)
    /\ UNCHANGED <<redis, chunks, due, rows, missing, stray, fault>>

\* Mutant: the list of missing chunks outlives the request.
ExistsKeep(c) ==
    /\ pc[c] = "exists"
    /\ \E found \in BOOLEAN :
          /\ found => part[c] \in chunks
          /\ LET lacks == c \in missing \/ ~found IN
             /\ missing' = IF lacks THEN missing \cup {c} ELSE missing
             /\ Advance(c, IF lacks THEN "purge" ELSE "compose")
    /\ UNCHANGED <<redis, chunks, due, rows, history>>

\* objectExists, chunk by chunk; an error counts as missing.
Exists(c) ==
    /\ pc[c] = "exists"
    /\ \E found \in BOOLEAN :
          /\ found => part[c] \in chunks
          /\ LET lacks == c \in missing \/ ~found IN
             /\ missing' = IF lacks /\ part[c] + 1 < Parts
                           THEN missing \cup {c} ELSE missing \ {c}
             /\ Advance(c, IF lacks THEN "purge" ELSE "compose")
    /\ UNCHANGED <<redis, chunks, due, rows, history>>

\* All chunks are deleted when one is missing; the upload stays active.
Purge(c) ==
    /\ pc[c] = "purge"
    /\ Remove(part[c])
    /\ Advance(c, "idle")
    /\ UNCHANGED <<redis, due, rows, missing, stray, overlap>>

\* composeObjects needs every chunk.
Compose(c) ==
    /\ pc[c] = "compose"
    /\ \/ /\ Part \subseteq chunks
          /\ Goto(c, "save", 0)
       \/ Goto(c, "idle", 0)
    /\ UNCHANGED <<redis, chunks, due, rows, missing, history>>

\* save: INSERT.  When it reports a failure the composed object is deleted
\* (FileStore) and the request ends, though the row may be there.
Save(c) ==
    /\ pc[c] = "save"
    /\ \/ /\ files < MaxFiles /\ files' = files + 1
          /\ \/ Goto(c, "forget", 0) /\ UNCHANGED <<lost, fault>>
             \/ Goto(c, "idle", 0) /\ lost' = lost + 1 /\ Fail("unanswered")
       \/ Goto(c, "idle", 0) /\ UNCHANGED <<rows, fault>>
    /\ UNCHANGED <<redis, chunks, due, missing, stray, overlap>>

\* DEL upload_active, its result ignored.
Forget(c) ==
    /\ pc[c] = "forget"
    /\ \/ /\ active' = FALSE
          /\ UNCHANGED fault
       \/ /\ Fail("active")
          /\ UNCHANGED active
    /\ Goto(c, "untrack", 0)
    /\ UNCHANGED <<tracked, old, chunks, due, rows, missing, stray, overlap>>

\* SMEMBERS and SREM; when they fail the entry stays.
Untrack(c) ==
    /\ pc[c] = "untrack"
    /\ tracked' \in {tracked, FALSE}
    /\ Goto(c, "post", 0)
    /\ UNCHANGED <<active, old, chunks, due, rows, missing, history>>

\* Mutant: the answer is sent first, and the deletions are forgotten.
PostNothing(c) ==
    /\ pc[c] = "post"
    /\ Goto(c, "idle", 0)
    /\ UNCHANGED <<redis, chunks, due, rows, missing, history>>

\* The task that deletes the chunks is queued.
Post(c) ==
    /\ pc[c] = "post"
    /\ due' = [p \in Part |-> due[p] + 1]
    /\ Goto(c, "idle", 0)
    /\ UNCHANGED <<redis, chunks, rows, missing, history>>

\* A worker deletes a chunk.
DeleteChunk(p) ==
    /\ due[p] > 0
    /\ due' = [due EXCEPT ![p] = @ - 1]
    /\ Remove(p)
    /\ UNCHANGED <<redis, rows, local, stray, overlap>>
-----------------------------------------------------------------------------
(* handleMultipartCleanup, cleanupOrphanChunks *)

\* The request is admitted.
Cleanup(c) ==
    /\ pc[c] = "idle"
    /\ active
    /\ Goto(c, "wipe", 0)
    /\ UNCHANGED <<redis, chunks, due, rows, missing, history>>

\* Mutant: the age is compared the wrong way round.
SweepYoung(c) ==
    /\ pc[c] = "idle"
    /\ tracked /\ ~old
    /\ Goto(c, "sweep", 0)
    /\ UNCHANGED <<redis, chunks, due, rows, missing, history>>

\* The hourly sweep, or /api/cleanup, has read the entry and finds it old.
Sweep(c) ==
    /\ pc[c] = "idle"
    /\ tracked /\ old
    /\ Goto(c, "sweep", 0)
    /\ UNCHANGED <<redis, chunks, due, rows, missing, history>>

\* deleteObject, chunk by chunk.
Wipe(c) ==
    /\ pc[c] \in Wiping
    /\ Remove(part[c])
    /\ Advance(c, IF pc[c] = "wipe" THEN "unwatch" ELSE "drop")
    /\ UNCHANGED <<redis, due, rows, missing, stray, overlap>>

\* The entry is removed; when that fails the next sweep finds it again.
Unwatch(c) ==
    /\ pc[c] \in Ending
    /\ tracked' \in {tracked, FALSE}
    /\ IF pc[c] = "unwatch" THEN Goto(c, "close", 0) ELSE Goto(c, "idle", 0)
    /\ UNCHANGED <<active, old, chunks, due, rows, missing, history>>

\* cleanup deletes upload_active last of all.
CloseUpload(c) ==
    /\ pc[c] = "close"
    /\ active' \in {active, FALSE}
    /\ Goto(c, "idle", 0)
    /\ UNCHANGED <<tracked, old, chunks, due, rows, missing, history>>
-----------------------------------------------------------------------------
(* Time, and the process *)

\* upload_active expires after 86400s.
Expire ==
    /\ active
    /\ active' = FALSE
    /\ UNCHANGED <<tracked, old, chunks, due, rows, local, history>>

\* cleanup.multipart_ttl_seconds, 86400 as well, from when the entry was made,
\* after the key; rounding to whole seconds is ignored.
GrowOld ==
    /\ ~active /\ ~old
    /\ old' = TRUE
    /\ UNCHANGED <<active, tracked, chunks, due, rows, local, history>>

\* The process dies: requests and queued tasks are gone.
Restart ==
    /\ \/ \E c \in Caller : pc[c] # "idle"
       \/ \E p \in Part : due[p] > 0
    /\ Fail("restart")
    /\ pc' = [c \in Caller |-> "idle"]
    /\ part' = [c \in Caller |-> 0]
    /\ missing' = {}
    /\ due' = [p \in Part |-> 0]
    /\ UNCHANGED <<redis, chunks, rows, stray, overlap>>
-----------------------------------------------------------------------------
Continue(c) ==
    \/ Put(c)
    \/ Exists(c) \/ Purge(c) \/ Compose(c) \/ Save(c)
    \/ Forget(c) \/ Untrack(c) \/ Post(c)
    \/ Wipe(c) \/ Unwatch(c) \/ CloseUpload(c)

Next ==
    \/ \E c \in Caller : \/ Continue(c)
                         \/ Complete(c) \/ Cleanup(c) \/ Sweep(c)
                         \/ \E p \in Part : Chunk(c, p)
    \/ \E p \in Part : DeleteChunk(p)
    \/ Expire \/ GrowOld \/ Restart

Spec == Init /\ [][Next]_vars

\* Requests go on, queued tasks run, time passes, and the sweep comes again
\* every hour, whatever requests are in progress when it does.
Fairness ==
    /\ \A c \in Caller : WF_vars(Continue(c))
    /\ \A p \in Part : WF_vars(DeleteChunk(p))
    /\ WF_vars(Expire) /\ WF_vars(GrowOld)
    /\ SF_vars(\E c \in Caller : Sweep(c))

FairSpec == Spec /\ Fairness
-----------------------------------------------------------------------------
(* Properties *)

TypeOK ==
    /\ active \in BOOLEAN /\ tracked \in BOOLEAN /\ old \in BOOLEAN
    /\ chunks \in SUBSET Part
    /\ due \in [Part -> Nat]
    /\ files \in 0 .. MaxFiles /\ lost \in 0 .. files
    /\ pc \in [Caller -> {"idle", "put", "exists", "purge", "compose", "save",
                          "forget", "untrack", "post", "wipe", "sweep",
                          "unwatch", "drop", "close"}]
    /\ part \in [Caller -> Part]
    /\ missing \in SUBSET {c \in Caller : pc[c] = "exists"}
    /\ stray \in SUBSET Part
    /\ overlap \in BOOLEAN
    /\ fault \in SUBSET {"untracked", "undeleted", "active", "unanswered", "restart"}

\* A failure has happened that leaves chunks nobody looks for.
Leaked == fault \cap {"untracked", "undeleted", "restart"} # {}

\* No chunk is forgotten: the sweep can find it, or its deletion is queued or
\* about to be, unless it was put after a cleanup or the end of the upload had
\* passed it, or a failure that nobody looks at has hit it.
ChunkTracked ==
    \A p \in chunks :
        \/ tracked
        \/ due[p] > 0
        \/ \E c \in Caller : pc[c] = "post"
        \/ p \in stray
        \/ Leaked

\* One upload becomes one file, whatever requests overlap with it and however
\* often they are repeated, unless two completes are in progress at once or
\* the key stays after the first.  A save that was done though it reported a
\* failure leaves its row, and each makes room for one more.
OneFile == files > 1 + lost => overlap \/ fault \cap {"active", "restart"} # {}

\* Completes that overlap may each save a file, but never more than there were
\* requests at a time: the first to delete the key shuts the others out.
FilesBounded ==
    files <= Cardinality(Caller) + lost \/ fault \cap {"active", "restart"} # {}

\* No chunk stays for ever, also of an upload that was abandoned half way.
ChunksGo ==
    \A p \in Part :
        p \in chunks ~> p \notin chunks \/ p \in stray \/ Leaked
=============================================================================
