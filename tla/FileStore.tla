----------------------------- MODULE FileStore ------------------------------
(***************************************************************************)
(* The files of one user, as rows of the files table and as objects in     *)
(* MinIO, and the handlers of src/http/Handlers.cc that write either:      *)
(* upload (and the last part of a multipart upload, which is the same but  *)
(* for composeObjects), the presigned upload that is confirmed later, the  *)
(* deletion of one file and of a batch.  Each remote call is a step.       *)
(* Objects of deleted files are removed by tasks of AeroQueue.  A file has *)
(* size one; what a client says of the size on confirm is left out.        *)
(***************************************************************************)
EXTENDS Naturals, FiniteSets

CONSTANTS Caller,     \* concurrent requests of the user
          File,       \* file ids
          Quota,      \* user_quota_bytes, in files
          MaxDue,     \* bound: deletions of one file queued at a time
          MaxTorn     \* bound: files that failures leave half done

ASSUME StoreAssumption ==
    /\ IsFiniteSet(Caller) /\ IsFiniteSet(File)
    /\ Quota \in Nat \ {0} /\ MaxDue \in Nat \ {0} /\ MaxTorn \in Nat

VARIABLES
    rows,       \* the files table
    objects,    \* the bucket
    due,        \* tasks queued to delete the object of a file
    origin,     \* where an id comes from
    pc,         \* where each request is
    work,       \* the files a request works on
    deleted,    \* history: files whose row was deleted at some time
    torn        \* history: files left half done by a failure

history == <<deleted, torn>>
vars    == <<rows, objects, due, origin, pc, work, history>>

Init ==
    /\ rows = {} /\ objects = {}
    /\ due = [f \in File |-> 0]
    /\ origin = [f \in File |-> "unused"]
    /\ pc = [c \in Caller |-> "idle"]
    /\ work = [c \in Caller |-> {}]
    /\ deleted = {} /\ torn = {}

Goto(c, step, S) ==
    /\ pc' = [pc EXCEPT ![c] = step]
    /\ work' = [work EXCEPT ![c] = S]

\* A failure leaves the files S half done.
Tear(S) ==
    /\ Cardinality(torn \cup S) <= MaxTorn
    /\ torn' = torn \cup S

\* The ids a client may send: of presigned uploads, and of its files' list.
Known == {f \in File : origin[f] = "presigned"} \cup rows \cup deleted
-----------------------------------------------------------------------------
(* Uploads *)

\* Mutant: the quota is compared without the new file.
CheckQuotaStale == IF Cardinality(rows) <= Quota THEN "uploaded" ELSE "unchecked"

\* The quota check.  It lets an upload pass that it should refuse when
\* getUserStorageUsage has no connection and answers 0.
CheckQuota == IF Cardinality(rows) + 1 <= Quota THEN "uploaded" ELSE "unchecked"

\* handleUpload up to putObject; refused uploads change nothing.
Upload(c, f) ==
    /\ pc[c] = "idle"
    /\ origin[f] = "unused"
    /\ origin' = [origin EXCEPT ![f] = CheckQuota]
    /\ Goto(c, "put", {f})
    /\ UNCHANGED <<rows, objects, due, history>>

\* putObject, or composeObjects: stored, not stored, or stored although all
\* attempts were answered with an error.
Put(c) ==
    /\ pc[c] = "put"
    /\ \/ /\ objects' = objects \cup work[c]
          /\ Goto(c, "save", work[c])
          /\ UNCHANGED torn
       \/ /\ Goto(c, "idle", {})
          /\ UNCHANGED <<objects, torn>>
       \/ /\ objects' = objects \cup work[c]
          /\ Tear(work[c])
          /\ Goto(c, "idle", {})
    /\ UNCHANGED <<rows, due, origin, deleted>>

\* Mutant: a failed save is not undone.
SaveOnly(c) ==
    /\ pc[c] = "save"
    /\ rows' \in {rows, rows \cup work[c]}
    /\ Goto(c, "idle", {})
    /\ UNCHANGED <<objects, due, origin, history>>

\* FileMetaDAO::save: inserted, not inserted, or inserted but the answer lost.
Save(c) ==
    /\ pc[c] = "save"
    /\ \/ /\ rows' = rows \cup work[c]
          /\ Goto(c, "idle", {})
          /\ UNCHANGED torn
       \/ /\ Goto(c, "undo", work[c])
          /\ UNCHANGED <<rows, torn>>
       \/ /\ rows' = rows \cup work[c]
          /\ Tear(work[c])
          /\ Goto(c, "undo", work[c])
    /\ UNCHANGED <<objects, due, origin, deleted>>

\* deleteObject after a failed save, its result ignored.
Undo(c) ==
    /\ pc[c] = "undo"
    /\ \/ /\ objects' = objects \ work[c]
          /\ UNCHANGED torn
       \/ /\ Tear(work[c])
          /\ UNCHANGED objects
    /\ Goto(c, "idle", {})
    /\ UNCHANGED <<rows, due, origin, deleted>>

\* handleRequestUploadUrl; the file has no row yet, and the quota that was
\* checked here is not looked at again on confirm.
RequestUrl(f) ==
    /\ origin[f] = "unused"
    /\ origin' = [origin EXCEPT ![f] = "presigned"]
    /\ UNCHANGED <<rows, objects, due, pc, work, history>>

\* The client uses the URL, once or more often, also after a deletion.
ClientPut(f) ==
    /\ origin[f] = "presigned"
    /\ objects' = objects \cup {f}
    /\ UNCHANGED <<rows, due, origin, pc, work, history>>

\* handleConfirmUpload: objectExists.
Confirm(c, f) ==
    /\ pc[c] = "idle"
    /\ f \in Known
    /\ f \in objects
    /\ Goto(c, "confirm", {f})
    /\ UNCHANGED <<rows, objects, due, origin, history>>

\* save; file_id is UNIQUE, and a failure undoes nothing.
ConfirmSave(c) ==
    /\ pc[c] = "confirm"
    /\ rows' \in {rows, rows \cup work[c]}
    /\ Goto(c, "idle", {})
    /\ UNCHANGED <<objects, due, origin, history>>
-----------------------------------------------------------------------------
(* Deletions *)

\* Mutant: the object's deletion is posted whatever the DELETE did.
DeleteAnyway(c, f) ==
    /\ pc[c] = "idle"
    /\ f \in rows
    /\ \/ /\ rows' = rows \ {f}
          /\ deleted' = deleted \cup {f}
       \/ UNCHANGED <<rows, deleted>>
    /\ Goto(c, "post", {f})
    /\ UNCHANGED <<objects, due, origin, torn>>

\* handleDeleteFile up to the DELETE; only one of two callers affects the row.
\* When the answer is lost the handler returns with an error.
Delete(c, f) ==
    /\ pc[c] = "idle"
    /\ f \in rows
    /\ rows' = rows \ {f}
    /\ deleted' = deleted \cup {f}
    /\ \/ /\ Goto(c, "post", {f})
          /\ UNCHANGED torn
       \/ /\ Tear({f})
          /\ UNCHANGED <<pc, work>>
    /\ UNCHANGED <<objects, due, origin>>

\* handleBatchDeleteFiles: getValidFileIds.
BatchSelect(c, S) ==
    /\ pc[c] = "idle"
    /\ S # {}
    /\ S \subseteq rows
    /\ Goto(c, "batch", S)
    /\ UNCHANGED <<rows, objects, due, origin, history>>

\* deleteFilesBatch, its result ignored.
BatchErase(c) ==
    /\ pc[c] = "batch"
    /\ \/ /\ rows' = rows \ work[c]
          /\ deleted' = deleted \cup (rows \cap work[c])
          /\ UNCHANGED torn
       \/ /\ Tear(work[c])
          /\ UNCHANGED <<rows, deleted>>
    /\ Goto(c, "post", work[c])
    /\ UNCHANGED <<objects, due, origin>>

\* Mutant: a task for the object and one more for what is derived from it.
PostTwice(c) ==
    /\ pc[c] = "post"
    /\ \A f \in work[c] : due[f] < MaxDue
    /\ due' = [f \in File |-> IF f \in work[c] THEN due[f] + 2 ELSE due[f]]
    /\ Goto(c, "idle", {})
    /\ UNCHANGED <<rows, objects, origin, history>>

\* post; the objects of one task may be deleted apart from each other.
Post(c) ==
    /\ pc[c] = "post"
    /\ \A f \in work[c] : due[f] < MaxDue
    /\ due' = [f \in File |-> IF f \in work[c] THEN due[f] + 1 ELSE due[f]]
    /\ Goto(c, "idle", {})
    /\ UNCHANGED <<rows, objects, origin, history>>

\* A worker runs deleteObject, its result ignored.
DeleteObject(f) ==
    /\ due[f] > 0
    /\ due' = [due EXCEPT ![f] = @ - 1]
    /\ \/ /\ objects' = objects \ {f}
          /\ UNCHANGED torn
       \/ /\ Tear({f})
          /\ UNCHANGED objects
    /\ UNCHANGED <<rows, origin, pc, work, deleted>>

\* The process dies: requests and queued tasks are gone.
Restart ==
    LET lost == (UNION {work[c] : c \in Caller}) \cup {f \in File : due[f] > 0} IN
    /\ lost # {}
    /\ Tear(lost)
    /\ pc' = [c \in Caller |-> "idle"]
    /\ work' = [c \in Caller |-> {}]
    /\ due' = [f \in File |-> 0]
    /\ UNCHANGED <<rows, objects, origin, deleted>>
-----------------------------------------------------------------------------
Continue(c) == Put(c) \/ Save(c) \/ Undo(c) \/ ConfirmSave(c) \/ BatchErase(c)

Next ==
    \/ \E c \in Caller : \/ Continue(c) \/ Post(c)
                         \/ \E f \in File : Upload(c, f) \/ Confirm(c, f) \/ Delete(c, f)
                         \/ \E S \in SUBSET File : BatchSelect(c, S)
    \/ \E f \in File : RequestUrl(f) \/ ClientPut(f) \/ DeleteObject(f)
    \/ Restart

Spec == Init /\ [][Next]_vars
-----------------------------------------------------------------------------
(* Properties *)

\* The files a request works on at a step of the set P.
WorkAt(P) == UNION {work[c] : c \in {d \in Caller : pc[d] \in P}}

TypeOK ==
    /\ rows \in SUBSET File /\ objects \in SUBSET File
    /\ due \in [File -> 0..MaxDue]
    /\ origin \in [File -> {"unused", "uploaded", "unchecked", "presigned"}]
    /\ pc \in [Caller -> {"idle", "put", "save", "undo", "confirm", "batch", "post"}]
    /\ work \in [Caller -> SUBSET File]
    /\ deleted \in SUBSET File /\ torn \in SUBSET File
    /\ \A c \in Caller : pc[c] = "idle" <=> work[c] = {}

\* The list never shows a file whose object is gone, in whatever order
\* uploads, confirms, deletions and the queued tasks run: but for a failure
\* that left it half done, and for a file that was deleted and confirmed again
\* while the task that deletes its object was queued.
RowHasObject == rows \subseteq objects \cup torn \cup deleted

\* No object of an upload is forgotten: it has its row, or a request or a
\* task is about to remove it, but for a failure.  (The objects of presigned
\* uploads that are never confirmed stay for ever.)
ObjectAccounted ==
    \A f \in objects \ (rows \cup torn) :
        \/ origin[f] = "presigned"
        \/ due[f] > 0
        \/ f \in WorkAt({"save", "undo", "post"})

\* The quota is checked before the object is stored and the row inserted:
\* concurrent uploads exceed it, but by less than one file each.  Confirmed
\* files are not checked when they become rows, and those that passed while
\* the usage could not be read do not count here.
QuotaOvershoot ==
    Cardinality({f \in rows \ deleted : origin[f] = "uploaded"})
        < Quota + Cardinality(Caller)

\* A file whose row was deleted only comes back when somebody confirms it: no
\* upload that was under way, however late its save, brings it back.
DeletedStays ==
    [][\A f \in deleted \cap (rows' \ rows) :
          \E c \in Caller : pc[c] = "confirm" /\ f \in work[c]]_vars
=============================================================================
