----------------------------- MODULE Watermark ------------------------------
(***************************************************************************)
(* The watermarked copy of one image.  fileAccessHandler draws it when it  *)
(* is missing (src/http/FileAccessHandler.cc); handleAddWatermark and      *)
(* handleRemoveWatermark delete it before they change the row, and a       *)
(* deletion of the file leaves it to a task of AeroQueue                   *)
(* (src/http/Handlers.cc).  Each call of MySQL and of MinIO is a step.     *)
(***************************************************************************)
CONSTANTS Thread,     \* handler threads
          Mark,       \* watermarks: text, position and opacity
          NoMark,     \* the row has none, or an empty text
          NoFile,     \* there is no row
          NoCopy      \* there is no copy

VARIABLES
    mark,       \* the row
    src,        \* the original is in the bucket
    copy,       \* the watermark drawn on <file_id>_watermark
    wpc,        \* where each thread is
    want,       \* the watermark an access has read
    late,       \* history: that access has met a change
    task,       \* what the queued clean-up of a deleted file does next
    stale       \* history: so had the access that drew the copy; or a
                \* deletion of the copy failed, was forgotten or is late

reqVars  == <<wpc, want, late>>
markVars == <<mark, src, copy, reqVars, task, stale>>

Drawing == {t \in Thread : wpc[t] \in {"exists", "fetch", "put"}}
Setting == {t \in Thread : wpc[t] = "set"}

MarkInit ==
    /\ mark = NoMark /\ src = TRUE /\ copy = NoCopy
    /\ wpc = [t \in Thread |-> "idle"]
    /\ want = [t \in Thread |-> NoMark]
    /\ late = [t \in Thread |-> FALSE]
    /\ task = "none"
    /\ stale = FALSE

Goto(t, step) == wpc' = [wpc EXCEPT ![t] = step]

Leave(t) ==
    /\ Goto(t, "idle")
    /\ want' = [want EXCEPT ![t] = NoMark]
    /\ late' = [late EXCEPT ![t] = FALSE]

Overtaken == late' = [u \in Thread |-> late[u] \/ u \in Drawing]
-----------------------------------------------------------------------------
(* fileAccessHandler, from getWatermark on.  Without a watermark, and when *)
(* MySQL fails, it serves the original and nothing changes.                *)

\* Mutant: the answer of getWatermark is not looked at.
ReadAny(t) ==
    /\ wpc[t] = "idle"
    /\ want' = [want EXCEPT ![t] = mark]
    /\ late' = [late EXCEPT ![t] = Setting # {}]
    /\ Goto(t, "exists")
    /\ UNCHANGED <<mark, src, copy, task, stale>>

ReadMark(t) ==
    /\ wpc[t] = "idle" /\ mark \in Mark
    /\ want' = [want EXCEPT ![t] = mark]
    /\ late' = [late EXCEPT ![t] = Setting # {}]
    /\ Goto(t, "exists")
    /\ UNCHANGED <<mark, src, copy, task, stale>>

\* objectExists; an error counts as no.
CopyExists(t) ==
    /\ wpc[t] = "exists"
    /\ \/ copy # NoCopy /\ Leave(t)
       \/ Goto(t, "fetch") /\ UNCHANGED <<want, late>>
    /\ UNCHANGED <<mark, src, copy, task, stale>>

\* getObject and addTextWatermark
FetchSrc(t) ==
    /\ wpc[t] = "fetch"
    /\ \/ src /\ Goto(t, "put") /\ UNCHANGED <<want, late>>
       \/ Leave(t)
    /\ UNCHANGED <<mark, src, copy, task, stale>>

\* putObject, which may fail.
PutCopy(t) ==
    /\ wpc[t] = "put"
    /\ \/ copy' = want[t] /\ stale' = late[t]
       \/ UNCHANGED <<copy, stale>>
    /\ Leave(t)
    /\ UNCHANGED <<mark, src, task>>
-----------------------------------------------------------------------------
(* handleAddWatermark and handleRemoveWatermark *)

\* deleteObject, whose result is ignored.
RemoveCopy ==
    \/ copy' = NoCopy /\ stale' = FALSE
    \/ stale' = (copy # NoCopy) /\ UNCHANGED copy

\* Mutant: the copy is left where it is.
KeepCopy(t) ==
    /\ wpc[t] = "idle"
    /\ Overtaken
    /\ Goto(t, "set")
    /\ UNCHANGED <<mark, src, copy, want, task, stale>>

\* The row was found, in the cache perhaps: it may be gone by now.
DropCopy(t) ==
    /\ wpc[t] = "idle"
    /\ RemoveCopy
    /\ Overtaken
    /\ Goto(t, "set")
    /\ UNCHANGED <<mark, src, want, task>>

\* An UPDATE of a row that is gone succeeds as well.
NewMarks == IF mark = NoFile THEN {NoFile} ELSE Mark \cup {NoMark}

\* setWatermark, clearWatermark
SetMark(t) ==
    /\ wpc[t] = "set"
    /\ mark' \in NewMarks
    /\ Leave(t)
    /\ UNCHANGED <<src, copy, task, stale>>

\* The UPDATE fails, though it may have been done.
SetFails(t) ==
    /\ wpc[t] = "set"
    /\ mark' \in NewMarks \cup {mark}
    /\ Leave(t)
    /\ UNCHANGED <<src, copy, task, stale>>
-----------------------------------------------------------------------------
(* handleDeleteFile and handleBatchDeleteFiles.  One deletion of the file  *)
(* at a time: a second would only post the same clean-up again, also of a  *)
(* row that has been brought back.                                         *)

Undeleted == task = "none" /\ \A u \in Thread : wpc[u] # "post"

\* The row goes; a batch goes on when MySQL failed.
Erase(t) ==
    /\ wpc[t] = "idle" /\ mark # NoFile /\ Undeleted
    /\ mark' \in {NoFile, mark}
    /\ Overtaken
    /\ Goto(t, "post")
    /\ UNCHANGED <<src, copy, want, task, stale>>

\* The row goes and the answer of MySQL is lost: handleDeleteFile ends here.
EraseLost(t) ==
    /\ wpc[t] = "idle" /\ mark # NoFile
    /\ mark' = NoFile
    /\ Overtaken
    /\ stale' = TRUE
    /\ UNCHANGED <<src, copy, wpc, want, task>>

Post(t) ==
    /\ wpc[t] = "post"
    /\ task' = "src"
    /\ Leave(t)
    /\ UNCHANGED <<mark, src, copy, stale>>

CleanSrc ==
    /\ task = "src"
    /\ src' \in {FALSE, src}
    /\ task' = "copy"
    /\ UNCHANGED <<mark, copy, reqVars, stale>>

\* Mutant: the task leaves the copy.
SkipCopy ==
    /\ task = "copy"
    /\ task' = "none"
    /\ UNCHANGED <<mark, src, copy, reqVars, stale>>

CleanCopy ==
    /\ task = "copy"
    /\ RemoveCopy
    /\ task' = "none"
    /\ UNCHANGED <<mark, src, reqVars>>

\* handleConfirmUpload brings a deleted row back, whose presigned URL is still
\* valid: the client may have put the original again, and it may be gone again
\* since objectExists.  A copy drawn for the old row is still there, or not.
Restore(t) ==
    /\ wpc[t] = "idle" /\ mark = NoFile
    /\ mark' = NoMark
    /\ src' \in {src, TRUE}
    /\ stale' = (stale \/ copy # NoCopy)
    /\ UNCHANGED <<copy, reqVars, task>>

\* The process is started again: what was queued is forgotten.
MarkRestart ==
    /\ stale' = (stale \/ ~Undeleted)
    /\ wpc' = [t \in Thread |-> "idle"]
    /\ want' = [t \in Thread |-> NoMark]
    /\ late' = [t \in Thread |-> FALSE]
    /\ task' = "none"
    /\ UNCHANGED <<mark, src, copy>>

Access(t) == ReadMark(t) \/ CopyExists(t) \/ FetchSrc(t) \/ PutCopy(t)

CleanUp == CleanSrc \/ CleanCopy

MarkNext ==
    \/ \E t \in Thread : \/ Access(t) \/ DropCopy(t) \/ SetMark(t) \/ SetFails(t)
                         \/ Erase(t) \/ EraseLost(t) \/ Post(t) \/ Restore(t)
    \/ CleanUp
    \/ MarkRestart

MarkSpec == MarkInit /\ [][MarkNext]_markVars
-----------------------------------------------------------------------------
MarkTypes ==
    /\ mark \in Mark \cup {NoMark, NoFile}
    /\ src \in BOOLEAN /\ stale \in BOOLEAN
    /\ copy \in Mark \cup {NoCopy}
    /\ wpc \in [Thread -> {"idle", "exists", "fetch", "put", "set", "post"}]
    /\ want \in [Thread -> Mark \cup {NoMark}]
    /\ late \in [Thread -> BOOLEAN]
    /\ task \in {"none", "src", "copy"}
    /\ \A t \in Drawing : want[t] \in Mark

(***************************************************************************)
(* The copy that is served has the watermark of the row, unless the access *)
(* that drew it met a change of the watermark or of the file at any moment *)
(* between its two looks, a deletion of the copy failed, or the row was    *)
(* brought back before the clean-up of the old one.  The handlers delete   *)
(* the copy before they change the row: that this order leaves no other    *)
(* hole than the accesses it overlaps is what is to be shown.              *)
(***************************************************************************)
CopyCurrent == copy # NoCopy /\ ~stale /\ mark # NoFile => copy = mark

(***************************************************************************)
(* A copy of a deleted file is about to be deleted, with the same          *)
(* exceptions and that of a clean-up lost by a restart.                    *)
(***************************************************************************)
NoOrphanCopy == copy # NoCopy /\ ~stale /\ mark = NoFile => ~Undeleted
=============================================================================
