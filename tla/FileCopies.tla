----------------------------- MODULE FileCopies -----------------------------
(***************************************************************************)
(* What users are shown of a file besides its row: its entry in the cached *)
(* page of the list (ListCache) and its watermarked copy (Watermark).  A   *)
(* handler works on both: when it has set a watermark or deleted the file  *)
(* it goes on to invalidateUserFilesCache, and a deletion posts the        *)
(* clean-up of the objects before.  The page is reduced to the entry of    *)
(* this file, so it is empty when the row is gone.                         *)
(***************************************************************************)
CONSTANTS Thread, Content, NoFiles, NoPage, Mark, NoMark, NoFile, NoCopy

ASSUME CopiesAssumption ==
    /\ NoFiles \in Content /\ NoPage \notin Content
    /\ NoMark \notin Mark /\ NoFile \notin Mark /\ NoCopy \notin Mark
    /\ NoMark # NoFile

VARIABLES content, page, indexed, indexShort, lpc, got, purge, spoilt, tainted,
          mark, src, copy, wpc, want, late, task, stale

L == INSTANCE ListCache
W == INSTANCE Watermark

listVars == <<content, page, indexed, indexShort, lpc, got, purge, spoilt, tainted>>
markVars == <<mark, src, copy, wpc, want, late, task, stale>>
vars == <<listVars, markVars>>

\* The page shows the file while there is a row.
Agree(c, m) == (c = NoFiles) <=> (m = NoFile)

Init == L!ListInit /\ W!MarkInit /\ Agree(content, mark)

\* A thread runs one handler at a time.
ListCall(t) ==
    /\ wpc[t] = "idle"
    /\ L!ListStep(t)
    /\ UNCHANGED markVars

MarkCall(t) ==
    /\ lpc[t] = "idle"
    /\ W!Access(t) \/ W!DropCopy(t) \/ W!SetFails(t)
    /\ UNCHANGED listVars

\* Of other handlers: the file or another one has been changed.
OtherChange(t) ==
    /\ wpc[t] = "idle"
    /\ L!Change(t) \/ L!LostChange(t)
    /\ Agree(content', mark)
    /\ UNCHANGED markVars

\* The row has its watermark; the list does not show it.
Watermarked(t) ==
    /\ W!SetMark(t)
    /\ L!Change(t)
    /\ UNCHANGED content

Delete(t) ==
    /\ W!Erase(t)
    /\ L!Change(t)
    /\ content' = IF mark' = NoFile THEN NoFiles ELSE content

DeleteLost(t) ==
    /\ W!EraseLost(t)
    /\ L!LostChange(t)
    /\ content' = NoFiles

\* The row is back; the answer of MySQL may be lost.
Restored(t) ==
    /\ W!Restore(t)
    /\ L!Change(t) \/ L!LostChange(t)
    /\ Agree(content', mark')

\* The clean-up is posted before the cache is invalidated.
PostCleanUp(t) == W!Post(t) /\ UNCHANGED listVars

Time ==
    \/ L!ListTime /\ UNCHANGED markVars
    \/ W!CleanUp /\ UNCHANGED listVars

Restart == L!ListRestart /\ W!MarkRestart

Next ==
    \/ \E t \in Thread : \/ ListCall(t) \/ MarkCall(t) \/ OtherChange(t)
                         \/ Watermarked(t) \/ Delete(t) \/ DeleteLost(t)
                         \/ Restored(t) \/ PostCleanUp(t)
    \/ Time
    \/ Restart

Spec == Init /\ [][Next]_vars
-----------------------------------------------------------------------------
TypeOK == L!ListTypes /\ W!MarkTypes

PageCoherent == L!PageCoherent

CopyCurrent == W!CopyCurrent

NoOrphanCopy == W!NoOrphanCopy
=============================================================================
