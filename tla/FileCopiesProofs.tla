--------------------------- MODULE FileCopiesProofs ---------------------------
(***************************************************************************)
(* Proofs about FileCopies.  Every step of the composition is a step of    *)
(* ListCache or leaves its variables, and so for Watermark; so each of the *)
(* two is proved on its own.                                               *)
(***************************************************************************)
EXTENDS FileCopies, TLAPS

USE CopiesAssumption
-----------------------------------------------------------------------------
(* The composition implements its parts *)

LEMMA ListStart == Init => L!ListInit
  BY DEF Init

LEMMA MarkStart == Init => W!MarkInit
  BY DEF Init

LEMMA ListSimulated == [Next]_vars => [L!ListNext]_(L!listVars)
<1> SUFFICES ASSUME [Next]_vars PROVE L!ListNext \/ UNCHANGED L!listVars
  OBVIOUS
<1> USE DEF listVars, markVars, L!listVars, L!callVars
<1>1. ASSUME NEW t \in Thread, ListCall(t) PROVE L!ListNext
  BY <1>1 DEF ListCall, L!ListNext
<1>2. ASSUME NEW t \in Thread, MarkCall(t) PROVE UNCHANGED L!listVars
  BY <1>2 DEF MarkCall
<1>3. ASSUME NEW t \in Thread, OtherChange(t) PROVE L!ListNext
  BY <1>3 DEF OtherChange, L!ListNext
<1>4. ASSUME NEW t \in Thread, Watermarked(t) PROVE L!ListNext
  BY <1>4 DEF Watermarked, L!ListNext
<1>5. ASSUME NEW t \in Thread, Delete(t) PROVE L!ListNext
  BY <1>5 DEF Delete, L!ListNext
<1>6. ASSUME NEW t \in Thread, DeleteLost(t) PROVE L!ListNext
  BY <1>6 DEF DeleteLost, L!ListNext
<1>7. ASSUME NEW t \in Thread, PostCleanUp(t) PROVE UNCHANGED L!listVars
  BY <1>7 DEF PostCleanUp
<1>8. ASSUME NEW t \in Thread, Restored(t) PROVE L!ListNext
  BY <1>8 DEF Restored, L!ListNext
<1>9. CASE Time
  BY <1>9 DEF Time, L!ListNext
<1>10. CASE Restart
  BY <1>10 DEF Restart, L!ListNext
<1>11. CASE UNCHANGED vars
  BY <1>11 DEF vars
<1> QED
  BY <1>1, <1>2, <1>3, <1>4, <1>5, <1>6, <1>7, <1>8, <1>9, <1>10, <1>11 DEF Next

LEMMA MarkSimulated == [Next]_vars => [W!MarkNext]_(W!markVars)
<1> SUFFICES ASSUME [Next]_vars PROVE W!MarkNext \/ UNCHANGED W!markVars
  OBVIOUS
<1> USE DEF listVars, markVars, W!markVars, W!reqVars
<1>1. ASSUME NEW t \in Thread, ListCall(t) PROVE UNCHANGED W!markVars
  BY <1>1 DEF ListCall
<1>2. ASSUME NEW t \in Thread, MarkCall(t) PROVE W!MarkNext
  BY <1>2 DEF MarkCall, W!MarkNext
<1>3. ASSUME NEW t \in Thread, OtherChange(t) PROVE UNCHANGED W!markVars
  BY <1>3 DEF OtherChange
<1>4. ASSUME NEW t \in Thread, Watermarked(t) PROVE W!MarkNext
  BY <1>4 DEF Watermarked, W!MarkNext
<1>5. ASSUME NEW t \in Thread, Delete(t) PROVE W!MarkNext
  BY <1>5 DEF Delete, W!MarkNext
<1>6. ASSUME NEW t \in Thread, DeleteLost(t) PROVE W!MarkNext
  BY <1>6 DEF DeleteLost, W!MarkNext
<1>7. ASSUME NEW t \in Thread, PostCleanUp(t) PROVE W!MarkNext
  BY <1>7 DEF PostCleanUp, W!MarkNext
<1>8. ASSUME NEW t \in Thread, Restored(t) PROVE W!MarkNext
  BY <1>8 DEF Restored, W!MarkNext
<1>9. CASE Time
  BY <1>9 DEF Time, W!MarkNext
<1>10. CASE Restart
  BY <1>10 DEF Restart, W!MarkNext
<1>11. CASE UNCHANGED vars
  BY <1>11 DEF vars
<1> QED
  BY <1>1, <1>2, <1>3, <1>4, <1>5, <1>6, <1>7, <1>8, <1>9, <1>10, <1>11 DEF Next

(***************************************************************************)
(* The composed handlers behave, to the list, as the changes and lists of  *)
(* ListCache.                                                              *)
(***************************************************************************)
THEOREM ImplementsList == Spec => L!ListSpec
  BY ListStart, ListSimulated, PTL DEF Spec, L!ListSpec

(***************************************************************************)
(* The composed handlers behave, to the copy, as those of Watermark.       *)
(***************************************************************************)
THEOREM ImplementsMark == Spec => W!MarkSpec
  BY MarkStart, MarkSimulated, PTL DEF Spec, W!MarkSpec
-----------------------------------------------------------------------------
(* The list's page *)

\* The threads whose list has met no change so far.
Clean(t) == lpc[t] \in {"select", "setex", "sadd"} /\ ~spoilt[t]

\* Only a change that has read the index holds keys, and deletes them.
PurgeHeld ==
    \A t \in Thread : /\ purge[t] => lpc[t] \in {"delindex", "delpages"}
                      /\ lpc[t] = "delpages" => purge[t]

\* A clean list runs beside no change and has read what MySQL still has.
CleanAlone ==
    \A t \in Thread : Clean(t) =>
        /\ \A u \in Thread : lpc[u] \notin {"smembers", "delindex", "delpages"}
        /\ lpc[t] = "setex" => got[t] = content

\* The page can be found by the next change, or is being deleted.
Findable ==
    page # NoPage /\ ~tainted =>
        \/ indexed
        \/ \E u \in Thread : purge[u]
        \/ \E u \in Thread : Clean(u) /\ lpc[u] = "sadd"

\* A change that has not found the page leaves it to one that has.
LeftToOther ==
    page # NoPage /\ ~tainted =>
        \A t \in Thread : lpc[t] = "delindex" /\ ~purge[t] => \E u \in Thread : purge[u]

ListInv == L!ListTypes /\ PurgeHeld /\ CleanAlone /\ Findable /\ LeftToOther /\ PageCoherent

LEMMA ListBegins == L!ListInit => ListInv
  BY DEF L!ListInit, ListInv, L!ListTypes, PurgeHeld, CleanAlone, Clean, Findable,
         LeftToOther, PageCoherent, L!PageCoherent

LEMMA ListTyped ==
  ASSUME ListInv, [L!ListNext]_(L!listVars)
  PROVE  L!ListTypes'
<1> USE DEF ListInv, L!ListTypes
<1>1. ASSUME NEW t \in Thread, L!ListStep(t) PROVE L!ListTypes'
  <2>1. CASE L!Get(t) BY <2>1 DEF L!Get, L!At
  <2>2. CASE L!Select(t) BY <2>2 DEF L!Select, L!At
  <2>3. CASE L!SetPage(t) BY <2>3 DEF L!SetPage, L!At
  <2>4. CASE L!AddIndex(t) BY <2>4 DEF L!AddIndex, L!At
  <2>5. CASE L!RenewIndex(t) BY <2>5 DEF L!RenewIndex, L!Done, L!At
  <2>6. CASE L!Members(t) BY <2>6 DEF L!Members, L!At
  <2>7. CASE L!DropIndex(t) BY <2>7 DEF L!DropIndex, L!Done, L!At
  <2>8. CASE L!DropPages(t) BY <2>8 DEF L!DropPages, L!Done, L!At
  <2> QED BY <1>1, <2>1, <2>2, <2>3, <2>4, <2>5, <2>6, <2>7, <2>8 DEF L!ListStep
<1>2. ASSUME NEW t \in Thread, L!Change(t) PROVE L!ListTypes'
  BY <1>2 DEF L!Change, L!Overtake, L!At
<1>3. ASSUME NEW t \in Thread, L!LostChange(t) PROVE L!ListTypes'
  BY <1>3 DEF L!LostChange, L!Overtake
<1>4. CASE L!ListTime
  BY <1>4 DEF L!ListTime, L!ExpirePage, L!ExpireIndex, L!callVars
<1>5. CASE L!ListRestart
  BY <1>5 DEF L!ListRestart
<1>6. CASE UNCHANGED L!listVars
  BY <1>6 DEF L!listVars, L!callVars
<1> QED
  BY <1>1, <1>2, <1>3, <1>4, <1>5, <1>6 DEF L!ListNext

LEMMA PurgeHeldKept ==
  ASSUME ListInv, [L!ListNext]_(L!listVars)
  PROVE  PurgeHeld'
<1> USE DEF ListInv, L!ListTypes, PurgeHeld
<1>1. ASSUME NEW t \in Thread, L!ListStep(t) PROVE PurgeHeld'
  <2>1. CASE L!Get(t) BY <2>1 DEF L!Get, L!Changing, L!At
  <2>2. CASE L!Select(t) BY <2>2 DEF L!Select, L!At
  <2>3. CASE L!SetPage(t) BY <2>3 DEF L!SetPage, L!At
  <2>4. CASE L!AddIndex(t) BY <2>4 DEF L!AddIndex, L!At
  <2>5. CASE L!RenewIndex(t) BY <2>5 DEF L!RenewIndex, L!Done, L!At
  <2>6. CASE L!Members(t) BY <2>6 DEF L!Members, L!At
  <2>7. CASE L!DropIndex(t) BY <2>7 DEF L!DropIndex, L!Done, L!At
  <2>8. CASE L!DropPages(t) BY <2>8 DEF L!DropPages, L!Done, L!At
  <2> QED BY <1>1, <2>1, <2>2, <2>3, <2>4, <2>5, <2>6, <2>7, <2>8 DEF L!ListStep
<1>2. ASSUME NEW t \in Thread, L!Change(t) PROVE PurgeHeld'
  BY <1>2 DEF L!Change, L!Overtake, L!Listing, L!At
<1>3. ASSUME NEW t \in Thread, L!LostChange(t) PROVE PurgeHeld'
  BY <1>3 DEF L!LostChange, L!Overtake, L!Listing
<1>4. CASE L!ListTime
  BY <1>4 DEF L!ListTime, L!ExpirePage, L!ExpireIndex, L!callVars
<1>5. CASE L!ListRestart
  BY <1>5 DEF L!ListRestart, L!Listing, L!Changing
<1>6. CASE UNCHANGED L!listVars
  BY <1>6 DEF L!listVars, L!callVars
<1> QED
  BY <1>1, <1>2, <1>3, <1>4, <1>5, <1>6 DEF L!ListNext

LEMMA CleanAloneKept ==
  ASSUME ListInv, [L!ListNext]_(L!listVars)
  PROVE  CleanAlone'
<1> USE DEF ListInv, L!ListTypes, CleanAlone, Clean
<1>1. ASSUME NEW t \in Thread, L!ListStep(t) PROVE CleanAlone'
  <2>1. CASE L!Get(t) BY <2>1 DEF L!Get, L!Changing, L!At
  <2>2. CASE L!Select(t) BY <2>2 DEF L!Select, L!At
  <2>3. CASE L!SetPage(t) BY <2>3 DEF L!SetPage, L!At
  <2>4. CASE L!AddIndex(t) BY <2>4 DEF L!AddIndex, L!At
  <2>5. CASE L!RenewIndex(t) BY <2>5 DEF L!RenewIndex, L!Done, L!At
  <2>6. CASE L!Members(t) BY <2>6 DEF L!Members, L!At
  <2>7. CASE L!DropIndex(t) BY <2>7 DEF L!DropIndex, L!Done, L!At
  <2>8. CASE L!DropPages(t) BY <2>8 DEF L!DropPages, L!Done, L!At
  <2> QED BY <1>1, <2>1, <2>2, <2>3, <2>4, <2>5, <2>6, <2>7, <2>8 DEF L!ListStep
<1>2. ASSUME NEW t \in Thread, L!Change(t) PROVE CleanAlone'
  BY <1>2 DEF L!Change, L!Overtake, L!Listing, L!At
<1>3. ASSUME NEW t \in Thread, L!LostChange(t) PROVE CleanAlone'
  BY <1>3 DEF L!LostChange, L!Overtake, L!Listing
<1>4. CASE L!ListTime
  BY <1>4 DEF L!ListTime, L!ExpirePage, L!ExpireIndex, L!callVars
<1>5. CASE L!ListRestart
  BY <1>5 DEF L!ListRestart, L!Listing, L!Changing
<1>6. CASE UNCHANGED L!listVars
  BY <1>6 DEF L!listVars, L!callVars
<1> QED
  BY <1>1, <1>2, <1>3, <1>4, <1>5, <1>6 DEF L!ListNext

LEMMA FindableKept ==
  ASSUME ListInv, [L!ListNext]_(L!listVars)
  PROVE  Findable'
<1> USE DEF ListInv, L!ListTypes, Findable, Clean, CleanAlone, PurgeHeld
<1>1. ASSUME NEW t \in Thread, L!ListStep(t) PROVE Findable'
  <2>1. CASE L!Get(t) BY <2>1 DEF L!Get, L!Changing, L!At
  <2>2. CASE L!Select(t) BY <2>2 DEF L!Select, L!At
  <2>3. CASE L!SetPage(t) BY <2>3 DEF L!SetPage, L!At
  <2>4. CASE L!AddIndex(t) BY <2>4 DEF L!AddIndex, L!At
  <2>5. CASE L!RenewIndex(t) BY <2>5 DEF L!RenewIndex, L!Done, L!At
  <2>6. CASE L!Members(t) BY <2>6 DEF L!Members, L!At
  <2>7. CASE L!DropIndex(t)
    <3>1. CASE purge[t]
      BY <2>7, <3>1 DEF L!DropIndex
    <3>2. CASE ~purge[t]
      BY <2>7, <3>2 DEF L!DropIndex, L!Done, LeftToOther
    <3> QED BY <3>1, <3>2
  <2>8. CASE L!DropPages(t) BY <2>8 DEF L!DropPages, L!Done, L!At
  <2> QED BY <1>1, <2>1, <2>2, <2>3, <2>4, <2>5, <2>6, <2>7, <2>8 DEF L!ListStep
<1>2. ASSUME NEW t \in Thread, L!Change(t) PROVE Findable'
  BY <1>2 DEF L!Change, L!Overtake, L!Listing, L!At
<1>3. ASSUME NEW t \in Thread, L!LostChange(t) PROVE Findable'
  BY <1>3 DEF L!LostChange, L!Overtake, L!Listing
<1>4. CASE L!ListTime
  BY <1>4 DEF L!ListTime, L!ExpirePage, L!ExpireIndex, L!callVars
<1>5. CASE L!ListRestart
  BY <1>5 DEF L!ListRestart, L!Listing, L!Changing
<1>6. CASE UNCHANGED L!listVars
  BY <1>6 DEF L!listVars, L!callVars
<1> QED
  BY <1>1, <1>2, <1>3, <1>4, <1>5, <1>6 DEF L!ListNext

LEMMA LeftToOtherKept ==
  ASSUME ListInv, [L!ListNext]_(L!listVars)
  PROVE  LeftToOther'
<1> USE DEF ListInv, L!ListTypes, LeftToOther, Findable, CleanAlone, Clean, PurgeHeld
<1>1. ASSUME NEW t \in Thread, L!ListStep(t) PROVE LeftToOther'
  <2>1. CASE L!Get(t) BY <2>1 DEF L!Get, L!Changing, L!At
  <2>2. CASE L!Select(t) BY <2>2 DEF L!Select, L!At
  <2>3. CASE L!SetPage(t) BY <2>3 DEF L!SetPage, L!At
  <2>4. CASE L!AddIndex(t) BY <2>4 DEF L!AddIndex, L!At
  <2>5. CASE L!RenewIndex(t) BY <2>5 DEF L!RenewIndex, L!Done, L!At
  <2>6. CASE L!Members(t) BY <2>6 DEF L!Members, L!At
  <2>7. CASE L!DropIndex(t) BY <2>7 DEF L!DropIndex, L!Done, L!At
  <2>8. CASE L!DropPages(t) BY <2>8 DEF L!DropPages, L!Done, L!At
  <2> QED BY <1>1, <2>1, <2>2, <2>3, <2>4, <2>5, <2>6, <2>7, <2>8 DEF L!ListStep
<1>2. ASSUME NEW t \in Thread, L!Change(t) PROVE LeftToOther'
  BY <1>2 DEF L!Change, L!Overtake, L!Listing, L!At
<1>3. ASSUME NEW t \in Thread, L!LostChange(t) PROVE LeftToOther'
  BY <1>3 DEF L!LostChange, L!Overtake, L!Listing
<1>4. CASE L!ListTime
  BY <1>4 DEF L!ListTime, L!ExpirePage, L!ExpireIndex, L!callVars
<1>5. CASE L!ListRestart
  BY <1>5 DEF L!ListRestart, L!Listing, L!Changing
<1>6. CASE UNCHANGED L!listVars
  BY <1>6 DEF L!listVars, L!callVars
<1> QED
  BY <1>1, <1>2, <1>3, <1>4, <1>5, <1>6 DEF L!ListNext

LEMMA PageCoherentKept ==
  ASSUME ListInv, [L!ListNext]_(L!listVars)
  PROVE  PageCoherent'
<1> USE DEF ListInv, L!ListTypes, PageCoherent, L!PageCoherent, L!Purging, Findable, LeftToOther, CleanAlone, Clean, PurgeHeld
<1>1. ASSUME NEW t \in Thread, L!ListStep(t) PROVE PageCoherent'
  <2>1. CASE L!Get(t) BY <2>1 DEF L!Get, L!Changing, L!At
  <2>2. CASE L!Select(t) BY <2>2 DEF L!Select, L!At
  <2>3. CASE L!SetPage(t) BY <2>3 DEF L!SetPage, L!At
  <2>4. CASE L!AddIndex(t) BY <2>4 DEF L!AddIndex, L!At
  <2>5. CASE L!RenewIndex(t) BY <2>5 DEF L!RenewIndex, L!Done, L!At
  <2>6. CASE L!Members(t) BY <2>6 DEF L!Members, L!At
  <2>7. CASE L!DropIndex(t) BY <2>7 DEF L!DropIndex, L!Done, L!At
  <2>8. CASE L!DropPages(t) BY <2>8 DEF L!DropPages, L!Done, L!At
  <2> QED BY <1>1, <2>1, <2>2, <2>3, <2>4, <2>5, <2>6, <2>7, <2>8 DEF L!ListStep
<1>2. ASSUME NEW t \in Thread, L!Change(t) PROVE PageCoherent'
  BY <1>2 DEF L!Change, L!Overtake, L!Listing, L!At
<1>3. ASSUME NEW t \in Thread, L!LostChange(t) PROVE PageCoherent'
  BY <1>3 DEF L!LostChange, L!Overtake, L!Listing
<1>4. CASE L!ListTime
  BY <1>4 DEF L!ListTime, L!ExpirePage, L!ExpireIndex, L!callVars
<1>5. CASE L!ListRestart
  BY <1>5 DEF L!ListRestart, L!Listing, L!Changing
<1>6. CASE UNCHANGED L!listVars
  BY <1>6 DEF L!listVars, L!callVars
<1> QED
  BY <1>1, <1>2, <1>3, <1>4, <1>5, <1>6 DEF L!ListNext

LEMMA ListInductive == ListInv /\ [L!ListNext]_(L!listVars) => ListInv'
  BY ListTyped, PurgeHeldKept, CleanAloneKept, FindableKept, LeftToOtherKept,
     PageCoherentKept DEF ListInv

LEMMA ListInvariant == Spec => []ListInv
  BY ListStart, ListBegins, ListSimulated, ListInductive, PTL DEF Spec

(***************************************************************************)
(* What a quiet list has cached, no later change leaves behind, for any    *)
(* number of threads and whatever fails.                                   *)
(***************************************************************************)
THEOREM PageCorrect == Spec => []PageCoherent
<1>1. ListInv => PageCoherent
  BY DEF ListInv
<1> QED
  BY ListInvariant, <1>1, PTL
-----------------------------------------------------------------------------
(* The watermarked copy *)

\* An access that met no change so far has read the row's watermark.
AccessCurrent ==
    \A t \in W!Drawing : ~late[t] => want[t] = mark /\ \A u \in Thread : wpc[u] # "set"

\* Behind a handler that is about to change the row there is no good copy.
SetAfterDrop == copy # NoCopy /\ ~stale => \A u \in Thread : wpc[u] # "set"

MarkInv == W!MarkTypes /\ AccessCurrent /\ SetAfterDrop /\ CopyCurrent /\ NoOrphanCopy

LEMMA MarkBegins == W!MarkInit => MarkInv
  BY DEF W!MarkInit, MarkInv, W!MarkTypes, W!Drawing, AccessCurrent, SetAfterDrop,
         CopyCurrent, NoOrphanCopy, W!CopyCurrent, W!NoOrphanCopy

LEMMA MarkTyped ==
  ASSUME MarkInv, [W!MarkNext]_(W!markVars)
  PROVE  W!MarkTypes'
<1> USE DEF MarkInv, W!MarkTypes, W!Drawing
<1>1. ASSUME NEW t \in Thread, W!Access(t) PROVE W!MarkTypes'
  <2>1. CASE W!ReadMark(t) BY <2>1 DEF W!ReadMark, W!Setting, W!Goto
  <2>2. CASE W!CopyExists(t) BY <2>2 DEF W!CopyExists, W!Leave, W!Goto
  <2>3. CASE W!FetchSrc(t) BY <2>3 DEF W!FetchSrc, W!Leave, W!Goto
  <2>4. CASE W!PutCopy(t) BY <2>4 DEF W!PutCopy, W!Leave, W!Goto
  <2> QED BY <1>1, <2>1, <2>2, <2>3, <2>4 DEF W!Access
<1>2. ASSUME NEW t \in Thread, W!DropCopy(t) PROVE W!MarkTypes'
  BY <1>2 DEF W!DropCopy, W!RemoveCopy, W!Overtaken, W!Goto
<1>3. ASSUME NEW t \in Thread, W!SetMark(t) PROVE W!MarkTypes'
  BY <1>3 DEF W!SetMark, W!NewMarks, W!Leave, W!Goto
<1>4. ASSUME NEW t \in Thread, W!SetFails(t) PROVE W!MarkTypes'
  BY <1>4 DEF W!SetFails, W!NewMarks, W!Leave, W!Goto
<1>5. ASSUME NEW t \in Thread, W!Erase(t) PROVE W!MarkTypes'
  BY <1>5 DEF W!Erase, W!Overtaken, W!Undeleted, W!Goto
<1>6. ASSUME NEW t \in Thread, W!EraseLost(t) PROVE W!MarkTypes'
  BY <1>6 DEF W!EraseLost, W!Overtaken
<1>7. ASSUME NEW t \in Thread, W!Post(t) PROVE W!MarkTypes'
  BY <1>7 DEF W!Post, W!Leave, W!Goto
<1>8. ASSUME NEW t \in Thread, W!Restore(t) PROVE W!MarkTypes'
  BY <1>8 DEF W!Restore, W!reqVars
<1>9. CASE W!CleanSrc
  BY <1>9 DEF W!CleanSrc, W!reqVars
<1>10. CASE W!CleanCopy
  BY <1>10 DEF W!CleanCopy, W!RemoveCopy, W!reqVars
<1>11. CASE W!MarkRestart
  BY <1>11 DEF W!MarkRestart, W!Undeleted
<1>12. CASE UNCHANGED W!markVars
  BY <1>12 DEF W!markVars, W!reqVars
<1> QED
  BY <1>1, <1>2, <1>3, <1>4, <1>5, <1>6, <1>7, <1>8, <1>9, <1>10, <1>11,
     <1>12 DEF W!MarkNext, W!CleanUp

LEMMA AccessCurrentKept ==
  ASSUME MarkInv, [W!MarkNext]_(W!markVars)
  PROVE  AccessCurrent'
<1> USE DEF MarkInv, W!MarkTypes, W!Drawing, AccessCurrent
<1>1. ASSUME NEW t \in Thread, W!Access(t) PROVE AccessCurrent'
  <2>1. CASE W!ReadMark(t) BY <2>1 DEF W!ReadMark, W!Setting, W!Goto
  <2>2. CASE W!CopyExists(t) BY <2>2 DEF W!CopyExists, W!Leave, W!Goto
  <2>3. CASE W!FetchSrc(t) BY <2>3 DEF W!FetchSrc, W!Leave, W!Goto
  <2>4. CASE W!PutCopy(t) BY <2>4 DEF W!PutCopy, W!Leave, W!Goto
  <2> QED BY <1>1, <2>1, <2>2, <2>3, <2>4 DEF W!Access
<1>2. ASSUME NEW t \in Thread, W!DropCopy(t) PROVE AccessCurrent'
  BY <1>2 DEF W!DropCopy, W!RemoveCopy, W!Overtaken, W!Goto
<1>3. ASSUME NEW t \in Thread, W!SetMark(t) PROVE AccessCurrent'
  BY <1>3 DEF W!SetMark, W!NewMarks, W!Leave, W!Goto
<1>4. ASSUME NEW t \in Thread, W!SetFails(t) PROVE AccessCurrent'
  BY <1>4 DEF W!SetFails, W!NewMarks, W!Leave, W!Goto
<1>5. ASSUME NEW t \in Thread, W!Erase(t) PROVE AccessCurrent'
  BY <1>5 DEF W!Erase, W!Overtaken, W!Undeleted, W!Goto
<1>6. ASSUME NEW t \in Thread, W!EraseLost(t) PROVE AccessCurrent'
  BY <1>6 DEF W!EraseLost, W!Overtaken
<1>7. ASSUME NEW t \in Thread, W!Post(t) PROVE AccessCurrent'
  BY <1>7 DEF W!Post, W!Leave, W!Goto
<1>8. ASSUME NEW t \in Thread, W!Restore(t) PROVE AccessCurrent'
  BY <1>8 DEF W!Restore, W!reqVars
<1>9. CASE W!CleanSrc
  BY <1>9 DEF W!CleanSrc, W!reqVars
<1>10. CASE W!CleanCopy
  BY <1>10 DEF W!CleanCopy, W!RemoveCopy, W!reqVars
<1>11. CASE W!MarkRestart
  BY <1>11 DEF W!MarkRestart, W!Undeleted
<1>12. CASE UNCHANGED W!markVars
  BY <1>12 DEF W!markVars, W!reqVars
<1> QED
  BY <1>1, <1>2, <1>3, <1>4, <1>5, <1>6, <1>7, <1>8, <1>9, <1>10, <1>11,
     <1>12 DEF W!MarkNext, W!CleanUp

LEMMA SetAfterDropKept ==
  ASSUME MarkInv, [W!MarkNext]_(W!markVars)
  PROVE  SetAfterDrop'
<1> USE DEF MarkInv, W!MarkTypes, W!Drawing, SetAfterDrop, AccessCurrent
<1>1. ASSUME NEW t \in Thread, W!Access(t) PROVE SetAfterDrop'
  <2>1. CASE W!ReadMark(t) BY <2>1 DEF W!ReadMark, W!Setting, W!Goto
  <2>2. CASE W!CopyExists(t) BY <2>2 DEF W!CopyExists, W!Leave, W!Goto
  <2>3. CASE W!FetchSrc(t) BY <2>3 DEF W!FetchSrc, W!Leave, W!Goto
  <2>4. CASE W!PutCopy(t) BY <2>4 DEF W!PutCopy, W!Leave, W!Goto
  <2> QED BY <1>1, <2>1, <2>2, <2>3, <2>4 DEF W!Access
<1>2. ASSUME NEW t \in Thread, W!DropCopy(t) PROVE SetAfterDrop'
  BY <1>2 DEF W!DropCopy, W!RemoveCopy, W!Overtaken, W!Goto
<1>3. ASSUME NEW t \in Thread, W!SetMark(t) PROVE SetAfterDrop'
  BY <1>3 DEF W!SetMark, W!NewMarks, W!Leave, W!Goto
<1>4. ASSUME NEW t \in Thread, W!SetFails(t) PROVE SetAfterDrop'
  BY <1>4 DEF W!SetFails, W!NewMarks, W!Leave, W!Goto
<1>5. ASSUME NEW t \in Thread, W!Erase(t) PROVE SetAfterDrop'
  BY <1>5 DEF W!Erase, W!Overtaken, W!Undeleted, W!Goto
<1>6. ASSUME NEW t \in Thread, W!EraseLost(t) PROVE SetAfterDrop'
  BY <1>6 DEF W!EraseLost, W!Overtaken
<1>7. ASSUME NEW t \in Thread, W!Post(t) PROVE SetAfterDrop'
  BY <1>7 DEF W!Post, W!Leave, W!Goto
<1>8. ASSUME NEW t \in Thread, W!Restore(t) PROVE SetAfterDrop'
  BY <1>8 DEF W!Restore, W!reqVars
<1>9. CASE W!CleanSrc
  BY <1>9 DEF W!CleanSrc, W!reqVars
<1>10. CASE W!CleanCopy
  BY <1>10 DEF W!CleanCopy, W!RemoveCopy, W!reqVars
<1>11. CASE W!MarkRestart
  BY <1>11 DEF W!MarkRestart, W!Undeleted
<1>12. CASE UNCHANGED W!markVars
  BY <1>12 DEF W!markVars, W!reqVars
<1> QED
  BY <1>1, <1>2, <1>3, <1>4, <1>5, <1>6, <1>7, <1>8, <1>9, <1>10, <1>11,
     <1>12 DEF W!MarkNext, W!CleanUp

LEMMA CopyCurrentKept ==
  ASSUME MarkInv, [W!MarkNext]_(W!markVars)
  PROVE  CopyCurrent'
<1> USE DEF MarkInv, W!MarkTypes, W!Drawing, CopyCurrent, W!CopyCurrent, SetAfterDrop, AccessCurrent
<1>1. ASSUME NEW t \in Thread, W!Access(t) PROVE CopyCurrent'
  <2>1. CASE W!ReadMark(t) BY <2>1 DEF W!ReadMark, W!Setting, W!Goto
  <2>2. CASE W!CopyExists(t) BY <2>2 DEF W!CopyExists, W!Leave, W!Goto
  <2>3. CASE W!FetchSrc(t) BY <2>3 DEF W!FetchSrc, W!Leave, W!Goto
  <2>4. CASE W!PutCopy(t) BY <2>4 DEF W!PutCopy, W!Leave, W!Goto
  <2> QED BY <1>1, <2>1, <2>2, <2>3, <2>4 DEF W!Access
<1>2. ASSUME NEW t \in Thread, W!DropCopy(t) PROVE CopyCurrent'
  BY <1>2 DEF W!DropCopy, W!RemoveCopy, W!Overtaken, W!Goto
<1>3. ASSUME NEW t \in Thread, W!SetMark(t) PROVE CopyCurrent'
  BY <1>3 DEF W!SetMark, W!NewMarks, W!Leave, W!Goto
<1>4. ASSUME NEW t \in Thread, W!SetFails(t) PROVE CopyCurrent'
  BY <1>4 DEF W!SetFails, W!NewMarks, W!Leave, W!Goto
<1>5. ASSUME NEW t \in Thread, W!Erase(t) PROVE CopyCurrent'
  BY <1>5 DEF W!Erase, W!Overtaken, W!Undeleted, W!Goto
<1>6. ASSUME NEW t \in Thread, W!EraseLost(t) PROVE CopyCurrent'
  BY <1>6 DEF W!EraseLost, W!Overtaken
<1>7. ASSUME NEW t \in Thread, W!Post(t) PROVE CopyCurrent'
  BY <1>7 DEF W!Post, W!Leave, W!Goto
<1>8. ASSUME NEW t \in Thread, W!Restore(t) PROVE CopyCurrent'
  BY <1>8 DEF W!Restore, W!reqVars
<1>9. CASE W!CleanSrc
  BY <1>9 DEF W!CleanSrc, W!reqVars
<1>10. CASE W!CleanCopy
  BY <1>10 DEF W!CleanCopy, W!RemoveCopy, W!reqVars
<1>11. CASE W!MarkRestart
  BY <1>11 DEF W!MarkRestart, W!Undeleted
<1>12. CASE UNCHANGED W!markVars
  BY <1>12 DEF W!markVars, W!reqVars
<1> QED
  BY <1>1, <1>2, <1>3, <1>4, <1>5, <1>6, <1>7, <1>8, <1>9, <1>10, <1>11,
     <1>12 DEF W!MarkNext, W!CleanUp

LEMMA NoOrphanCopyKept ==
  ASSUME MarkInv, [W!MarkNext]_(W!markVars)
  PROVE  NoOrphanCopy'
<1> USE DEF MarkInv, W!MarkTypes, W!Drawing, NoOrphanCopy, W!NoOrphanCopy, W!Undeleted, AccessCurrent
<1>1. ASSUME NEW t \in Thread, W!Access(t) PROVE NoOrphanCopy'
  <2>1. CASE W!ReadMark(t) BY <2>1 DEF W!ReadMark, W!Setting, W!Goto
  <2>2. CASE W!CopyExists(t) BY <2>2 DEF W!CopyExists, W!Leave, W!Goto
  <2>3. CASE W!FetchSrc(t) BY <2>3 DEF W!FetchSrc, W!Leave, W!Goto
  <2>4. CASE W!PutCopy(t) BY <2>4 DEF W!PutCopy, W!Leave, W!Goto
  <2> QED BY <1>1, <2>1, <2>2, <2>3, <2>4 DEF W!Access
<1>2. ASSUME NEW t \in Thread, W!DropCopy(t) PROVE NoOrphanCopy'
  BY <1>2 DEF W!DropCopy, W!RemoveCopy, W!Overtaken, W!Goto
<1>3. ASSUME NEW t \in Thread, W!SetMark(t) PROVE NoOrphanCopy'
  BY <1>3 DEF W!SetMark, W!NewMarks, W!Leave, W!Goto
<1>4. ASSUME NEW t \in Thread, W!SetFails(t) PROVE NoOrphanCopy'
  BY <1>4 DEF W!SetFails, W!NewMarks, W!Leave, W!Goto
<1>5. ASSUME NEW t \in Thread, W!Erase(t) PROVE NoOrphanCopy'
  BY <1>5 DEF W!Erase, W!Overtaken, W!Undeleted, W!Goto
<1>6. ASSUME NEW t \in Thread, W!EraseLost(t) PROVE NoOrphanCopy'
  BY <1>6 DEF W!EraseLost, W!Overtaken
<1>7. ASSUME NEW t \in Thread, W!Post(t) PROVE NoOrphanCopy'
  BY <1>7 DEF W!Post, W!Leave, W!Goto
<1>8. ASSUME NEW t \in Thread, W!Restore(t) PROVE NoOrphanCopy'
  BY <1>8 DEF W!Restore, W!reqVars
<1>9. CASE W!CleanSrc
  BY <1>9 DEF W!CleanSrc, W!reqVars
<1>10. CASE W!CleanCopy
  BY <1>10 DEF W!CleanCopy, W!RemoveCopy, W!reqVars
<1>11. CASE W!MarkRestart
  BY <1>11 DEF W!MarkRestart, W!Undeleted
<1>12. CASE UNCHANGED W!markVars
  BY <1>12 DEF W!markVars, W!reqVars
<1> QED
  BY <1>1, <1>2, <1>3, <1>4, <1>5, <1>6, <1>7, <1>8, <1>9, <1>10, <1>11,
     <1>12 DEF W!MarkNext, W!CleanUp

LEMMA MarkInductive == MarkInv /\ [W!MarkNext]_(W!markVars) => MarkInv'
  BY MarkTyped, AccessCurrentKept, SetAfterDropKept, CopyCurrentKept,
     NoOrphanCopyKept DEF MarkInv

LEMMA MarkInvariant == Spec => []MarkInv
  BY MarkStart, MarkBegins, MarkSimulated, MarkInductive, PTL DEF Spec

(***************************************************************************)
(* A copy that is served has the watermark of the row, unless its access   *)
(* met a change, a deletion failed, or the row was deleted and came back.  *)
(***************************************************************************)
THEOREM CopyCorrect == Spec => []CopyCurrent
<1>1. MarkInv => CopyCurrent
  BY DEF MarkInv
<1> QED
  BY MarkInvariant, <1>1, PTL

(***************************************************************************)
(* The copy of a deleted file goes with it, with the same exceptions and   *)
(* that of a clean-up lost by a restart.                                   *)
(***************************************************************************)
THEOREM OrphanCorrect == Spec => []NoOrphanCopy
<1>1. MarkInv => NoOrphanCopy
  BY DEF MarkInv
<1> QED
  BY MarkInvariant, <1>1, PTL

(***************************************************************************)
(* The types of both components; a page is only stored after it was read,  *)
(* a copy only drawn with a watermark.                                     *)
(***************************************************************************)
THEOREM TypeCorrect == Spec => []TypeOK
<1>1. ListInv /\ MarkInv => TypeOK
  BY DEF ListInv, MarkInv, TypeOK
<1> QED
  BY ListInvariant, MarkInvariant, <1>1, PTL
=============================================================================
