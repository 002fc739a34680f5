--------------------------- MODULE ViewSyncProofs ---------------------------
(***************************************************************************)
(* Proofs about ViewSync: no view is counted twice or lost, and no counter *)
(* is forgotten, for any files and any number of views.                    *)
(***************************************************************************)
EXTENDS ViewSync, TLAPS

(***************************************************************************)
(* The inductive invariant, file by file.  What the thread has read of f   *)
(* it keeps exactly through the window of f, where it equals the counter   *)
(* unless f was viewed meanwhile; and a key entered after SMEMBERS, or     *)
(* viewed after its DEL, still has its SADD to come or is marked raced.    *)
(***************************************************************************)
Exact(f) ==
    /\ viewCount[f] + counter[f] = viewed[f] + Doubled(f)
    /\ InWindow(f) => got[f] = counter[f]

Findable(f) ==
    /\ counter[f] > 0 => f \in keys \/ pending[f] > 0
    /\ pc # "wait" /\ f \in keys => f \in round
    /\ pc = "delete" /\ f \in round \ todo /\ counter[f] > 0 => pending[f] > 0

Safe(f) ==
    /\ viewCount[f] + counter[f] <= viewed[f] + Doubled(f)
    /\ InWindow(f) => got[f] <= counter[f]

Book(f) ==
    /\ ~InWindow(f) => got[f] = 0
    /\ ~fault => Safe(f) /\ (f \notin raced => Exact(f) /\ Findable(f))

Books == \A f \in File : Book(f)

\* Every variable keeps its type, and the thread nothing between rounds.
THEOREM TypeCorrect == Spec => []TypeOK
<1>1. Init => TypeOK
  <2> SUFFICES ASSUME Init PROVE TypeOK
    OBVIOUS
  <2>1. fault \in BOOLEAN
    BY Zenon DEF Init
  <2> QED
    BY <2>1 DEF Init, TypeOK, Zero
<1>2. TypeOK /\ [Next]_vars => TypeOK'
  <2> SUFFICES ASSUME TypeOK, [Next]_vars PROVE TypeOK'
    OBVIOUS
  <2> USE DEF TypeOK, Zero
  <2>1. ASSUME NEW f \in File, View(f) PROVE TypeOK'
    BY <2>1 DEF View, sync
  <2>2. ASSUME NEW f \in File, Track(f) PROVE TypeOK'
    BY <2>2 DEF Track, sync
  <2>3. ASSUME NEW f \in File, TrackFails(f) PROVE TypeOK'
    BY <2>3 DEF TrackFails, sync
  <2>4. CASE Collect
    BY <2>4 DEF Collect, history
  <2>5. CASE Read
    BY <2>5 DEF Read, history
  <2>6. CASE NothingRead
    BY <2>6 DEF NothingRead, EndRound, history
  <2>7. CASE Commit
    BY <2>7 DEF Commit, history
  <2>8. CASE Delete
    BY <2>8 DEF Delete, history
  <2>9. CASE Forget
    BY <2>9 DEF Forget, EndRound, history
  <2>10. CASE ReadFails
    BY <2>10 DEF ReadFails, EndRound
  <2>11. CASE Reject
    BY <2>11 DEF Reject, EndRound, history
  <2>12. CASE CommitLost
    BY <2>12 DEF CommitLost
  <2>13. CASE DeleteFails
    BY <2>13 DEF DeleteFails, EndRound
  <2>14. CASE Restart
    BY <2>14 DEF Restart, EndRound
  <2>15. CASE UNCHANGED vars
    BY <2>15 DEF vars, sync, history
  <2> QED
    BY <2>1, <2>2, <2>3, <2>4, <2>5, <2>6, <2>7, <2>8, <2>9, <2>10, <2>11,
       <2>12, <2>13, <2>14, <2>15 DEF Next, Sync
<1> QED
  BY <1>1, <1>2, PTL DEF Spec

\* The books are kept: the invariant holds in every reachable state.
THEOREM BooksCorrect == Spec => []Books
<1>1. Init => Books
  <2> SUFFICES ASSUME Init, NEW f \in File PROVE Book(f)
    BY DEF Books
  <2>1. /\ counter[f] = 0 /\ viewCount[f] = 0 /\ viewed[f] = 0 /\ got[f] = 0
        /\ Doubled(f) = 0 /\ ~InWindow(f) /\ pc = "wait"
    BY DEF Init, Zero, Doubled, InWindow
  <2> QED
    BY <2>1 DEF Book, Safe, Exact, Findable
<1>2. TypeOK /\ Books /\ [Next]_vars => Books'
  <2> SUFFICES ASSUME TypeOK, Books, [Next]_vars, NEW g \in File PROVE Book(g)'
    BY DEF Books
  <2>0. Book(g)
    BY DEF Books
  <2> USE <2>0 DEF TypeOK, Book, Safe, Exact, Findable, InWindow, Doubled, Zero
  <2>1. ASSUME NEW f \in File, View(f) PROVE Book(g)'
    <3>1. CASE f = g
      BY <2>1, <3>1 DEF View, sync
    <3>2. CASE f # g
      BY <2>1, <3>2 DEF View, sync
    <3> QED
      BY <3>1, <3>2
  <2>2. ASSUME NEW f \in File, Track(f) PROVE Book(g)'
    BY <2>2 DEF Track, sync
  <2>3. ASSUME NEW f \in File, TrackFails(f) PROVE Book(g)'
    BY <2>3 DEF TrackFails, sync
  <2>4. CASE Collect
    BY <2>4 DEF Collect, history
  <2>5. CASE Read
    BY <2>5 DEF Read, history
  <2>6. CASE NothingRead
    BY <2>6 DEF NothingRead, EndRound, history
  <2>7. CASE Commit
    BY <2>7 DEF Commit, history
  <2>8. CASE Delete
    BY <2>8 DEF Delete, history
  <2>9. CASE Forget
    BY <2>9 DEF Forget, EndRound, history
  <2>10. CASE ReadFails
    BY <2>10 DEF ReadFails, EndRound
  <2>11. CASE Reject
    BY <2>11 DEF Reject, EndRound, history
  <2>12. CASE CommitLost
    BY <2>12 DEF CommitLost
  <2>13. CASE DeleteFails
    BY <2>13 DEF DeleteFails, EndRound
  <2>14. CASE Restart
    <3>1. CASE pc = "delete" \/ pending # Zero
      <4>1. fault' /\ got'[g] = 0
        BY <2>14, <3>1 DEF Restart, EndRound
      <4> QED
        BY <4>1
    <3>2. CASE pc # "delete" /\ pending = Zero
      <4>1. /\ got'[g] = 0 /\ pc' = "wait" /\ pending' = pending /\ ~fault
            /\ UNCHANGED <<counter, keys, viewCount, viewed, raced>>
        BY <2>14, <3>2 DEF Restart, EndRound, MayFail
      <4> QED
        BY <3>2, <4>1
    <3> QED
      BY <3>1, <3>2
  <2>15. CASE UNCHANGED vars
    BY <2>15 DEF vars, sync, history
  <2> QED
    BY <2>1, <2>2, <2>3, <2>4, <2>5, <2>6, <2>7, <2>8, <2>9, <2>10, <2>11,
       <2>12, <2>13, <2>14, <2>15 DEF Next, Sync
<1> QED
  BY <1>1, <1>2, TypeCorrect, PTL DEF Spec

\* No view is counted twice before a failure.
THEOREM NeverOvercountedCorrect == Spec => []NeverOvercounted
<1>1. Books => NeverOvercounted
  BY DEF Books, Book, Safe, NeverOvercounted
<1> QED
  BY <1>1, BooksCorrect, PTL

\* No view is lost outside the window between its counter's GET and DEL.
THEOREM ConservedCorrect == Spec => []Conserved
<1>1. Books => Conserved
  BY DEF Books, Book, Exact, Conserved
<1> QED
  BY <1>1, BooksCorrect, PTL

\* The next round finds every counter, unless its key was entered in a round.
THEOREM TrackedCorrect == Spec => []Tracked
<1>1. Books => Tracked
  BY DEF Books, Book, Findable, Tracked
<1> QED
  BY <1>1, BooksCorrect, PTL
-----------------------------------------------------------------------------
(* ViewSync implements ViewLedger. *)

\* What a round adds to the view_count of f it has read from the counter of f,
\* which holds only views not yet added.
LEMMA RoundAddsUncounted ==
    ASSUME TypeOK, Books, ~fault, pc = "read", NEW f \in File
    PROVE  viewCount[f] + got[f] <= viewed[f]
<1>1. Book(f) /\ Doubled(f) = 0
  BY DEF Books, Doubled
<1>2. got[f] <= counter[f]
  BY <1>1 DEF Book, Safe, TypeOK
<1> QED
  BY <1>1, <1>2 DEF Book, Safe, TypeOK

LEMMA LedgerNext == TypeOK /\ Books /\ [Next]_vars => [Ledger!Next]_(Ledger!vars)
<1> SUFFICES ASSUME TypeOK, Books, [Next]_vars
             PROVE  Ledger!Next \/ UNCHANGED <<viewed, viewCount, fault>>
  BY DEF Ledger!vars
<1>1. ASSUME NEW f \in File, View(f) PROVE Ledger!See(f)
  BY <1>1 DEF View, Ledger!See
<1>2. CASE Commit
  <2>1. viewCount' \in [File -> Nat]
    BY <1>2 DEF Commit, TypeOK
  <2>2. ASSUME NEW f \in File
        PROVE  viewCount[f] <= viewCount'[f] /\ (fault \/ viewCount'[f] <= viewed[f])
    <3>1. viewCount'[f] = viewCount[f] + got[f] /\ pc = "read"
      BY <1>2 DEF Commit
    <3> QED
      BY <3>1, RoundAddsUncounted DEF TypeOK
  <2> QED
    BY <1>2, <2>1, <2>2 DEF Commit, history, Ledger!Next, Ledger!Show
<1>3. ASSUME UNCHANGED <<viewed, viewCount>>, fault' = TRUE PROVE Ledger!Doubt
  BY <1>3 DEF Ledger!Doubt
<1>4. ASSUME NEW f \in File, TrackFails(f) PROVE Ledger!Doubt
  BY <1>3, <1>4 DEF TrackFails
<1>5. CASE CommitLost \/ DeleteFails
  BY <1>3, <1>5 DEF CommitLost, DeleteFails, Ledger!Next
<1>6. CASE ReadFails
  BY <1>3, <1>6 DEF ReadFails, Ledger!Next
<1>7. CASE Restart
  <2>1. CASE pc = "delete" \/ pending # Zero
    BY <1>3, <1>7, <2>1 DEF Restart, Ledger!Next
  <2>2. CASE ~(pc = "delete" \/ pending # Zero)
    <3>1. fault' = FALSE /\ fault = FALSE
      BY <1>7, <2>2 DEF Restart, MayFail, TypeOK
    <3> QED
      BY <1>7, <3>1 DEF Restart
  <2> QED
    BY <2>1, <2>2
<1>8. ASSUME NEW f \in File, Track(f) PROVE UNCHANGED <<viewed, viewCount, fault>>
  BY <1>8 DEF Track
<1>9. CASE Collect \/ Read \/ NothingRead \/ Delete \/ Forget \/ Reject \/ UNCHANGED vars
  BY <1>9 DEF Collect, Read, NothingRead, Delete, Forget, Reject, history, vars
<1> QED
  BY <1>1, <1>2, <1>4, <1>5, <1>6, <1>7, <1>8, <1>9 DEF Next, Sync, Ledger!Next

\* The count MySQL shows of a file only grows, and never beyond the views the
\* file had, until a failure past the commit.
THEOREM ViewSyncImplementsLedger == Spec => LedgerSpec
<1>1. Init => Ledger!Init
  BY DEF Init, Ledger!Init, Zero
<1> QED
  BY <1>1, LedgerNext, TypeCorrect, BooksCorrect, PTL
  DEF Spec, LedgerSpec, Ledger!Spec
=============================================================================
