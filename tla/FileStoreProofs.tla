-------------------------- MODULE FileStoreProofs ---------------------------
(***************************************************************************)
(* Proofs about FileStore, for any files, requests, quota and bounds: rows *)
(* have objects, objects have rows, and how far the quota can be exceeded. *)
(***************************************************************************)
EXTENDS FileStore, FiniteSetTheorems, TLAPS

\* Every variable keeps its type; a request works on files unless it is idle.
THEOREM TypeCorrect == Spec => []TypeOK
<1> USE DEF TypeOK
<1>1. Init => TypeOK
  BY StoreAssumption DEF Init
<1>2. TypeOK /\ [Next]_vars => TypeOK'
  <2> SUFFICES ASSUME TypeOK, [Next]_vars PROVE TypeOK'
    OBVIOUS
  <2> USE DEF Goto, Tear, history
  <2>1. ASSUME NEW c \in Caller, Put(c) PROVE TypeOK'
    BY <2>1 DEF Put
  <2>2. ASSUME NEW c \in Caller, Save(c) PROVE TypeOK'
    BY <2>2 DEF Save
  <2>3. ASSUME NEW c \in Caller, Undo(c) PROVE TypeOK'
    BY <2>3 DEF Undo
  <2>4. ASSUME NEW c \in Caller, ConfirmSave(c) PROVE TypeOK'
    BY <2>4 DEF ConfirmSave
  <2>5. ASSUME NEW c \in Caller, BatchErase(c) PROVE TypeOK'
    BY <2>5 DEF BatchErase
  <2>6. ASSUME NEW c \in Caller, Post(c) PROVE TypeOK'
    <3>1. due' \in [File -> 0..MaxDue]
      BY <2>6, StoreAssumption DEF Post
    <3> QED
      BY <2>6, <3>1 DEF Post
  <2>7. ASSUME NEW c \in Caller, NEW f \in File, Upload(c, f) PROVE TypeOK'
    <3>1. origin' \in [File -> {"unused", "uploaded", "unchecked", "presigned"}]
      BY <2>7 DEF Upload, CheckQuota
    <3> QED
      BY <2>7, <3>1 DEF Upload
  <2>8. ASSUME NEW c \in Caller, NEW f \in File, Confirm(c, f) PROVE TypeOK'
    BY <2>8 DEF Confirm
  <2>9. ASSUME NEW c \in Caller, NEW f \in File, Delete(c, f) PROVE TypeOK'
    BY <2>9 DEF Delete
  <2>10. ASSUME NEW c \in Caller, NEW S \in SUBSET File, BatchSelect(c, S)
         PROVE TypeOK'
    BY <2>10 DEF BatchSelect
  <2>11. ASSUME NEW f \in File, RequestUrl(f) PROVE TypeOK'
    BY <2>11 DEF RequestUrl
  <2>12. ASSUME NEW f \in File, ClientPut(f) PROVE TypeOK'
    BY <2>12 DEF ClientPut
  <2>13. ASSUME NEW f \in File, DeleteObject(f) PROVE TypeOK'
    <3>1. due' \in [File -> 0..MaxDue]
      BY <2>13, StoreAssumption DEF DeleteObject
    <3> QED
      BY <2>13, <3>1 DEF DeleteObject
  <2>14. CASE Restart
    <3>1. torn' \in SUBSET File
      <4>0. \A c \in Caller : \A f \in work[c] : f \in File
        OBVIOUS
      <4>1. UNION {work[c] : c \in Caller} \subseteq File
        BY <4>0
      <4>2. torn' = torn \cup ((UNION {work[c] : c \in Caller}) \cup {f \in File : due[f] > 0})
        BY <2>14 DEF Restart
      <4> HIDE DEF TypeOK
      <4>3. torn \subseteq File
        BY DEF TypeOK
      <4> QED
        BY <4>1, <4>2, <4>3, Zenon
    <3>2. due' \in [File -> 0..MaxDue]
      BY <2>14, StoreAssumption DEF Restart
    <3> QED
      BY <2>14, <3>1, <3>2 DEF Restart
  <2>15. CASE UNCHANGED vars
    BY <2>15 DEF vars
  <2> QED
    BY <2>1, <2>2, <2>3, <2>4, <2>5, <2>6, <2>7, <2>8, <2>9, <2>10, <2>11,
       <2>12, <2>13, <2>14, <2>15 DEF Next, Continue
<1> QED
  BY <1>1, <1>2, PTL DEF Spec
-----------------------------------------------------------------------------
(***************************************************************************)
(* A file that no failure has hit and that was never deleted: its id is    *)
(* known to nobody but the upload that works on it until it has its row,   *)
(* and nothing is queued against it.                                       *)
(***************************************************************************)
Fresh(f) ==
    origin[f] = "unused" =>
        /\ f \notin rows \cup objects \cup deleted
        /\ due[f] = 0
        /\ \A c \in Caller : f \notin work[c]

Untouched(f) ==
    /\ due[f] = 0
    /\ f \in rows => f \in objects
    /\ \A c \in Caller : f \in work[c] =>
        /\ pc[c] \in {"put", "save", "undo"} =>
               /\ f \notin rows
               /\ origin[f] \in {"uploaded", "unchecked"}
               /\ \A d \in Caller : d # c => f \notin work[d]
        /\ pc[c] \in {"save", "confirm"} => f \in objects
        /\ pc[c] = "batch" => f \in rows
        /\ pc[c] # "post"

Intact == \A f \in File : /\ Fresh(f)
                          /\ f \notin torn \cup deleted => Untouched(f)

\* Files that were not hit or deleted stay intact.
LEMMA IntactCorrect == Spec => []Intact
<1>1. Init => Intact
  BY DEF Init, Intact, Fresh, Untouched
<1>2. TypeOK /\ Intact /\ [Next]_vars => Intact'
  <2> SUFFICES ASSUME TypeOK, Intact, [Next]_vars, NEW f \in File
               PROVE (Fresh(f) /\ (f \notin torn \cup deleted => Untouched(f)))'
    BY DEF Intact
  <2>0. Fresh(f) /\ (f \notin torn \cup deleted => Untouched(f))
    BY DEF Intact
  <2> USE DEF TypeOK, Fresh, Untouched, Goto, Tear, history
  <2>1. ASSUME NEW c \in Caller, Put(c)
        PROVE (Fresh(f) /\ (f \notin torn \cup deleted => Untouched(f)))'
    BY <2>0, <2>1 DEF Put
  <2>2. ASSUME NEW c \in Caller, Save(c)
        PROVE (Fresh(f) /\ (f \notin torn \cup deleted => Untouched(f)))'
    BY <2>0, <2>2 DEF Save
  <2>3. ASSUME NEW c \in Caller, Undo(c)
        PROVE (Fresh(f) /\ (f \notin torn \cup deleted => Untouched(f)))'
    BY <2>0, <2>3 DEF Undo
  <2>4. ASSUME NEW c \in Caller, ConfirmSave(c)
        PROVE (Fresh(f) /\ (f \notin torn \cup deleted => Untouched(f)))'
    BY <2>0, <2>4 DEF ConfirmSave
  <2>5. ASSUME NEW c \in Caller, BatchErase(c)
        PROVE (Fresh(f) /\ (f \notin torn \cup deleted => Untouched(f)))'
    BY <2>0, <2>5 DEF BatchErase
  <2>6. ASSUME NEW c \in Caller, Post(c)
        PROVE (Fresh(f) /\ (f \notin torn \cup deleted => Untouched(f)))'
    BY <2>0, <2>6 DEF Post
  <2>7. ASSUME NEW c \in Caller, NEW g \in File, Upload(c, g)
        PROVE (Fresh(f) /\ (f \notin torn \cup deleted => Untouched(f)))'
    <3>1. CASE f = g
      BY <2>0, <2>7, <3>1 DEF Upload, CheckQuota
    <3>2. CASE f # g
      BY <2>0, <2>7, <3>2 DEF Upload
    <3> QED
      BY <3>1, <3>2
  <2>8. ASSUME NEW c \in Caller, NEW g \in File, Confirm(c, g)
        PROVE (Fresh(f) /\ (f \notin torn \cup deleted => Untouched(f)))'
    BY <2>0, <2>8 DEF Confirm, Known
  <2>9. ASSUME NEW c \in Caller, NEW g \in File, Delete(c, g)
        PROVE (Fresh(f) /\ (f \notin torn \cup deleted => Untouched(f)))'
    BY <2>0, <2>9 DEF Delete
  <2>10. ASSUME NEW c \in Caller, NEW S \in SUBSET File, BatchSelect(c, S)
         PROVE (Fresh(f) /\ (f \notin torn \cup deleted => Untouched(f)))'
    BY <2>0, <2>10 DEF BatchSelect
  <2>11. ASSUME NEW g \in File, RequestUrl(g)
         PROVE (Fresh(f) /\ (f \notin torn \cup deleted => Untouched(f)))'
    BY <2>0, <2>11 DEF RequestUrl
  <2>12. ASSUME NEW g \in File, ClientPut(g)
         PROVE (Fresh(f) /\ (f \notin torn \cup deleted => Untouched(f)))'
    BY <2>0, <2>12 DEF ClientPut
  <2>13. ASSUME NEW g \in File, DeleteObject(g)
         PROVE (Fresh(f) /\ (f \notin torn \cup deleted => Untouched(f)))'
    BY <2>0, <2>13 DEF DeleteObject
  <2>14. CASE Restart
    BY <2>0, <2>14 DEF Restart
  <2>15. CASE UNCHANGED vars
    BY <2>0, <2>15 DEF vars
  <2> QED
    BY <2>1, <2>2, <2>3, <2>4, <2>5, <2>6, <2>7, <2>8, <2>9, <2>10, <2>11,
       <2>12, <2>13, <2>14, <2>15 DEF Next, Continue
<1> QED
  BY TypeCorrect, <1>1, <1>2, PTL DEF Spec

\* A row has its object, unless a failure has hit the file or it was deleted
\* before.
THEOREM RowHasObjectCorrect == Spec => []RowHasObject
<1>1. TypeOK /\ Intact => RowHasObject
  BY DEF TypeOK, Intact, Untouched, RowHasObject
<1> QED
  BY TypeCorrect, IntactCorrect, <1>1, PTL
-----------------------------------------------------------------------------
\* ObjectAccounted, file by file.
Accounted(f) ==
    f \in objects \ (rows \cup torn) =>
        \/ origin[f] = "presigned"
        \/ due[f] > 0
        \/ \E c \in Caller : f \in work[c] /\ pc[c] \in {"save", "undo", "post"}

AllAccounted == \A f \in File : Accounted(f)

\* An object that is not presigned has a row or is about to be removed, unless
\* a failure has hit it.
THEOREM ObjectAccountedCorrect == Spec => []ObjectAccounted
<1>1. Init => AllAccounted
  BY DEF Init, AllAccounted, Accounted
<1>2. TypeOK /\ Intact /\ AllAccounted /\ [Next]_vars => AllAccounted'
  <2> SUFFICES ASSUME TypeOK, Intact, AllAccounted, [Next]_vars, NEW f \in File
               PROVE Accounted(f)'
    BY DEF AllAccounted
  <2>0. Accounted(f) /\ Fresh(f)
    BY DEF Intact, AllAccounted
  <2> USE DEF TypeOK, Accounted, Goto, Tear, history
  <2>1. ASSUME NEW c \in Caller, Put(c) PROVE Accounted(f)'
    BY <2>0, <2>1 DEF Put
  <2>2. ASSUME NEW c \in Caller, Save(c) PROVE Accounted(f)'
    BY <2>0, <2>2 DEF Save
  <2>3. ASSUME NEW c \in Caller, Undo(c) PROVE Accounted(f)'
    BY <2>0, <2>3 DEF Undo
  <2>4. ASSUME NEW c \in Caller, ConfirmSave(c) PROVE Accounted(f)'
    BY <2>0, <2>4 DEF ConfirmSave
  <2>5. ASSUME NEW c \in Caller, BatchErase(c) PROVE Accounted(f)'
    BY <2>0, <2>5 DEF BatchErase
  <2>6. ASSUME NEW c \in Caller, Post(c) PROVE Accounted(f)'
    BY <2>0, <2>6 DEF Post
  <2>7. ASSUME NEW c \in Caller, NEW g \in File, Upload(c, g)
        PROVE Accounted(f)'
    <3>1. CASE f = g
      BY <2>0, <2>7, <3>1 DEF Upload, Fresh
    <3>2. CASE f # g
      BY <2>0, <2>7, <3>2 DEF Upload
    <3> QED
      BY <3>1, <3>2
  <2>8. ASSUME NEW c \in Caller, NEW g \in File, Confirm(c, g)
        PROVE Accounted(f)'
    BY <2>0, <2>8 DEF Confirm
  <2>9. ASSUME NEW c \in Caller, NEW g \in File, Delete(c, g)
        PROVE Accounted(f)'
    BY <2>0, <2>9 DEF Delete
  <2>10. ASSUME NEW c \in Caller, NEW S \in SUBSET File, BatchSelect(c, S)
         PROVE Accounted(f)'
    BY <2>0, <2>10 DEF BatchSelect
  <2>11. ASSUME NEW g \in File, RequestUrl(g) PROVE Accounted(f)'
    BY <2>0, <2>11 DEF RequestUrl
  <2>12. ASSUME NEW g \in File, ClientPut(g) PROVE Accounted(f)'
    BY <2>0, <2>12 DEF ClientPut
  <2>13. ASSUME NEW g \in File, DeleteObject(g) PROVE Accounted(f)'
    BY <2>0, <2>13 DEF DeleteObject
  <2>14. CASE Restart
    BY <2>0, <2>14 DEF Restart
  <2>15. CASE UNCHANGED vars
    BY <2>0, <2>15 DEF vars
  <2> QED
    BY <2>1, <2>2, <2>3, <2>4, <2>5, <2>6, <2>7, <2>8, <2>9, <2>10, <2>11,
       <2>12, <2>13, <2>14, <2>15 DEF Next, Continue
<1>3. TypeOK /\ AllAccounted => ObjectAccounted
  BY DEF TypeOK, AllAccounted, Accounted, ObjectAccounted, WorkAt
<1> QED
  BY TypeCorrect, IntactCorrect, <1>1, <1>2, <1>3, PTL DEF Spec
-----------------------------------------------------------------------------
(***************************************************************************)
(* What counts against the overshoot: checked uploads that have their row, *)
(* or may still get one.  Only a new upload adds to it, when there are     *)
(* fewer rows than the quota, and then the others are those in progress.   *)
(***************************************************************************)
Writing == {c \in Caller : pc[c] \in {"put", "save"}}

Counted == {f \in File : /\ origin[f] = "uploaded"
                         /\ \/ f \in rows \ deleted
                            \/ \E c \in Writing : f \in work[c]}

\* What a confirm in progress saves was presigned or had its row already, and
\* an upload in progress has one file.
Confirmable ==
    \A c \in Caller : \A f \in work[c] :
        /\ pc[c] = "confirm" => origin[f] = "presigned" \/ f \in rows \cup deleted
        /\ pc[c] # "idle" => origin[f] # "unused"

OneEach == \A c \in Writing : \A f, g \in work[c] : f = g

Budget == Cardinality(Counted) < Quota + Cardinality(Caller)

\* Requests with one file each have at most as many files.
LEMMA OwnersBound ==
    ASSUME NEW C \in SUBSET Caller, NEW w \in [Caller -> SUBSET File],
           \A c \in C : w[c] # {} /\ \A f, g \in w[c] : f = g
    PROVE  LET W == {f \in File : \E c \in C : f \in w[c]}
           IN  IsFiniteSet(W) /\ Cardinality(W) <= Cardinality(Caller)
<1> DEFINE W == {f \in File : \E c \in C : f \in w[c]}
           fileOf == [c \in C |-> CHOOSE f \in File : f \in w[c]]
<1>1. IsFiniteSet(C) /\ Cardinality(C) <= Cardinality(Caller)
  BY FS_Subset, StoreAssumption
<1>2. \A c \in C : \E f \in File : f \in w[c]
  OBVIOUS
<1>3. \A c \in C : fileOf[c] \in W /\ fileOf[c] \in w[c]
  BY <1>2
<1>4. \A f \in W : \E c \in C : fileOf[c] = f
  BY <1>3
<1>5. fileOf \in Surjection(C, W)
  BY <1>3, <1>4 DEF Surjection
<1>6. IsFiniteSet(W) /\ Cardinality(W) <= Cardinality(C)
  <2> HIDE DEF W, fileOf
  <2> QED
    BY <1>1, <1>5, FS_Surjection, Zenon
<1>7. Cardinality(W) \in Nat /\ Cardinality(C) \in Nat /\ Cardinality(Caller) \in Nat
  BY <1>1, <1>6, FS_CardinalityType, StoreAssumption
<1> QED
  BY <1>1, <1>6, <1>7

\* A step that counts no new file keeps the budget.
LEMMA BudgetKept ==
    ASSUME TypeOK, Budget, Counted' \subseteq Counted
    PROVE  Budget'
<1>1. IsFiniteSet(Counted)
  <2>1. Counted \in SUBSET File
    BY DEF Counted
  <2> QED
    BY <2>1, FS_Subset, StoreAssumption
<1>2. Cardinality(Counted') <= Cardinality(Counted)
  BY <1>1, FS_Subset, Zenon
<1>3. Cardinality(Counted') \in Nat /\ Cardinality(Counted) \in Nat
      /\ Cardinality(Caller) \in Nat
  BY <1>1, FS_Subset, FS_CardinalityType, StoreAssumption
<1> QED
  BY <1>2, <1>3, StoreAssumption DEF Budget

\* A new upload counts only if there are fewer rows than the quota.
LEMMA BudgetUpload ==
    ASSUME TypeOK, TypeOK', Budget, OneEach', NEW c \in Caller, NEW g \in File,
           Upload(c, g), Confirmable
    PROVE  Budget'
<1>1. CASE Cardinality(rows) + 1 <= Quota
  <2> DEFINE W == {f \in File : \E d \in Writing' : f \in (work')[d]}
  <2>1. Counted' \subseteq rows \cup W
    BY <1>1 DEF Upload, Counted
  <2>2. IsFiniteSet(W) /\ Cardinality(W) <= Cardinality(Caller)
    <3>1. work' \in [Caller -> SUBSET File] /\ Writing' \in SUBSET Caller
      BY DEF TypeOK, Writing
    <3>2. \A d \in Writing' : (work')[d] # {} /\ \A f, h \in (work')[d] : f = h
      BY DEF TypeOK, OneEach, Writing
    <3> QED
      BY <3>1, <3>2, OwnersBound
  <2>3. IsFiniteSet(rows)
    BY FS_Subset, StoreAssumption DEF TypeOK
  <2> HIDE DEF W
  <2>4. Cardinality(Counted') <= Cardinality(rows \cup W) /\ IsFiniteSet(rows \cup W)
    BY <2>1, <2>2, <2>3, FS_Union, FS_Subset, Zenon
  <2>5. Cardinality(rows \cup W) <= Cardinality(rows) + Cardinality(W)
    <3>1. Cardinality(rows \cap W) \in Nat /\ Cardinality(rows) \in Nat
          /\ Cardinality(W) \in Nat
      BY <2>2, <2>3, FS_Intersection, FS_CardinalityType
    <3>2. Cardinality(rows \cup W)
            = Cardinality(rows) + Cardinality(W) - Cardinality(rows \cap W)
      BY <2>2, <2>3, FS_Union, Zenon
    <3> QED
      BY <3>1, <3>2
  <2>6. /\ Cardinality(Counted') \in Nat /\ Cardinality(rows \cup W) \in Nat
        /\ Cardinality(rows) \in Nat /\ Cardinality(W) \in Nat
        /\ Cardinality(Caller) \in Nat
    BY <2>1, <2>2, <2>3, <2>4, FS_Subset, FS_CardinalityType, StoreAssumption
  <2> QED
    BY <1>1, <2>2, <2>4, <2>5, <2>6, StoreAssumption DEF Budget
<1>2. CASE ~(Cardinality(rows) + 1 <= Quota)
  <2>1. origin' = [origin EXCEPT ![g] = "unchecked"]
    BY <1>2 DEF Upload, CheckQuota
  <2>2. Counted' \subseteq Counted
    BY <2>1 DEF Upload, Counted, Writing, Goto, TypeOK, history
  <2> QED
    BY <2>2, BudgetKept
<1> QED
  BY <1>1, <1>2

\* The overshoot of the quota is less than a file for each request.
THEOREM QuotaOvershootCorrect == Spec => []QuotaOvershoot
<1> DEFINE Booked == Confirmable /\ OneEach
<1>1. Init => Booked /\ Budget
  <2> SUFFICES ASSUME Init PROVE Booked /\ Budget
    OBVIOUS
  <2>1. Counted = {}
    BY DEF Init, Counted, Writing
  <2>2. Budget
    BY <2>1, FS_EmptySet, FS_CardinalityType, StoreAssumption DEF Budget
  <2> QED
    BY <2>2 DEF Init, Confirmable, OneEach, Writing
<1>2. TypeOK /\ Intact /\ Booked /\ [Next]_vars => Booked'
  <2> SUFFICES ASSUME TypeOK, Intact, Booked, [Next]_vars PROVE Booked'
    OBVIOUS
  <2> USE DEF TypeOK, Confirmable, OneEach, Writing, Goto, Tear, history
  <2>1. ASSUME NEW c \in Caller, Continue(c) PROVE Booked'
    BY <2>1 DEF Continue, Put, Save, Undo, ConfirmSave, BatchErase
  <2>2. ASSUME NEW c \in Caller, Post(c) PROVE Booked'
    BY <2>2 DEF Post
  <2>3. ASSUME NEW c \in Caller, NEW g \in File, Upload(c, g) PROVE Booked'
    BY <2>3 DEF Upload, CheckQuota, Intact, Fresh
  <2>4. ASSUME NEW c \in Caller, NEW g \in File, Confirm(c, g) PROVE Booked'
    BY <2>4 DEF Confirm, Known, Intact, Fresh
  <2>5. ASSUME NEW c \in Caller, NEW g \in File, Delete(c, g) PROVE Booked'
    BY <2>5 DEF Delete, Intact, Fresh
  <2>6. ASSUME NEW c \in Caller, NEW S \in SUBSET File, BatchSelect(c, S)
        PROVE Booked'
    BY <2>6 DEF BatchSelect, Intact, Fresh
  <2>7. ASSUME NEW f \in File, RequestUrl(f) \/ ClientPut(f) \/ DeleteObject(f)
        PROVE Booked'
    BY <2>7 DEF RequestUrl, ClientPut, DeleteObject
  <2>8. CASE Restart
    BY <2>8 DEF Restart
  <2>9. CASE UNCHANGED vars
    BY <2>9 DEF vars
  <2> QED
    BY <2>1, <2>2, <2>3, <2>4, <2>5, <2>6, <2>7, <2>8, <2>9 DEF Next
<1>3. /\ TypeOK /\ TypeOK' /\ Intact /\ Booked /\ Booked' /\ Budget /\ [Next]_vars
      => Budget'
  <2> SUFFICES ASSUME TypeOK, TypeOK', Intact, Booked, Booked', Budget, [Next]_vars
               PROVE Budget'
    OBVIOUS
  <2>1. ASSUME NEW c \in Caller, NEW g \in File, Upload(c, g) PROVE Budget'
    BY <2>1, BudgetUpload
  <2>2. ASSUME ~\E c \in Caller, g \in File : Upload(c, g)
        PROVE  Counted' \subseteq Counted
    <3> USE DEF TypeOK, Confirmable, Counted, Writing, Goto, Tear, history
    <3>1. ASSUME NEW c \in Caller, Continue(c) PROVE Counted' \subseteq Counted
      BY <3>1 DEF Continue, Put, Save, Undo, ConfirmSave, BatchErase
    <3>2. ASSUME NEW c \in Caller, Post(c) PROVE Counted' \subseteq Counted
      BY <3>2 DEF Post
    <3>3. ASSUME NEW c \in Caller, NEW g \in File, Confirm(c, g) \/ Delete(c, g)
          PROVE Counted' \subseteq Counted
      BY <3>3 DEF Confirm, Delete
    <3>4. ASSUME NEW c \in Caller, NEW S \in SUBSET File, BatchSelect(c, S)
          PROVE Counted' \subseteq Counted
      BY <3>4 DEF BatchSelect
    <3>5. ASSUME NEW f \in File, RequestUrl(f) \/ ClientPut(f) \/ DeleteObject(f)
          PROVE Counted' \subseteq Counted
      BY <3>5 DEF RequestUrl, ClientPut, DeleteObject
    <3>6. CASE Restart
      BY <3>6 DEF Restart
    <3>7. CASE UNCHANGED vars
      BY <3>7 DEF vars
    <3> QED
      BY <2>2, <3>1, <3>2, <3>3, <3>4, <3>5, <3>6, <3>7 DEF Next
  <2> QED
    BY <2>1, <2>2, BudgetKept
<1>4. TypeOK /\ Budget => QuotaOvershoot
  <2> SUFFICES ASSUME TypeOK, Budget PROVE QuotaOvershoot
    OBVIOUS
  <2> DEFINE U == {f \in rows \ deleted : origin[f] = "uploaded"}
  <2>1. U \subseteq Counted /\ Counted \subseteq File
    BY DEF Counted, TypeOK
  <2> HIDE DEF U
  <2>2. IsFiniteSet(Counted) /\ IsFiniteSet(U) /\ Cardinality(U) <= Cardinality(Counted)
    BY <2>1, FS_Subset, StoreAssumption
  <2>3. /\ Cardinality(Counted) \in Nat /\ Cardinality(U) \in Nat
        /\ Cardinality(Caller) \in Nat
    BY <2>2, FS_CardinalityType, StoreAssumption
  <2> QED
    BY <2>2, <2>3, StoreAssumption DEF Budget, QuotaOvershoot, U
<1> QED
  BY TypeCorrect, IntactCorrect, <1>1, <1>2, <1>3, <1>4, PTL DEF Spec
-----------------------------------------------------------------------------
\* Until its row is there, an upload has its file for itself, torn or not.
Young(f) ==
    \A c \in Caller : pc[c] \in {"put", "save"} /\ f \in work[c] =>
        /\ f \notin rows \cup deleted
        /\ origin[f] \in {"uploaded", "unchecked"}
        /\ \A d \in Caller : d # c => f \notin work[d]

LEMMA YoungCorrect == Spec => [](\A f \in File : Young(f))
<1>1. Init => \A f \in File : Young(f)
  BY DEF Init, Young
<1>2. TypeOK /\ Intact /\ (\A f \in File : Young(f)) /\ [Next]_vars
      => (\A f \in File : Young(f))'
  <2> SUFFICES ASSUME TypeOK, Intact, [Next]_vars, NEW f \in File, Young(f)
               PROVE  Young(f)'
    OBVIOUS
  <2>0. Fresh(f)
    BY DEF Intact
  <2> USE DEF TypeOK, Young, Goto, Tear, history
  <2>1. ASSUME NEW c \in Caller, Continue(c) PROVE Young(f)'
    BY <2>1 DEF Continue, Put, Save, Undo, ConfirmSave, BatchErase
  <2>2. ASSUME NEW c \in Caller, Post(c) PROVE Young(f)'
    BY <2>2 DEF Post
  <2>3. ASSUME NEW c \in Caller, NEW g \in File, Upload(c, g) PROVE Young(f)'
    <3>1. CASE f = g
      BY <2>0, <2>3, <3>1 DEF Upload, CheckQuota, Fresh
    <3>2. CASE f # g
      BY <2>3, <3>2 DEF Upload
    <3> QED
      BY <3>1, <3>2
  <2>4. ASSUME NEW c \in Caller, NEW g \in File, Confirm(c, g) PROVE Young(f)'
    BY <2>4 DEF Confirm, Known
  <2>5. ASSUME NEW c \in Caller, NEW g \in File, Delete(c, g) PROVE Young(f)'
    BY <2>5 DEF Delete
  <2>6. ASSUME NEW c \in Caller, NEW S \in SUBSET File, BatchSelect(c, S)
        PROVE Young(f)'
    BY <2>6 DEF BatchSelect
  <2>7. ASSUME NEW g \in File, RequestUrl(g) PROVE Young(f)'
    BY <2>7 DEF RequestUrl
  <2>8. ASSUME NEW g \in File, ClientPut(g) \/ DeleteObject(g) PROVE Young(f)'
    BY <2>8 DEF ClientPut, DeleteObject
  <2>9. CASE Restart
    BY <2>9 DEF Restart
  <2>10. CASE UNCHANGED vars
    BY <2>10 DEF vars
  <2> QED
    BY <2>1, <2>2, <2>3, <2>4, <2>5, <2>6, <2>7, <2>8, <2>9, <2>10 DEF Next
<1> QED
  BY TypeCorrect, IntactCorrect, <1>1, <1>2, PTL DEF Spec

\* A deleted file only comes back by a confirm.
THEOREM DeletedStaysCorrect == Spec => DeletedStays
<1>1. TypeOK /\ (\A f \in File : Young(f)) /\ [Next]_vars
      => [\A f \in deleted \cap (rows' \ rows) :
             \E c \in Caller : pc[c] = "confirm" /\ f \in work[c]]_vars
  <2> SUFFICES ASSUME TypeOK, \A f \in File : Young(f), Next,
                      NEW f \in deleted \cap (rows' \ rows)
               PROVE  \E c \in Caller : pc[c] = "confirm" /\ f \in work[c]
    BY DEF vars
  <2>0. f \in File /\ Young(f)
    BY DEF TypeOK
  <2>1. ASSUME NEW c \in Caller, Save(c) PROVE FALSE
    <3>1. f \in work[c] /\ pc[c] = "save"
      BY <2>1 DEF Save
    <3> QED
      BY <2>0, <3>1 DEF Young
  <2>2. ASSUME NEW c \in Caller, ConfirmSave(c) PROVE pc[c] = "confirm" /\ f \in work[c]
    BY <2>2 DEF ConfirmSave
  <2>3. ASSUME rows' \subseteq rows PROVE FALSE
    BY <2>3
  <2> QED
    BY <2>1, <2>2, <2>3 DEF Next, Continue, Put, Undo, BatchErase, Post, Upload,
       Confirm, Delete, BatchSelect, RequestUrl, ClientPut, DeleteObject, Restart
<1> QED
  BY TypeCorrect, YoungCorrect, <1>1, PTL DEF Spec, DeletedStays
=============================================================================
