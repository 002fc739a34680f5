----------------------- MODULE MultipartUploadProofs ------------------------
(***************************************************************************)
(* Proofs about MultipartUpload, for any number of chunks and requests and *)
(* any bounds: no chunk is forgotten, and one upload becomes one file.     *)
(***************************************************************************)
EXTENDS MultipartUpload, FiniteSetTheorems, TLAPS

\* The types, without those of the Boolean variables.
Types ==
    /\ chunks \in SUBSET Part
    /\ due \in [Part -> Nat]
    /\ files \in 0 .. MaxFiles /\ lost \in 0 .. files
    /\ pc \in [Caller -> {"idle", "put", "exists", "purge", "compose", "save",
                          "forget", "untrack", "post", "wipe", "sweep",
                          "unwatch", "drop", "close"}]
    /\ part \in [Caller -> Part]
    /\ missing \in SUBSET {c \in Caller : pc[c] = "exists"}
    /\ stray \in SUBSET Part
    /\ fault \in SUBSET {"untracked", "undeleted", "active", "unanswered", "restart"}

Flags == active \in BOOLEAN /\ tracked \in BOOLEAN /\ old \in BOOLEAN
         /\ overlap \in BOOLEAN

\* Every variable keeps its type; missing is empty between requests.
THEOREM TypeCorrect == Spec => []TypeOK
<1>1. Init => Types /\ Flags
  <2> SUFFICES ASSUME Init PROVE Types /\ Flags
    OBVIOUS
  <2>1. Types
    BY MultipartAssumption DEF Init, Types, Part
  <2>2. Flags
    BY Zenon DEF Init, Flags
  <2> QED
    BY <2>1, <2>2
<1>2. Types /\ [Next]_vars => Types'
  <2> SUFFICES ASSUME Types, [Next]_vars PROVE Types'
    OBVIOUS
  <2>0. 0 \in Part /\ \A p \in Part : p + 1 # Parts => p + 1 \in Part
    BY MultipartAssumption DEF Part
  <2> USE <2>0 DEF Types, Goto, Advance, Remove, Fail, redis, rows, local, history
  <2>1. ASSUME NEW c \in Caller, Continue(c) PROVE Types'
    <3>1. CASE Put(c)
      BY <3>1 DEF Put
    <3>2. CASE Exists(c)
      <4>1. PICK found \in BOOLEAN :
              LET lacks == c \in missing \/ ~found IN
              /\ missing' = IF lacks /\ part[c] + 1 < Parts
                            THEN missing \cup {c} ELSE missing \ {c}
              /\ Advance(c, IF lacks THEN "purge" ELSE "compose")
        BY <3>2 DEF Exists
      <4>2. /\ pc[c] = "exists" /\ part[c] \in Part
            /\ UNCHANGED <<chunks, due, rows, stray, fault>>
        BY <3>2 DEF Exists
      <4>3. CASE part[c] + 1 = Parts
        BY <4>1, <4>2, <4>3 DEF Part
      <4>4. CASE part[c] + 1 # Parts
        <5>1. part[c] + 1 < Parts /\ part[c] + 1 \in Part
          BY <4>2, <4>4, MultipartAssumption DEF Part
        <5> QED
          BY <4>1, <4>2, <4>4, <5>1
      <4> QED
        BY <4>3, <4>4
    <3>3. CASE Purge(c)
      BY <3>3 DEF Purge
    <3>4. CASE Compose(c)
      BY <3>4 DEF Compose
    <3>5. CASE Save(c)
      <4>1. CASE UNCHANGED rows
        BY <3>5, <4>1, MultipartAssumption DEF Save
      <4>2. CASE files' = files + 1 /\ files' \in 0 .. MaxFiles /\ lost' \in 0 .. files'
        BY <3>5, <4>2, MultipartAssumption DEF Save
      <4>3. /\ files \in Nat /\ lost \in Nat /\ lost <= files /\ MaxFiles \in Nat
            /\ \/ UNCHANGED rows
               \/ files < MaxFiles /\ files' = files + 1 /\ lost' \in {lost, lost + 1}
        BY <3>5, MultipartAssumption DEF Save
      <4>4. \/ UNCHANGED rows
            \/ files' = files + 1 /\ files' \in 0 .. MaxFiles /\ lost' \in 0 .. files'
        BY <4>3
      <4> QED
        BY <4>1, <4>2, <4>4
    <3>6. CASE Forget(c)
      BY <3>6 DEF Forget
    <3>7. CASE Untrack(c)
      BY <3>7 DEF Untrack
    <3>8. CASE Post(c)
      BY <3>8 DEF Post
    <3>9. CASE Wipe(c)
      BY <3>9 DEF Wipe, Wiping
    <3>10. CASE Unwatch(c)
      BY <3>10 DEF Unwatch, Ending
    <3>11. CASE CloseUpload(c)
      BY <3>11 DEF CloseUpload
    <3> QED
      BY <2>1, <3>1, <3>2, <3>3, <3>4, <3>5, <3>6, <3>7, <3>8, <3>9, <3>10,
         <3>11 DEF Continue
  <2>2. ASSUME NEW c \in Caller, Complete(c) \/ Cleanup(c) \/ Sweep(c) PROVE Types'
    BY <2>2 DEF Complete, Cleanup, Sweep
  <2>3. ASSUME NEW c \in Caller, NEW p \in Part, Chunk(c, p) PROVE Types'
    BY <2>3 DEF Chunk
  <2>4. ASSUME NEW p \in Part, DeleteChunk(p) PROVE Types'
    <3>1. due' \in [Part -> Nat]
      BY <2>4 DEF DeleteChunk
    <3> QED
      BY <2>4, <3>1 DEF DeleteChunk
  <2>5. CASE Expire \/ GrowOld
    BY <2>5 DEF Expire, GrowOld
  <2>6. CASE Restart
    BY <2>6 DEF Restart
  <2>7. CASE UNCHANGED vars
    BY <2>7 DEF vars
  <2> QED
    BY <2>1, <2>2, <2>3, <2>4, <2>5, <2>6, <2>7 DEF Next
<1>3. Flags /\ [Next]_vars => Flags'
  <2> SUFFICES ASSUME Flags, [Next]_vars PROVE Flags'
    OBVIOUS
  <2> USE DEF Flags, redis, history
  <2>1. ASSUME NEW c \in Caller, Continue(c) PROVE Flags'
    BY <2>1, Zenon DEF Continue, Put, Exists, Purge, Compose, Save, Forget,
       Untrack, Post, Wipe, Unwatch, CloseUpload
  <2>2. ASSUME NEW c \in Caller, Complete(c) \/ Cleanup(c) \/ Sweep(c) PROVE Flags'
    BY <2>2, Zenon DEF Complete, Cleanup, Sweep
  <2>3. ASSUME NEW c \in Caller, NEW p \in Part, Chunk(c, p) PROVE Flags'
    BY <2>3, Zenon DEF Chunk
  <2>4. ASSUME NEW p \in Part, DeleteChunk(p) PROVE Flags'
    BY <2>4, Zenon DEF DeleteChunk
  <2>5. CASE Expire \/ GrowOld \/ Restart
    BY <2>5, Zenon DEF Expire, GrowOld, Restart
  <2>6. CASE UNCHANGED vars
    BY <2>6, Zenon DEF vars
  <2> QED
    BY <2>1, <2>2, <2>3, <2>4, <2>5, <2>6 DEF Next
<1>4. Types /\ Flags => TypeOK
  BY DEF Types, Flags, TypeOK
<1> QED
  BY <1>1, <1>2, <1>3, <1>4, PTL DEF Spec

LEMMA TypesCorrect == Spec => []Types
<1>1. TypeOK => Types
  BY DEF TypeOK, Types
<1> QED
  BY TypeCorrect, <1>1, PTL
-----------------------------------------------------------------------------
(***************************************************************************)
(* What a cleanup or a sweep has passed is gone: a chunk behind it, or any *)
(* chunk when it comes to the entry, was put too late or not deleted.      *)
(***************************************************************************)
Swept(p) ==
    \A c \in Caller :
        (pc[c] \in Wiping /\ p < part[c]) \/ pc[c] \in Ending
            => p \in stray \/ Leaked

Kept(p) ==
    \/ tracked
    \/ due[p] > 0
    \/ \E c \in Caller : pc[c] = "post"
    \/ p \in stray
    \/ Leaked

Watched == \A p \in chunks : Swept(p) /\ Kept(p)

\* No chunk is forgotten, but for late puts and failures nobody looks at.
THEOREM ChunkTrackedCorrect == Spec => []ChunkTracked
<1>1. Init => Watched
  BY DEF Init, Watched
<1>2. Types /\ Watched /\ [Next]_vars => Watched'
  <2> SUFFICES ASSUME Types, Watched, [Next]_vars, NEW p \in chunks'
               PROVE  Swept(p)' /\ Kept(p)'
    BY DEF Watched
  <2>0. Leaked => Leaked'
    <3>1. fault \subseteq fault' \/ UNCHANGED fault
      BY DEF Next, Continue, Put, Exists, Purge, Compose, Save, Forget, Untrack,
         Post, Wipe, Unwatch, CloseUpload, Complete, Cleanup, Sweep, Chunk,
         DeleteChunk, Expire, GrowOld, Restart, Remove, Fail, vars, rows, history
    <3> QED
      BY <3>1 DEF Leaked
  <2>1. Leaked => Swept(p)' /\ Kept(p)'
    BY <2>0 DEF Swept, Kept
  <2> SUFFICES ASSUME ~Leaked PROVE Swept(p)' /\ Kept(p)'
    BY <2>1
  <2> USE DEF Types, Swept, Kept, Goto, redis, rows, local, history
  <2>2. ASSUME NEW c \in Caller, Put(c) PROVE Swept(p)' /\ Kept(p)'
    BY <2>2 DEF Put, Watched, TooLate, Wiping, Ending, Leaked
  <2>3. p \in chunks \/ \E c \in Caller : Put(c)
    BY DEF Next, Continue, Put, Exists, Purge, Compose, Save, Forget, Untrack,
       Post, Wipe, Unwatch, CloseUpload, Complete, Cleanup, Sweep, Chunk,
       DeleteChunk, Expire, GrowOld, Restart, Remove, Fail, vars, rows, history
  <2> SUFFICES ASSUME p \in chunks PROVE Swept(p)' /\ Kept(p)'
    BY <2>2, <2>3
  <2>4. Swept(p) /\ Kept(p)
    BY DEF Watched
  <2>5. ASSUME NEW c \in Caller, Wipe(c) PROVE Swept(p)' /\ Kept(p)'
    <3>1. CASE fault' # fault
      BY <2>5, <3>1 DEF Wipe, Remove, Fail, Leaked
    <3>2. CASE fault' = fault
      <4>1. chunks' = chunks \ {part[c]}
        BY <2>5, <3>2 DEF Wipe, Remove, Fail, Leaked
      <4>2. p # part[c] /\ p \in Part /\ part[c] \in Part
        BY <4>1
      <4>3. CASE part[c] + 1 = Parts
        BY <2>4, <2>5, <3>2, <4>1, <4>2, <4>3
           DEF Wipe, Advance, Wiping, Ending, Part, Leaked
      <4>4. CASE part[c] + 1 # Parts
        <5>1. /\ pc[c] \in Wiping /\ pc'[c] = pc[c] /\ part'[c] = part[c] + 1
              /\ \A d \in Caller : d # c => pc'[d] = pc[d] /\ part'[d] = part[d]
              /\ UNCHANGED <<tracked, due, stray, fault>>
          BY <2>5, <3>2, <4>4 DEF Wipe, Advance
        <5>2. p < part[c] + 1 => p < part[c]
          BY <4>2 DEF Part
        <5> QED
          BY <2>4, <5>1, <5>2 DEF Wiping, Ending, Leaked
      <4> QED
        BY <4>3, <4>4
    <3> QED
      BY <3>1, <3>2
  <2>6. ASSUME NEW c \in Caller, Exists(c) \/ Purge(c) PROVE Swept(p)' /\ Kept(p)'
    <3>1. /\ \A d \in Caller : d # c => pc'[d] = pc[d] /\ part'[d] = part[d]
          /\ pc[c] \notin Wiping \cup Ending \cup {"post"}
          /\ pc'[c] \notin Wiping \cup Ending \cup {"post"}
          /\ UNCHANGED <<tracked, due, stray>>
      BY <2>6 DEF Exists, Purge, Advance, Wiping, Ending
    <3> QED
      BY <2>0, <2>4, <3>1 DEF Wiping, Ending
  <2>7. ASSUME NEW c \in Caller, Compose(c) \/ Save(c) \/ Forget(c) \/ Untrack(c)
        PROVE Swept(p)' /\ Kept(p)'
    BY <2>0, <2>4, <2>7 DEF Compose, Save, Forget, Untrack, Wiping, Ending, Leaked
  <2>8. ASSUME NEW c \in Caller, Post(c) PROVE Swept(p)' /\ Kept(p)'
    <3>1. due'[p] > 0
      BY <2>8 DEF Post
    <3> QED
      BY <2>4, <2>8, <3>1 DEF Post, Wiping, Ending, Leaked
  <2>9. ASSUME NEW c \in Caller, Unwatch(c) \/ CloseUpload(c)
        PROVE Swept(p)' /\ Kept(p)'
    BY <2>4, <2>9 DEF Unwatch, CloseUpload, Wiping, Ending, Leaked
  <2>10. ASSUME NEW c \in Caller, Complete(c) \/ Cleanup(c) \/ Sweep(c)
         PROVE Swept(p)' /\ Kept(p)'
    <3>1. /\ part'[c] = 0 /\ pc'[c] \notin Ending
          /\ \A d \in Caller : d # c => pc'[d] = pc[d] /\ part'[d] = part[d]
          /\ pc[c] = "idle"
          /\ UNCHANGED <<tracked, due, stray, fault>>
      BY <2>10 DEF Complete, Cleanup, Sweep, Ending
    <3>2. ~(p < 0)
      BY DEF Part
    <3> QED
      BY <2>4, <3>1, <3>2 DEF Wiping, Ending, Leaked
  <2>11. ASSUME NEW c \in Caller, NEW q \in Part, Chunk(c, q)
         PROVE Swept(p)' /\ Kept(p)'
    BY <2>4, <2>11 DEF Chunk, Wiping, Ending, Leaked
  <2>12. ASSUME NEW q \in Part, DeleteChunk(q) PROVE Swept(p)' /\ Kept(p)'
    <3>1. CASE fault' # fault
      BY <2>12, <3>1 DEF DeleteChunk, Remove, Fail, Leaked
    <3>2. CASE fault' = fault
      <4>1. p # q
        BY <2>12, <3>2 DEF DeleteChunk, Remove, Fail, Leaked
      <4>2. due'[p] = due[p]
        BY <2>12, <4>1 DEF DeleteChunk
      <4> QED
        BY <2>4, <2>12, <3>2, <4>2 DEF DeleteChunk, Wiping, Ending, Leaked
    <3> QED
      BY <3>1, <3>2
  <2>13. CASE Expire \/ GrowOld
    BY <2>4, <2>13 DEF Expire, GrowOld, Leaked
  <2>14. CASE Restart
    BY <2>14 DEF Restart, Fail, Leaked
  <2>15. CASE UNCHANGED vars
    BY <2>4, <2>15 DEF vars, Leaked
  <2> QED
    BY <2>2, <2>5, <2>6, <2>7, <2>8, <2>9, <2>10, <2>11, <2>12, <2>13, <2>14,
       <2>15 DEF Next, Continue
<1>3. Watched => ChunkTracked
  BY DEF Watched, Kept, ChunkTracked
<1> QED
  BY TypesCorrect, <1>1, <1>2, <1>3, PTL DEF Spec
-----------------------------------------------------------------------------
(***************************************************************************)
(* Without overlap and lost keys one complete is in progress at a time;    *)
(* when the file is saved no other is before its save, and the key is gone *)
(* or about to go.                                                         *)
(***************************************************************************)
Spoilt == overlap \/ fault \cap {"active", "restart"} # {}

Single ==
    /\ \A c, d \in Caller : pc[c] \in Completing /\ pc[d] \in Completing => c = d
    /\ files <= 1 + lost
    /\ files = 1 + lost
       => /\ \A c \in Caller : pc[c] \in Completing => pc[c] = "forget"
          /\ active => \E c \in Caller : pc[c] = "forget"

\* One upload becomes one file, unless completes overlap or the key stays.
THEOREM OneFileCorrect == Spec => []OneFile
<1>1. Init => (Spoilt \/ Single)
  BY DEF Init, Single, Completing
<1>2. Types /\ (Spoilt \/ Single) /\ [Next]_vars => (Spoilt \/ Single)'
  <2> SUFFICES ASSUME Types, Spoilt \/ Single, [Next]_vars, ~Spoilt'
               PROVE  Single'
    OBVIOUS
  <2>0. Single
    <3>1. fault \subseteq fault'
      BY DEF Next, Continue, Put, Exists, Purge, Compose, Save, Forget, Untrack,
         Post, Wipe, Unwatch, CloseUpload, Complete, Cleanup, Sweep, Chunk,
         DeleteChunk, Expire, GrowOld, Restart, Remove, Fail, vars, rows, history
    <3>2. overlap => overlap'
      <4>1. CASE \E c \in Caller : Complete(c)
        BY <4>1, Zenon DEF Complete
      <4>2. CASE ~\E c \in Caller : Complete(c)
        <5>1. overlap' = overlap
          BY <4>2, Zenon DEF Next, Continue, Put, Exists, Purge, Compose, Save,
             Forget, Untrack, Post, Wipe, Unwatch, CloseUpload, Cleanup, Sweep,
             Chunk, DeleteChunk, Expire, GrowOld, Restart, vars, rows, history
        <5> QED
          BY <5>1
      <4> QED
        BY <4>1, <4>2
    <3> QED
      BY <3>1, <3>2 DEF Spoilt
  <2> USE DEF Types, Single, Completing, Goto, redis, rows, local
  <2>1. ASSUME NEW c \in Caller, Complete(c) PROVE Single'
    <3>1. ~\E d \in Caller : pc[d] \in {"exists", "compose", "save", "forget"}
      BY <2>1 DEF Complete, Spoilt
    <3>2. files # 1 + lost
      BY <2>0, <2>1, <3>1 DEF Complete
    <3> QED
      BY <2>0, <2>1, <3>1, <3>2 DEF Complete
  <2>2. ASSUME NEW c \in Caller, Exists(c) PROVE Single'
    <3>1. /\ pc[c] = "exists" /\ pc'[c] \in {"exists", "compose", "purge"}
          /\ \A d \in Caller : d # c => pc'[d] = pc[d]
          /\ UNCHANGED <<files, lost, active>>
      BY <2>2 DEF Exists, Advance
    <3> QED
      BY <2>0, <3>1
  <2>3. ASSUME NEW c \in Caller, Purge(c) \/ Wipe(c) PROVE Single'
    <3>1. /\ pc[c] \in {"purge", "wipe", "sweep"}
          /\ pc'[c] \in {"purge", "wipe", "sweep", "idle", "unwatch", "drop"}
          /\ \A d \in Caller : d # c => pc'[d] = pc[d]
          /\ UNCHANGED <<files, lost, active>>
      BY <2>3 DEF Purge, Wipe, Wiping, Advance
    <3> QED
      BY <2>0, <3>1
  <2>4. ASSUME NEW c \in Caller, Compose(c) PROVE Single'
    BY <2>0, <2>4 DEF Compose
  <2>5. ASSUME NEW c \in Caller, Save(c) PROVE Single'
    <3>1. /\ pc[c] = "save" /\ UNCHANGED active
          /\ \A d \in Caller : d # c => pc'[d] = pc[d]
          /\ files <= lost /\ files \in Nat /\ lost \in Nat
      BY <2>0, <2>5, MultipartAssumption DEF Save
    <3>2. CASE UNCHANGED rows /\ pc'[c] = "idle"
      BY <2>0, <3>1, <3>2
    <3>3. CASE files' = files + 1 /\ UNCHANGED lost /\ pc'[c] = "forget"
      BY <2>0, <3>1, <3>3
    <3>4. CASE files' = files + 1 /\ lost' = lost + 1 /\ pc'[c] = "idle"
      BY <2>0, <3>1, <3>4
    <3> QED
      BY <2>5, <3>2, <3>3, <3>4 DEF Save
  <2>6. ASSUME NEW c \in Caller, Forget(c) PROVE Single'
    <3>1. ~active'
      BY <2>6 DEF Forget, Fail, Spoilt
    <3>2. /\ pc[c] = "forget" /\ pc'[c] = "untrack"
          /\ \A d \in Caller : d # c => pc'[d] = pc[d]
          /\ UNCHANGED <<files, lost>>
      BY <2>6 DEF Forget
    <3> QED
      BY <2>0, <3>1, <3>2
  <2>7. ASSUME NEW c \in Caller,
               Put(c) \/ Untrack(c) \/ Post(c) \/ Unwatch(c) \/ CloseUpload(c)
               \/ Cleanup(c) \/ Sweep(c) \/ \E p \in Part : Chunk(c, p)
        PROVE Single'
    <3>1. /\ pc[c] \notin Completing /\ pc'[c] \notin Completing
          /\ \A d \in Caller : d # c => pc'[d] = pc[d]
          /\ UNCHANGED <<files, lost>>
      BY <2>7 DEF Put, Untrack, Post, Unwatch, CloseUpload, Cleanup, Sweep, Chunk,
         Ending
    <3>2. active' => active
      BY <2>7, Zenon DEF Put, Untrack, Post, Unwatch, CloseUpload, Cleanup, Sweep,
         Chunk, redis
    <3> QED
      BY <2>0, <3>1, <3>2
  <2>8. ASSUME NEW p \in Part, DeleteChunk(p) PROVE Single'
    BY <2>0, <2>8 DEF DeleteChunk
  <2>9. CASE Expire \/ GrowOld
    BY <2>0, <2>9 DEF Expire, GrowOld
  <2>10. CASE Restart
    BY <2>10 DEF Restart, Fail, Spoilt
  <2>11. CASE UNCHANGED vars
    BY <2>0, <2>11 DEF vars
  <2> QED
    BY <2>1, <2>2, <2>3, <2>4, <2>5, <2>6, <2>7, <2>8, <2>9, <2>10, <2>11
       DEF Next, Continue
<1>3. Types /\ (Spoilt \/ Single) => OneFile
  BY DEF Types, Single, Spoilt, OneFile
<1> QED
  BY TypesCorrect, <1>1, <1>2, <1>3, PTL DEF Spec
-----------------------------------------------------------------------------
(***************************************************************************)
(* While the key is there, each request that saved a file is about to      *)
(* delete it; when it is gone, no complete comes to those in progress.     *)
(***************************************************************************)
Botched == fault \cap {"active", "restart"} # {}

Closing == {c \in Caller : pc[c] = "forget"}
Saving  == {c \in Caller : pc[c] \in {"exists", "compose", "save"}}

Shares == IF active THEN files <= lost + Cardinality(Closing)
                    ELSE files + Cardinality(Saving) <= lost + Cardinality(Caller)

LEMMA CallersFinite ==
    ASSUME NEW S \in SUBSET Caller
    PROVE  /\ IsFiniteSet(S) /\ Cardinality(S) \in Nat
           /\ Cardinality(S) <= Cardinality(Caller) /\ Cardinality(Caller) \in Nat
  BY FS_Subset, FS_CardinalityType, MultipartAssumption

\* Those who closed the upload and those who still save are different requests.
LEMMA SharesApart ==
    ASSUME NEW C \in SUBSET Caller, NEW S \in SUBSET Caller, C \cap S = {}
    PROVE  Cardinality(C) + Cardinality(S) <= Cardinality(Caller)
<1>1. Cardinality(C \cup S)
        = Cardinality(C) + Cardinality(S) - Cardinality(C \cap S)
  BY CallersFinite, FS_Union, Zenon
<1>2. Cardinality(C \cap S) = 0
  BY FS_EmptySet
<1>3. Cardinality(C \cup S) <= Cardinality(Caller)
  BY CallersFinite
<1> QED
  BY <1>1, <1>2, <1>3, CallersFinite

\* A step that saves no file keeps the shares if no request is late.
LEMMA SharesKept ==
    ASSUME Types, Types', Shares, UNCHANGED rows, active' => active,
           active' => Closing \subseteq Closing', ~active => Saving' \subseteq Saving,
           active /\ ~active' => Saving' \cap Closing = {}
    PROVE  Shares'
<1>1. Closing \in SUBSET Caller /\ Saving \in SUBSET Caller
      /\ Closing' \in SUBSET Caller /\ Saving' \in SUBSET Caller
  BY DEF Closing, Saving
<1>2. files \in Nat /\ lost \in Nat /\ files' = files /\ lost' = lost
  BY MultipartAssumption DEF Types, rows
<1>3. CASE active'
  <2>1. Cardinality(Closing) <= Cardinality(Closing')
    BY <1>1, <1>3, CallersFinite, FS_Subset
  <2>2. files <= lost + Cardinality(Closing)
    BY <1>3 DEF Shares
  <2>3. files' <= lost' + Cardinality(Closing')
    BY <1>1, <1>2, <2>1, <2>2, CallersFinite
  <2> QED
    BY <1>3, <2>3 DEF Shares
<1>4. CASE active /\ ~active'
  <2>1. Cardinality(Closing) + Cardinality(Saving') <= Cardinality(Caller)
    BY <1>1, <1>4, SharesApart
  <2>2. files <= lost + Cardinality(Closing)
    BY <1>4 DEF Shares
  <2>3. files' + Cardinality(Saving') <= lost' + Cardinality(Caller)
    BY <1>1, <1>2, <2>1, <2>2, CallersFinite
  <2> QED
    BY <1>4, <2>3 DEF Shares
<1>5. CASE ~active /\ ~active'
  <2>1. Cardinality(Saving') <= Cardinality(Saving)
    BY <1>1, <1>5, CallersFinite, FS_Subset
  <2>2. files + Cardinality(Saving) <= lost + Cardinality(Caller)
    BY <1>5 DEF Shares
  <2>3. files' + Cardinality(Saving') <= lost' + Cardinality(Caller)
    BY <1>1, <1>2, <2>1, <2>2, CallersFinite
  <2> QED
    BY <1>5, <2>3 DEF Shares
<1> QED
  BY <1>3, <1>4, <1>5

\* The file that a request saves is its share.
LEMMA SharesSave ==
    ASSUME Types, Types', Shares, NEW c \in Caller, Save(c),
           files' = files + 1, UNCHANGED lost, pc'[c] = "forget"
    PROVE  Shares'
<1>1. /\ pc[c] = "save" /\ pc'[c] = "forget" /\ UNCHANGED <<active, lost>>
      /\ \A d \in Caller : d # c => pc'[d] = pc[d]
      /\ files \in Nat /\ lost \in Nat
  BY MultipartAssumption DEF Save, Goto, redis, Types
<1>2. Closing' = Closing \cup {c} /\ c \notin Closing
  BY <1>1 DEF Closing
<1>3. Saving' = Saving \ {c} /\ c \in Saving
  BY <1>1 DEF Saving
<1>4. Closing \in SUBSET Caller /\ Saving \in SUBSET Caller
  BY DEF Closing, Saving
<1>5. Cardinality(Closing') = Cardinality(Closing) + 1
  BY <1>2, <1>4, CallersFinite, FS_AddElement
<1>6. Cardinality(Saving') = Cardinality(Saving) - 1
  BY <1>3, <1>4, CallersFinite, FS_RemoveElement
<1>7. CASE active
  <2>1. files' <= lost' + Cardinality(Closing')
    BY <1>1, <1>4, <1>5, <1>7, CallersFinite DEF Shares
  <2> QED
    BY <1>1, <1>7, <2>1 DEF Shares
<1>8. CASE ~active
  <2>1. files' + Cardinality(Saving') <= lost' + Cardinality(Caller)
    BY <1>1, <1>4, <1>6, <1>8, CallersFinite DEF Shares
  <2> QED
    BY <1>1, <1>8, <2>1 DEF Shares
<1> QED
  BY <1>7, <1>8

\* The file whose save reports a failure makes room for itself.
LEMMA SharesLost ==
    ASSUME Types, Types', Shares, NEW c \in Caller, Save(c),
           files' = files + 1, lost' = lost + 1, pc'[c] = "idle"
    PROVE  Shares'
<1>1. /\ pc[c] = "save" /\ pc'[c] = "idle" /\ UNCHANGED active
      /\ \A d \in Caller : d # c => pc'[d] = pc[d]
      /\ files \in Nat /\ lost \in Nat
  BY MultipartAssumption DEF Save, Goto, redis, Types
<1>2. Closing' = Closing /\ Saving' \subseteq Saving
  BY <1>1 DEF Closing, Saving
<1>3. Closing \in SUBSET Caller /\ Saving \in SUBSET Caller
      /\ Saving' \in SUBSET Caller
  BY DEF Closing, Saving
<1>4. Cardinality(Saving') <= Cardinality(Saving)
  BY <1>2, <1>3, CallersFinite, FS_Subset
<1>5. CASE active
  <2>1. files' <= lost' + Cardinality(Closing')
    BY <1>1, <1>2, <1>3, <1>5, CallersFinite DEF Shares
  <2> QED
    BY <1>1, <1>5, <2>1 DEF Shares
<1>6. CASE ~active
  <2>1. files' + Cardinality(Saving') <= lost' + Cardinality(Caller)
    BY <1>1, <1>3, <1>4, <1>6, CallersFinite DEF Shares
  <2> QED
    BY <1>1, <1>6, <2>1 DEF Shares
<1> QED
  BY <1>5, <1>6

\* However completes overlap, an upload becomes at most a file for each request
\* that can be in progress and one for each save that wrongly reported a failure,
\* unless its key stays.
THEOREM FilesBoundedCorrect == Spec => []FilesBounded
<1>1. Init => Shares
  <2> SUFFICES ASSUME Init PROVE Shares
    OBVIOUS
  <2>1. active /\ files = 0 /\ lost = 0 /\ Cardinality(Closing) \in Nat
    BY CallersFinite DEF Init, Closing
  <2> QED
    BY <2>1 DEF Shares
<1>2. Types /\ Types' /\ (Botched \/ Shares) /\ [Next]_vars => (Botched \/ Shares)'
  <2> SUFFICES ASSUME Types, Types', Botched \/ Shares, [Next]_vars, ~Botched'
               PROVE  Shares'
    OBVIOUS
  <2>0. Shares
    <3>1. fault \subseteq fault'
      BY DEF Next, Continue, Put, Exists, Purge, Compose, Save, Forget, Untrack,
         Post, Wipe, Unwatch, CloseUpload, Complete, Cleanup, Sweep, Chunk,
         DeleteChunk, Expire, GrowOld, Restart, Remove, Fail, vars, rows, history
    <3> QED
      BY <3>1 DEF Botched
  <2>a. active' => active
    <3> USE DEF redis
    <3>1. ASSUME NEW c \in Caller, Continue(c) PROVE active' => active
      BY <3>1, Zenon DEF Continue, Put, Exists, Purge, Compose, Save, Forget,
         Untrack, Post, Wipe, Unwatch, CloseUpload
    <3>2. ASSUME NEW c \in Caller,
                 Complete(c) \/ Cleanup(c) \/ Sweep(c) \/ \E p \in Part : Chunk(c, p)
          PROVE  active' => active
      BY <3>2, Zenon DEF Complete, Cleanup, Sweep, Chunk
    <3>3. CASE Expire \/ GrowOld \/ Restart \/ \E p \in Part : DeleteChunk(p)
      BY <3>3, Zenon DEF Expire, GrowOld, Restart, DeleteChunk
    <3>4. CASE UNCHANGED vars
      BY <3>4, Zenon DEF vars
    <3> QED
      BY <3>1, <3>2, <3>3, <3>4, Zenon DEF Next
  <2> USE DEF Types, Closing, Saving, Goto
  <2>1. ASSUME NEW c \in Caller, Save(c) PROVE Shares'
    <3>1. CASE files' = files + 1 /\ UNCHANGED lost /\ pc'[c] = "forget"
      BY <2>0, <2>1, <3>1, SharesSave
    <3>3. CASE files' = files + 1 /\ lost' = lost + 1 /\ pc'[c] = "idle"
      BY <2>0, <2>1, <3>3, SharesLost
    <3>2. CASE UNCHANGED rows
      <4>1. /\ pc[c] = "save" /\ pc'[c] \in {"forget", "idle"} /\ UNCHANGED active
            /\ \A d \in Caller : d # c => pc'[d] = pc[d]
        BY <2>1 DEF Save, redis
      <4>2. Closing \subseteq Closing' /\ Saving' \subseteq Saving
        BY <4>1
      <4> QED
        BY <2>0, <3>2, <4>1, <4>2, SharesKept
    <3> QED
      BY <2>1, <3>1, <3>2, <3>3 DEF Save
  <2>2. ASSUME NEW c \in Caller, Forget(c) PROVE Shares'
    <3>1. ~active' /\ UNCHANGED rows
      BY <2>2 DEF Forget, Fail, Botched
    <3>2. pc[c] = "forget" /\ pc'[c] = "untrack" /\ \A d \in Caller : d # c => pc'[d] = pc[d]
      BY <2>2 DEF Forget
    <3>3. Saving' \subseteq Saving /\ Saving' \cap Closing = {}
      BY <3>2
    <3> QED
      BY <2>0, <3>1, <3>3, SharesKept
  <2>3. ASSUME NEW c \in Caller, Complete(c) PROVE Shares'
    <3>1. active /\ active' /\ UNCHANGED rows
      BY <2>3, Zenon DEF Complete, redis
    <3>2. pc[c] = "idle" /\ \A d \in Caller : d # c => pc'[d] = pc[d]
      BY <2>3 DEF Complete
    <3>3. Closing \subseteq Closing'
      BY <3>2
    <3> QED
      BY <2>0, <3>1, <3>3, SharesKept
  <2>4. ASSUME NEW c \in Caller,
               pc[c] # "forget",
               pc[c] \in {"exists", "compose", "save"} \/ pc'[c] \notin {"exists", "compose", "save"},
               \A d \in Caller : d # c => pc'[d] = pc[d], UNCHANGED rows
        PROVE  Shares'
    <3>1. Closing \subseteq Closing' /\ Saving' \subseteq Saving
      BY <2>4
    <3>2. Saving \cap Closing = {}
      OBVIOUS
    <3> QED
      BY <2>0, <2>4, <2>a, <3>1, <3>2, SharesKept
  <2>5. ASSUME NEW c \in Caller, Exists(c) \/ Compose(c) PROVE Shares'
    <3>1. /\ pc[c] \in {"exists", "compose"}
          /\ \A d \in Caller : d # c => pc'[d] = pc[d]
          /\ UNCHANGED rows
      BY <2>5 DEF Exists, Compose, Advance
    <3> QED
      BY <2>4, <3>1
  <2>6. ASSUME NEW c \in Caller,
               Put(c) \/ Purge(c) \/ Untrack(c) \/ Post(c) \/ Wipe(c) \/ Unwatch(c)
               \/ CloseUpload(c) \/ Cleanup(c) \/ Sweep(c) \/ \E p \in Part : Chunk(c, p)
        PROVE Shares'
    <3>1. /\ pc[c] \notin {"exists", "compose", "save", "forget"}
          /\ pc'[c] \notin {"exists", "compose", "save", "forget"}
          /\ \A d \in Caller : d # c => pc'[d] = pc[d]
          /\ UNCHANGED rows
      BY <2>6 DEF Put, Purge, Untrack, Post, Wipe, Unwatch, CloseUpload, Cleanup,
         Sweep, Chunk, Advance, Wiping, Ending
    <3> QED
      BY <2>4, <3>1
  <2>7. CASE Expire \/ GrowOld \/ (\E p \in Part : DeleteChunk(p)) \/ UNCHANGED vars
    <3>1. UNCHANGED <<pc, rows>>
      BY <2>7 DEF Expire, GrowOld, DeleteChunk, local, vars, rows
    <3>2. Closing' = Closing /\ Saving' = Saving /\ Saving \cap Closing = {}
      BY <3>1
    <3> QED
      BY <2>0, <2>a, <3>1, <3>2, SharesKept
  <2>8. CASE Restart
    BY <2>8 DEF Restart, Fail, Botched
  <2> QED
    BY <2>1, <2>2, <2>3, <2>5, <2>6, <2>7, <2>8 DEF Next, Continue
<1>3. Types /\ (Botched \/ Shares) => FilesBounded
  <2> SUFFICES ASSUME Types, Shares, ~Botched PROVE files <= Cardinality(Caller) + lost
    BY DEF Botched, FilesBounded
  <2>1. Closing \in SUBSET Caller /\ Saving \in SUBSET Caller /\ files \in Nat
      /\ lost \in Nat
    BY MultipartAssumption DEF Closing, Saving, Types
  <2> QED
    BY <2>1, CallersFinite DEF Shares
<1> QED
  BY TypesCorrect, <1>1, <1>2, <1>3, PTL DEF Spec
=============================================================================
