--------------------------- MODULE MetaCacheProofs ---------------------------
(***************************************************************************)
(* For every set of callers: the types, that no cache entry is without an  *)
(* expiry for good, that the cache is coherent unless a purge missed, and  *)
(* that then a get only answers what MySQL had.                            *)
(***************************************************************************)
EXTENDS MetaAnswers, TLAPS

USE DEF history

\* Steps that touch neither the row nor the cache nor a writer of it.
Quiet(c) == Lookup(c) \/ TryLock(c) \/ Unlock(c) \/ Decide(c) \/ BatchSelect(c)

LEMMA NextSplit ==
  ASSUME Next
  PROVE  \/ \E c \in Caller :
              \/ Quiet(c) \/ Query(c) \/ WriteField(c) \/ WriteTtl(c) \/ WriteFails(c)
              \/ Update(c) \/ Erase(c) \/ BatchErase(c) \/ Purge(c)
         \/ Save \/ Expire \/ ExpireLock
BY DEF Next, Proceed, Quiet

LEMMA MetaTypes ==
  /\ \A r \in Row : MetaOf(r) \in [found : BOOLEAN, owned : BOOLEAN, pub : BOOLEAN]
  /\ \A h : Parse(h) \in [found : BOOLEAN, owned : BOOLEAN, pub : BOOLEAN]
  /\ Missing \in [found : BOOLEAN, owned : BOOLEAN, pub : BOOLEAN]
BY DEF MetaOf, Parse, Missing

\* Leaving get keeps the types, with any metadata to return.
LEMMA LeaveTypes ==
  ASSUME TypeOK, NEW c \in Caller,
         NEW m \in [found : BOOLEAN, owned : BOOLEAN, pub : BOOLEAN], Leave(c, m),
         row' \in Row, hash' \in [Field -> {"unset", "set", "0", "1"}],
         ttl' \in BOOLEAN, broken' \in BOOLEAN, UNCHANGED <<lock, hasLock, missed>>
  PROVE  TypeOK'
BY DEF Leave, TypeOK, At, Row, FieldsOf, Field

LEMMA StaleFlag ==
  /\ StaleWriter \in BOOLEAN
  /\ \A b \in BOOLEAN : (b \/ hash # Empty \/ StaleWriter) \in BOOLEAN
  /\ \A b \in BOOLEAN : (b /\ StaleWriter) \in BOOLEAN
BY DEF StaleWriter, WriterOtherThan

LEMMA LostFlag ==
  ASSUME NEW r \in Row, WriteLost(r), row \in Row PROVE missed' \in BOOLEAN
BY Zenon DEF WriteLost

\* The fields of one row make its metadata again.
LEMMA RoundTrip ==
  ASSUME NEW r \in Row, NEW h,
         \A f \in Field : h[f] = IF f \in FieldsOf(r) THEN ValueOf(r, f) ELSE "unset"
  PROVE  Parse(h) = MetaOf(r)
BY DEF Row, Field, FieldsOf, ValueOf, Parse, MetaOf, Missing

\* metaToHash and hashToMeta: from whichever mixture of writers, half-written
\* or not, a hash shows no file unless one of the rows was one, and nothing
\* public unless one of them was; and a whole hash shows its row.
THEOREM MixedHash ==
  ASSUME NEW R \in SUBSET Row, NEW h,
         \A f \in Field : \/ h[f] = "unset"
                         \/ \E r \in R : f \in FieldsOf(r) /\ h[f] = ValueOf(r, f)
  PROVE  /\ Parse(h).found => R \ {"none"} # {}
         /\ Parse(h).pub => "public" \in R
         /\ \A r \in R : (\A f \in Field : h[f] = IF f \in FieldsOf(r) THEN ValueOf(r, f)
                                                             ELSE "unset")
               => Parse(h) = MetaOf(r)
<1>1. Parse(h).found => R \ {"none"} # {}
  <2> SUFFICES ASSUME h["file_id"] # "unset" PROVE R \ {"none"} # {}
    BY DEF Parse, Missing
  <2>1. PICK r \in R : "file_id" \in FieldsOf(r)
    BY DEF Field
  <2>2. r # "none"
    BY <2>1 DEF FieldsOf
  <2> QED
    BY <2>2
<1>2. Parse(h).pub => "public" \in R
  <2> SUFFICES ASSUME h["is_public"] = "1" PROVE "public" \in R
    BY DEF Parse, Missing
  <2>1. PICK r \in R : "is_public" \in FieldsOf(r) /\ ValueOf(r, "is_public") = "1"
    BY DEF Field
  <2> QED
    BY <2>1 DEF ValueOf
<1>3. ASSUME NEW r \in R,
             \A f \in Field : h[f] = IF f \in FieldsOf(r) THEN ValueOf(r, f) ELSE "unset"
      PROVE  Parse(h) = MetaOf(r)
  BY <1>3, RoundTrip
<1> QED
  BY <1>1, <1>2, <1>3

\* Every variable has its type, and a caller only ever writes fields of the
\* row it read.
THEOREM TypeCorrect == Spec => []TypeOK
<1>1. Init => TypeOK
  <2> SUFFICES ASSUME Init PROVE TypeOK
    OBVIOUS
  <2>1. /\ ttl \in BOOLEAN /\ lock \in BOOLEAN /\ missed \in BOOLEAN /\ broken \in BOOLEAN
        /\ hasLock \in [Caller -> BOOLEAN]
    BY DEF Init
  <2>2. meta \in [Caller -> [found : BOOLEAN, owned : BOOLEAN, pub : BOOLEAN]]
    BY MetaTypes DEF Init
  <2>3. hash \in [Field -> {"unset"}]
    BY DEF Init, Empty
  <2> QED
    BY <2>1, <2>2, <2>3 DEF Init, TypeOK, Row
<1>2. TypeOK /\ [Next]_vars => TypeOK'
  <2> SUFFICES ASSUME TypeOK, [Next]_vars PROVE TypeOK'
    OBVIOUS
  <2>1. ASSUME NEW c \in Caller, Quiet(c) PROVE TypeOK'
    <3> USE MetaTypes DEF TypeOK, At, cache, local
    <3>1. CASE Lookup(c)
      <4>1. meta' = meta \/ meta' = [meta EXCEPT ![c] = Parse(hash)]
        BY <3>1 DEF Lookup
      <4>2. meta' \in [Caller -> [found : BOOLEAN, owned : BOOLEAN, pub : BOOLEAN]]
        BY <4>1
      <4>3. pc' \in {[pc EXCEPT ![c] = "got"], [pc EXCEPT ![c] = "lock"],
                    [pc EXCEPT ![c] = "query"]}
        BY <3>1 DEF Lookup
      <4> QED
        BY <3>1, <4>2, <4>3 DEF Lookup
    <3>2. CASE TryLock(c)
      BY <3>2 DEF TryLock
    <3>3. CASE Unlock(c)
      BY <3>3 DEF Unlock
    <3>4. CASE Decide(c)
      <4>1. meta' \in [Caller -> [found : BOOLEAN, owned : BOOLEAN, pub : BOOLEAN]]
        BY <3>4 DEF Decide, Finish, Forget
      <4>2. pc' \in {[pc EXCEPT ![c] = "idle"], [pc EXCEPT ![c] = "update"],
                    [pc EXCEPT ![c] = "erase"]}
        BY <3>4 DEF Decide, Finish, Forget
      <4> QED
        BY <3>4, <4>1, <4>2 DEF Decide
    <3>5. CASE BatchSelect(c)
      BY <3>5 DEF BatchSelect
    <3> QED
      BY <2>1, <3>1, <3>2, <3>3, <3>4, <3>5 DEF Quiet
  <2>2. ASSUME NEW c \in Caller, Query(c) PROVE TypeOK'
    <3>1. CASE Leave(c, Missing)
      BY <2>2, <3>1, MetaTypes, LeaveTypes DEF Query, TypeOK, cache
    <3>2. CASE ~Leave(c, Missing)
      <4>0. PICK r \in {row, "none"} :
              /\ snap' = [snap EXCEPT ![c] = r]
              /\ todo' = [todo EXCEPT ![c] = FieldsOf(r)]
              /\ pc' = [pc EXCEPT ![c] = "write"]
        BY <2>2, <3>2 DEF Query, At
      <4>1. FieldsOf(r) \in SUBSET Field /\ r \in Row
        BY DEF FieldsOf, Field, TypeOK, Row
      <4>2. UNCHANGED <<row, hash, ttl, lock, meta, hasLock, missed, broken>>
        BY <2>2, <3>2 DEF Query, cache
      <4>3. \A d \in Caller : /\ pc'[d] # "write" => todo'[d] = {}
                              /\ todo'[d] \subseteq FieldsOf(snap'[d])
        BY <4>0 DEF TypeOK
      <4> QED
        BY <4>0, <4>1, <4>2, <4>3 DEF TypeOK
    <3> QED
      BY <3>1, <3>2
  <2>3. ASSUME NEW c \in Caller, WriteField(c) PROVE TypeOK'
    <3>1. \A f \in Field : ValueOf(snap[c], f) \in {"unset", "set", "0", "1"}
      BY DEF ValueOf
    <3> QED
      BY <2>3, <3>1 DEF WriteField, TypeOK
  <2>4. ASSUME NEW c \in Caller, WriteTtl(c) \/ WriteFails(c) PROVE TypeOK'
    <3>1. MetaOf(snap[c]) \in [found : BOOLEAN, owned : BOOLEAN, pub : BOOLEAN]
      BY MetaTypes DEF TypeOK
    <3>2. ttl' \in BOOLEAN /\ broken' \in BOOLEAN
      <4>1. (hash # Empty) \in BOOLEAN /\ (hash # Empty /\ ~ttl) \in BOOLEAN
        OBVIOUS
      <4> QED
        BY <2>4, <4>1 DEF WriteTtl, WriteFails, TypeOK, cache
    <3>3. UNCHANGED <<row, hash, lock, hasLock, missed>> /\ Leave(c, MetaOf(snap[c]))
      BY <2>4 DEF WriteTtl, WriteFails, cache
    <3> QED
      BY <3>1, <3>2, <3>3, LeaveTypes DEF TypeOK
  <2>5. ASSUME NEW c \in Caller, Update(c) \/ Erase(c) \/ BatchErase(c) \/ Purge(c)
        PROVE  TypeOK'
    <3> USE MetaTypes DEF TypeOK, At, cache, local, Finish, Forget
    <3>0. ASSUME NEW r \in Row, WriteLost(r) PROVE row' \in Row /\ missed' \in BOOLEAN
      BY <3>0, LostFlag DEF WriteLost
    <3>1. CASE Update(c)
      <4>1. meta' \in [Caller -> [found : BOOLEAN, owned : BOOLEAN, pub : BOOLEAN]]
        BY <3>1 DEF Update
      <4>2. pc' \in {[pc EXCEPT ![c] = "idle"], [pc EXCEPT ![c] = "purge"]}
        BY <3>1 DEF Update
      <4>3. Toggled(c) \in Row
        BY DEF Toggled, Row
      <4>4. row' \in Row /\ missed' \in BOOLEAN
        BY <3>0, <3>1, <4>3 DEF Update
      <4> QED
        BY <3>1, <4>1, <4>2, <4>4 DEF Update
    <3>2. CASE Erase(c)
      <4>1. meta' \in [Caller -> [found : BOOLEAN, owned : BOOLEAN, pub : BOOLEAN]]
        BY <3>2 DEF Erase
      <4>2. pc' \in {[pc EXCEPT ![c] = "idle"], [pc EXCEPT ![c] = "purge"]}
        BY <3>2 DEF Erase
      <4>3. row' \in Row /\ missed' \in BOOLEAN
        BY <3>0, <3>2 DEF Erase, Row
      <4> QED
        BY <3>2, <4>1, <4>2, <4>3 DEF Erase
    <3>3. CASE BatchErase(c)
      <4>1. row' \in Row /\ missed' \in BOOLEAN
        BY <3>0, <3>3 DEF BatchErase, Row
      <4> QED
        BY <3>3, <4>1 DEF BatchErase
    <3>4. CASE Purge(c)
      <4>1. /\ missed' \in BOOLEAN /\ broken' \in BOOLEAN
            /\ Empty \in [Field -> {"unset"}]
        BY <3>4, StaleFlag DEF Purge, Empty
      <4> QED
        BY <3>4, <4>1 DEF Purge
    <3> QED
      BY <2>5, <3>1, <3>2, <3>3, <3>4
  <2>6. CASE Save \/ Expire \/ ExpireLock \/ UNCHANGED vars
    <3>1. (missed /\ StaleWriter) \in BOOLEAN
      BY StaleFlag
    <3> QED
      BY <2>6, <3>1 DEF Save, Expire, ExpireLock, vars, TypeOK, cache, local, Empty, Row
  <2> QED
    BY <2>1, <2>2, <2>3, <2>4, <2>5, <2>6, NextSplit
<1> QED
  BY <1>1, <1>2, PTL DEF Spec
-----------------------------------------------------------------------------
\* Callers in the middle of hsetex, EXPIRE still to come.
Writing == {d \in Caller : pc[d] = "write" /\ todo[d] # FieldsOf(snap[d])}

\* A cached hash has an expiry, or the caller that is writing it is about to
\* set one, unless a Redis connection broke in the pipeline that wrote it: what
\* else is wrong with an entry ends within META_CACHE_TTL.
THEOREM EntryExpiresCorrect == Spec => []EntryExpires
<1> USE DEF Writing
<1>1. Init => EntryExpires
  BY DEF Init, EntryExpires
<1>2. TypeOK /\ EntryExpires /\ [Next]_vars => EntryExpires'
  <2> SUFFICES ASSUME TypeOK, EntryExpires, [Next]_vars PROVE EntryExpires'
    OBVIOUS
  <2>1. ASSUME UNCHANGED cache, broken => broken', Writing \subseteq Writing' PROVE EntryExpires'
    BY <2>1 DEF EntryExpires, cache
  <2>2. ASSUME NEW c \in Caller, Quiet(c) PROVE EntryExpires'
    <3>1. UNCHANGED <<cache, snap, todo, broken>>
      BY <2>2 DEF Quiet, Lookup, TryLock, Unlock, Decide, BatchSelect, local
    <3>2. pc[c] # "write" /\ \A d \in Caller \ {c} : pc'[d] = pc[d]
      BY <2>2 DEF Quiet, Lookup, TryLock, Unlock, Decide, BatchSelect, Finish, Forget, At, TypeOK
    <3> QED
      BY <2>1, <3>1, <3>2
  <2>3. ASSUME NEW c \in Caller, Query(c) PROVE EntryExpires'
    <3>1. UNCHANGED <<cache, broken>> /\ pc[c] # "write"
      BY <2>3 DEF Query
    <3>2. \A d \in Caller \ {c} : pc'[d] = pc[d] /\ todo'[d] = todo[d] /\ snap'[d] = snap[d]
      BY <2>3 DEF Query, Leave, At, TypeOK
    <3> QED
      BY <2>1, <3>1, <3>2
  <2>4. ASSUME NEW c \in Caller, WriteField(c) PROVE EntryExpires'
    BY <2>4 DEF WriteField, EntryExpires, TypeOK
  <2>5. ASSUME NEW c \in Caller, WriteTtl(c) PROVE EntryExpires'
    BY <2>5 DEF WriteTtl, EntryExpires
  <2>6. ASSUME NEW c \in Caller, WriteFails(c) PROVE EntryExpires'
    <3>1. CASE todo[c] # FieldsOf(snap[c])
      BY <2>6, <3>1 DEF WriteFails, EntryExpires, cache
    <3>2. CASE UNCHANGED <<cache, broken>> /\ c \notin Writing
     <4>1. \A d \in Caller \ {c} : pc'[d] = pc[d] /\ todo'[d] = todo[d] /\ snap'[d] = snap[d]
      BY <2>6 DEF WriteFails, Leave, At, TypeOK
     <4> QED
      BY <2>1, <3>2, <4>1
    <3> QED
      BY <2>6, <3>1, <3>2 DEF WriteFails
  <2>7. ASSUME NEW c \in Caller, Update(c) \/ Erase(c) \/ BatchErase(c) PROVE EntryExpires'
    <3>1. UNCHANGED <<cache, snap, todo, broken>>
      BY <2>7 DEF Update, Erase, BatchErase, local
    <3>2. pc[c] # "write" /\ \A d \in Caller \ {c} : pc'[d] = pc[d]
      BY <2>7 DEF Update, Erase, BatchErase, Finish, Forget, At, TypeOK
    <3> QED
      BY <2>1, <3>1, <3>2
  <2>8. ASSUME NEW c \in Caller, Purge(c) PROVE EntryExpires'
    <3>1. CASE hash' = Empty
      BY <3>1 DEF EntryExpires, Empty
    <3>2. CASE UNCHANGED <<cache, broken>>
      <4>1. pc[c] # "write" /\ \A d \in Caller \ {c} : pc'[d] = pc[d]
        BY <2>8 DEF Purge, Finish, Forget, At, TypeOK
      <4> QED
        BY <2>1, <2>8, <3>2, <4>1 DEF Purge
    <3> QED
      BY <2>8, <3>1, <3>2 DEF Purge
  <2>9. CASE Expire
    BY <2>9 DEF Expire, EntryExpires, Empty
  <2>10. CASE Save \/ ExpireLock \/ UNCHANGED vars
    BY <2>1, <2>10 DEF Save, ExpireLock, vars, local
  <2> QED
    BY <2>2, <2>3, <2>4, <2>5, <2>6, <2>7, <2>8, <2>9, <2>10, NextSplit
<1> QED
  BY <1>1, <1>2, TypeCorrect, PTL DEF Spec
-----------------------------------------------------------------------------
PurgeDue == \E c \in Caller : pc[c] = "purge"

\* What is in the cache, and what is about to be written to it, is the row.
Agree ==
  /\ ~StaleWriter
  /\ hash["file_id"] # "unset" => row # "none"
  /\ hash["is_public"] = "1" => row = "public"
  /\ hash["is_public"] = "0" => row = "private"

\* The inductive form of CoherentUnlessMissed: the writers agree as well.
Coherence == missed \/ PurgeDue \/ Agree

\* A step of c that is no purge, and leaves the row and the cache as they are
\* and the writers agreeing, keeps Coherence.
LEMMA StillCoherent ==
  ASSUME TypeOK, Coherence, NEW c \in Caller, pc[c] # "purge",
         UNCHANGED <<row, hash, missed>>,
         \A d \in Caller \ {c} : pc'[d] = pc[d] /\ snap'[d] = snap[d],
         pc'[c] = "write" => \/ pc[c] = "write" /\ snap'[c] = snap[c]
                             \/ snap'[c] \in {"none", row}
  PROVE  Coherence'
<1>1. CASE missed
  BY <1>1 DEF Coherence
<1>2. CASE PurgeDue
  BY <1>2 DEF Coherence, PurgeDue
<1>3. CASE Agree
  <2>1. ~StaleWriter'
    BY <1>3 DEF Agree, StaleWriter, WriterOtherThan
  <2> QED
    BY <1>3, <2>1 DEF Coherence, Agree
<1> QED
  BY <1>1, <1>2, <1>3 DEF Coherence

\* A field that a caller writes from a row that is still current agrees.
LEMMA FieldCoherent ==
  ASSUME TypeOK, Coherence, NEW c \in Caller, WriteField(c) PROVE Coherence'
<1>1. UNCHANGED <<row, missed, pc, snap>>
  BY DEF WriteField
<1>2. CASE missed \/ PurgeDue
  BY <1>1, <1>2 DEF Coherence, PurgeDue
<1>3. CASE Agree
  <2>1. PICK f \in todo[c] : hash' = [hash EXCEPT ![f] = ValueOf(snap[c], f)]
    BY DEF WriteField
  <2>2. pc[c] = "write" /\ f \in FieldsOf(snap[c]) /\ f \in Field
    BY <2>1 DEF WriteField, TypeOK
  <2>3. ~StaleWriter'
    BY <1>1, <1>3 DEF Agree, StaleWriter, WriterOtherThan
  <2>4. CASE snap[c] = "none"
    <3>1. f = "__null__"
      BY <2>2, <2>4 DEF FieldsOf
    <3>2. hash'["file_id"] = hash["file_id"] /\ hash'["is_public"] = hash["is_public"]
      BY <2>1, <3>1 DEF TypeOK, Field
    <3> QED
      BY <1>1, <1>3, <2>3, <3>2 DEF Agree, Coherence
  <2>5. CASE snap[c] # "none"
    <3>1. snap[c] = row
      BY <1>3, <2>2, <2>5 DEF Agree, StaleWriter, WriterOtherThan
    <3>2. row \in {"private", "public"}
      BY <2>5, <3>1 DEF TypeOK, Row
    <3>3. /\ hash'["is_public"] \in {hash["is_public"], ValueOf(row, "is_public")}
      BY <2>1, <2>2, <3>1 DEF TypeOK, Field
    <3>4. hash'["is_public"] = "1" => row = "public"
      BY <1>3, <3>2, <3>3 DEF Agree, ValueOf
    <3>5. hash'["is_public"] = "0" => row = "private"
      BY <1>3, <3>2, <3>3 DEF Agree, ValueOf
    <3> QED
      BY <1>1, <2>3, <3>2, <3>4, <3>5 DEF Agree, Coherence
  <2> QED
    BY <2>4, <2>5
<1> QED
  BY <1>2, <1>3 DEF Coherence

\* An expired hash shows nothing.
LEMMA EmptyAgrees ==
  ASSUME hash' = Empty, ~StaleWriter' PROVE Agree'
BY DEF Agree, Empty, Field

\* A change whose answer was lost is recorded as missed if anything older is
\* in the cache or about to be.
LEMMA LostCoherent ==
  ASSUME TypeOK, Coherence, NEW c \in Caller, NEW r \in Row, WriteLost(r),
         UNCHANGED <<hash, snap>>, pc[c] \notin {"purge", "write"}, pc'[c] # "write",
         \A d \in Caller \ {c} : pc'[d] = pc[d]
  PROVE  Coherence'
<1>1. CASE missed'
  BY <1>1 DEF Coherence
<1>2. CASE row' = row /\ ~missed /\ ~missed'
  <2>1. UNCHANGED missed
    BY <1>2, LostFlag DEF TypeOK
  <2> QED
    BY <1>2, <2>1, StillCoherent
<1>3. CASE hash = Empty /\ ~WriterOtherThan(row')
  <2>1. ~StaleWriter'
    BY <1>3 DEF StaleWriter, WriterOtherThan
  <2> QED
    BY <1>3, <2>1, EmptyAgrees DEF Coherence
<1> QED
  BY <1>1, <1>2, <1>3 DEF WriteLost

\* The purge of c leaves a coherent cache, or is recorded as having missed.
LEMMA PurgeCoherent ==
  ASSUME TypeOK, Coherence, NEW c \in Caller, Purge(c) PROVE Coherence'
<1>1. CASE missed'
  BY <1>1 DEF Coherence
<1>2. CASE ~missed'
  <2>1. hash' = Empty /\ ~StaleWriter
    <3>1. CASE hash' = Empty /\ missed' = StaleWriter
      BY <1>2, <3>1
    <3>2. CASE missed' = (missed \/ hash # Empty \/ StaleWriter) /\ UNCHANGED hash
      BY <1>2, <3>2
    <3> QED
      BY <3>1, <3>2 DEF Purge, cache
  <2>2. ~StaleWriter'
    BY <2>1 DEF Purge, Finish, Forget, At, StaleWriter, WriterOtherThan, TypeOK
  <2> QED
    BY <2>1, <2>2, EmptyAgrees DEF Coherence
<1> QED
  BY <1>1, <1>2

\* No step ends the agreement, except a change that has its purge to come.
LEMMA CoherenceInv == Spec => []Coherence
<1>1. Init => Coherence
  BY DEF Init, Coherence, Agree, StaleWriter, WriterOtherThan, Empty, Field
<1>2. TypeOK /\ Coherence /\ [Next]_vars => Coherence'
  <2> SUFFICES ASSUME TypeOK, Coherence, [Next]_vars PROVE Coherence'
    OBVIOUS
  <2>1. ASSUME NEW c \in Caller, Quiet(c) PROVE Coherence'
    <3>1. UNCHANGED <<row, hash, missed, snap>> /\ pc[c] # "purge"
      BY <2>1 DEF Quiet, Lookup, TryLock, Unlock, Decide, BatchSelect, cache, local
    <3>2. pc'[c] # "write" /\ \A d \in Caller \ {c} : pc'[d] = pc[d]
      BY <2>1 DEF Quiet, Lookup, TryLock, Unlock, Decide, BatchSelect, Finish, Forget, At, TypeOK
    <3> QED
      BY <3>1, <3>2, StillCoherent
  <2>2. ASSUME NEW c \in Caller, Query(c) PROVE Coherence'
    <3>1. UNCHANGED <<row, hash, missed>> /\ pc[c] # "purge"
      BY <2>2 DEF Query, cache
    <3>2. \A d \in Caller \ {c} : pc'[d] = pc[d] /\ snap'[d] = snap[d]
      BY <2>2 DEF Query, Leave, At, TypeOK
    <3>3. pc'[c] = "write" => snap'[c] \in {"none", row}
      BY <2>2 DEF Query, Leave, At, TypeOK
    <3> QED
      BY <3>1, <3>2, <3>3, StillCoherent
  <2>3. ASSUME NEW c \in Caller, WriteField(c) PROVE Coherence'
    BY <2>3, FieldCoherent
  <2>4. ASSUME NEW c \in Caller, WriteTtl(c) \/ WriteFails(c) PROVE Coherence'
    <3>1. UNCHANGED <<row, hash, missed>> /\ pc[c] # "purge"
      BY <2>4 DEF WriteTtl, WriteFails, cache
    <3>2. /\ pc'[c] # "write"
          /\ \A d \in Caller \ {c} : pc'[d] = pc[d] /\ snap'[d] = snap[d]
      BY <2>4 DEF WriteTtl, WriteFails, Leave, At, TypeOK
    <3> QED
      BY <3>1, <3>2, StillCoherent
  <2>5. ASSUME NEW c \in Caller, Update(c) \/ Erase(c) \/ BatchErase(c) PROVE Coherence'
    <3>1. CASE pc'[c] = "purge"
      BY <3>1 DEF Coherence, PurgeDue
    <3>2. CASE pc'[c] # "purge"
      <4>1. \E r \in Row : WriteLost(r)
        <5>1. Toggled(c) \in Row /\ "none" \in Row
          BY DEF Toggled, Row
        <5> QED
          BY <2>5, <3>2, <5>1 DEF Update, Erase, BatchErase, At, TypeOK
      <4>2. UNCHANGED <<hash, snap>> /\ pc[c] \notin {"purge", "write"}
        BY <2>5 DEF Update, Erase, BatchErase, cache, local
      <4>3. pc'[c] # "write" /\ \A d \in Caller \ {c} : pc'[d] = pc[d]
        BY <2>5 DEF Update, Erase, BatchErase, Finish, Forget, At, TypeOK
      <4> QED
        BY <4>1, <4>2, <4>3, LostCoherent
    <3> QED
      BY <3>1, <3>2
  <2>6. ASSUME NEW c \in Caller, Purge(c) PROVE Coherence'
    BY <2>6, PurgeCoherent
  <2>7. CASE Save
    <3>1. CASE Agree
      BY <2>7, <3>1 DEF Save, Coherence, Agree, StaleWriter, WriterOtherThan, cache, local, TypeOK, Row
    <3> QED
      BY <2>7, <3>1 DEF Save, Coherence, PurgeDue
  <2>8. CASE Expire
    <3>1. hash' = Empty /\ UNCHANGED <<row, pc, snap>> /\ missed' = (missed /\ StaleWriter)
      BY <2>8 DEF Expire, local
    <3>2. CASE missed'
      BY <3>2 DEF Coherence
    <3>3. CASE PurgeDue
      BY <3>1, <3>3 DEF PurgeDue, Coherence
    <3>4. CASE ~StaleWriter
      <4>1. ~StaleWriter'
        BY <3>1, <3>4 DEF StaleWriter, WriterOtherThan
      <4> QED
        BY <3>1, <4>1, EmptyAgrees DEF Coherence
    <3>5. missed' \/ PurgeDue \/ ~StaleWriter
      BY <3>1 DEF Coherence, Agree
    <3> QED
      BY <3>2, <3>3, <3>4, <3>5
  <2>9. CASE ExpireLock \/ UNCHANGED vars
    BY <2>9 DEF ExpireLock, vars, cache, local, Coherence, PurgeDue, Agree, StaleWriter, WriterOtherThan
  <2> QED
    BY <2>1, <2>2, <2>3, <2>4, <2>5, <2>6, <2>7, <2>8, <2>9, NextSplit
<1> QED
  BY <1>1, <1>2, TypeCorrect, PTL DEF Spec

\* While no purge is due, and since the hash was last gone none was left out
\* (the answer to the change was lost), failed or overtook a writer of an older
\* row, the cache shows no deleted file, no private file as public and no other
\* is_public than MySQL's, however the HSETs of callers are interleaved and
\* wherever a connection breaks.
THEOREM CoherentCorrect == Spec => []CoherentUnlessMissed
<1>1. Coherence => CoherentUnlessMissed
  <2>1. /\ Parse(hash).found => hash["file_id"] # "unset"
        /\ Parse(hash).pub => hash["is_public"] = "1"
    BY DEF Parse, Missing
  <2> QED
    BY <2>1 DEF Coherence, PurgeDue, Agree, CoherentUnlessMissed
<1> QED
  BY <1>1, CoherenceInv, PTL
-----------------------------------------------------------------------------
(* The answers of get *)

\* The histories restrict nothing: what holds of MetaCache holds here.
THEOREM AnswersKeepCache == AnswersSpec => Spec
<1>1. AnswersInit => Init
  BY DEF AnswersInit
<1>2. [AnswersNext]_answerVars => [Next]_vars
  BY DEF AnswersNext, answerVars
<1> QED
  BY <1>1, <1>2, PTL DEF AnswersSpec, Spec

\* The values the cache and its writers may still show.
Older == Shown(row) \cup unpurged

\* They show no others, also while a purge is due.
Covered ==
  /\ hash["file_id"] # "unset" => Older # {}
  /\ hash["is_public"] = "1" => "public" \in Older
  /\ \A d \in Caller : pc[d] = "write" => Shown(snap[d]) \subseteq Older

\* A get in progress may answer with each of them, and with what it writes.
Following ==
  \A c \in Caller : pc[c] \in InGet =>
      /\ Older \subseteq seen[c]
      /\ pc[c] = "write" => Shown(snap[c]) \subseteq seen[c]

Fresh == IF missed THEN unpurged = {} ELSE Covered /\ Following

\* A missed purge is forgotten when nothing can show what it missed.
LEMMA Recovers ==
  ASSUME TypeOK, [Next]_vars, missed, ~missed'
  PROVE  hash' = Empty /\ ~StaleWriter' /\ UNCHANGED row
<1>1. ASSUME NEW c \in Caller, Update(c) \/ Erase(c) \/ BatchErase(c) PROVE FALSE
  BY <1>1 DEF Update, Erase, BatchErase, WriteLost
<1>2. ASSUME NEW c \in Caller, Purge(c)
      PROVE  hash' = Empty /\ ~StaleWriter' /\ UNCHANGED row
  <2>1. hash' = Empty /\ missed' = StaleWriter /\ UNCHANGED <<row, snap>>
    BY <1>2 DEF Purge
  <2>2. \A d \in Caller : pc'[d] = "write" => pc[d] = "write"
    BY <1>2 DEF Purge, Finish, Forget, At, TypeOK
  <2> QED
    BY <2>1, <2>2 DEF StaleWriter, WriterOtherThan
<1>3. CASE Expire
  <2>1. /\ hash' = Empty /\ UNCHANGED <<row, pc, snap>>
        /\ missed' = (missed /\ StaleWriter)
    BY <1>3 DEF Expire, local
  <2> QED
    BY <2>1 DEF StaleWriter, WriterOtherThan
<1>4. ASSUME NEW c \in Caller,
             Quiet(c) \/ Query(c) \/ WriteField(c) \/ WriteTtl(c) \/ WriteFails(c)
      PROVE  FALSE
  BY <1>4 DEF Quiet, Lookup, TryLock, Unlock, Decide, BatchSelect, Query, WriteField,
     WriteTtl, WriteFails
<1>5. CASE Save \/ ExpireLock \/ UNCHANGED vars
  BY <1>5 DEF Save, ExpireLock, vars
<1> QED
  BY <1>1, <1>2, <1>3, <1>4, <1>5, NextSplit

\* What one step does to the hash and to the writers.
Writes(c) ==
  \/ UNCHANGED <<hash, snap>> /\ \A d \in Caller : pc'[d] = "write" => pc[d] = "write"
  \/ hash' = Empty /\ UNCHANGED snap /\ \A d \in Caller : pc'[d] = "write" => pc[d] = "write"
  \/ /\ hash' = hash /\ snap'[c] \in {"none", row}
     /\ \A d \in Caller \ {c} : snap'[d] = snap[d] /\ pc'[d] = pc[d]
  \/ /\ hash' = hash /\ pc'[c] # "write"
     /\ \A d \in Caller \ {c} : snap'[d] = snap[d] /\ pc'[d] = pc[d]
  \/ /\ pc[c] = "write" /\ UNCHANGED <<snap, pc>>
     /\ \E f \in FieldsOf(snap[c]) : hash' = [hash EXCEPT ![f] = ValueOf(snap[c], f)]

LEMMA StepWrites ==
  ASSUME TypeOK, [Next]_vars
  PROVE  \/ \E c \in Caller : Writes(c)
         \/ /\ hash' \in {hash, Empty} /\ UNCHANGED snap
            /\ \A d \in Caller : pc'[d] = "write" => pc[d] = "write"
<1> USE DEF TypeOK, At, cache, local
<1>1. ASSUME NEW c \in Caller, Quiet(c) PROVE Writes(c)
  <2>1. UNCHANGED <<hash, snap>>
    BY <1>1 DEF Quiet, Lookup, TryLock, Unlock, Decide, BatchSelect
  <2>2. pc'[c] # "write" /\ \A d \in Caller \ {c} : pc'[d] = pc[d]
    BY <1>1 DEF Quiet, Lookup, TryLock, Unlock, Decide, BatchSelect, Finish, Forget
  <2> QED
    BY <2>1, <2>2 DEF Writes
<1>2. ASSUME NEW c \in Caller, Query(c) PROVE Writes(c)
  BY <1>2 DEF Query, Leave, Writes
<1>3. ASSUME NEW c \in Caller, WriteField(c) PROVE Writes(c)
  BY <1>3 DEF WriteField, Writes
<1>4. ASSUME NEW c \in Caller, WriteTtl(c) \/ WriteFails(c) PROVE Writes(c)
  BY <1>4 DEF WriteTtl, WriteFails, Leave, Writes
<1>5. ASSUME NEW c \in Caller, Update(c) \/ Erase(c) \/ BatchErase(c) \/ Purge(c)
      PROVE  Writes(c)
  <2>1. hash' \in {hash, Empty} /\ UNCHANGED snap
    BY <1>5 DEF Update, Erase, BatchErase, Purge
  <2>2. \A d \in Caller : pc'[d] = "write" => pc[d] = "write"
    BY <1>5 DEF Update, Erase, BatchErase, Purge, Finish, Forget
  <2> QED
    BY <2>1, <2>2 DEF Writes
<1>6. CASE Save \/ Expire \/ ExpireLock \/ UNCHANGED vars
  BY <1>6 DEF Save, Expire, ExpireLock, vars
<1> QED
  BY <1>1, <1>2, <1>3, <1>4, <1>5, <1>6, NextSplit

\* While a purge is due nothing recorded is dropped.
LEMMA OlderGrows ==
  ASSUME Remember, ~missed', PurgeDue' PROVE Older \subseteq Older'
BY DEF Remember, PurgeDue, Older, Shown

LEMMA CoveredNext ==
  ASSUME TypeOK, [Next]_vars, Remember, Coherence', ~missed', Covered
  PROVE  Covered'
<1>1. CASE ~PurgeDue'
  <2>1. Agree'
    BY <1>1 DEF Coherence
  <2> QED
    BY <2>1 DEF Agree, StaleWriter, WriterOtherThan, Covered, Older, Shown
<1>2. CASE PurgeDue'
  <2>1. Older \subseteq Older'
    BY <1>2, OlderGrows
  <2>2. /\ hash'["file_id"] # "unset" => Older # {}
        /\ hash'["is_public"] = "1" => "public" \in Older
    <3>1. CASE hash' = hash
      BY <3>1 DEF Covered
    <3>2. CASE hash' = Empty
      BY <3>2 DEF Empty, Field
    <3>3. ASSUME NEW c \in Caller, pc[c] = "write", NEW f \in FieldsOf(snap[c]),
                 hash' = [hash EXCEPT ![f] = ValueOf(snap[c], f)]
          PROVE  /\ hash'["file_id"] # "unset" => Older # {}
                 /\ hash'["is_public"] = "1" => "public" \in Older
      <4>1. Shown(snap[c]) \subseteq Older
        BY <3>3 DEF Covered
      <4>2. CASE snap[c] = "none"
        <5>1. f = "__null__"
          BY <4>2 DEF FieldsOf
        <5> QED
          BY <3>3, <5>1 DEF Covered, TypeOK, Field
      <4>3. CASE snap[c] # "none"
        <5>1. snap[c] \in Older /\ f \in Field
          BY <4>1, <4>3 DEF Shown, FieldsOf
        <5>2. hash'["is_public"] = "1" => hash["is_public"] = "1" \/ snap[c] = "public"
          BY <3>3, <5>1 DEF ValueOf, TypeOK, Field
        <5> QED
          BY <5>1, <5>2 DEF Covered
      <4> QED
        BY <4>2, <4>3
    <3> QED
      BY <3>1, <3>2, <3>3, StepWrites DEF Writes
  <2>3. ASSUME NEW d \in Caller, pc'[d] = "write" PROVE Shown(snap'[d]) \subseteq Older
    <3>1. CASE pc[d] = "write" /\ snap'[d] = snap[d]
      BY <3>1 DEF Covered
    <3>2. CASE snap'[d] \in {"none", row}
      BY <3>2 DEF Older, Shown
    <3> QED
      BY <2>3, <3>1, <3>2, StepWrites DEF Writes
  <2> QED
    BY <2>1, <2>2, <2>3 DEF Covered
<1> QED
  BY <1>1, <1>2

LEMMA FollowingNext ==
  ASSUME TypeOK, [Next]_vars, Remember, ~missed', Following
  PROVE  Following'
<1> SUFFICES ASSUME NEW c \in Caller, pc'[c] \in InGet
             PROVE  /\ Older' \subseteq seen'[c]
                    /\ pc'[c] = "write" => Shown(snap'[c]) \subseteq seen'[c]
  BY DEF Following
<1>1. seen'[c] = Known(c) \cup Shown(row')
  BY DEF Remember
<1>2. pc[c] \in InGet \cup {"idle"}
  <2>1. ASSUME NEW d \in Caller, Quiet(d) PROVE pc[c] \in InGet \cup {"idle"}
    BY <2>1 DEF Quiet, Lookup, TryLock, Unlock, Decide, BatchSelect, Finish, Forget, At, TypeOK, InGet
  <2>2. ASSUME NEW d \in Caller, Query(d) \/ WriteField(d) \/ WriteTtl(d) \/ WriteFails(d)
        PROVE  pc[c] \in InGet \cup {"idle"}
    BY <2>2 DEF Query, WriteField, WriteTtl, WriteFails, Leave, At, TypeOK, InGet
  <2>3. ASSUME NEW d \in Caller, Update(d) \/ Erase(d) \/ BatchErase(d) \/ Purge(d)
        PROVE  pc[c] \in InGet \cup {"idle"}
    BY <2>3 DEF Update, Erase, BatchErase, Purge, Finish, Forget, At, TypeOK, InGet
  <2>4. CASE UNCHANGED pc
    BY <2>4
  <2> QED
    BY <2>1, <2>2, <2>3, <2>4, NextSplit DEF Save, Expire, ExpireLock, vars
<1>3. Older \subseteq Known(c)
  BY <1>2 DEF Following, Known, Older, InGet
<1>4. Older' \subseteq Older \cup Shown(row')
  BY DEF Remember, Older, Shown
<1>5. ASSUME pc'[c] = "write" PROVE Shown(snap'[c]) \subseteq Known(c)
  <2>1. CASE pc[c] = "write" /\ snap'[c] = snap[c]
    BY <2>1 DEF Following, Known, InGet
  <2>2. CASE snap'[c] \in {"none", row}
    BY <2>2 DEF Known, Shown
  <2> QED
    BY <1>5, <2>1, <2>2, StepWrites DEF Writes
<1> QED
  BY <1>1, <1>3, <1>4, <1>5

\* When a missed purge is forgotten the histories begin anew.
LEMMA FreshAgain ==
  ASSUME TypeOK, [Next]_vars, Remember, missed, ~missed', unpurged = {}
  PROVE  Covered' /\ Following'
<1>1. hash' = Empty /\ ~StaleWriter' /\ UNCHANGED row
  BY Recovers
<1>2. unpurged' = {}
  BY <1>1 DEF Remember, Shown
<1>3. Older' = Shown(row)
  BY <1>1, <1>2 DEF Older
<1>4. \A d \in Caller : pc'[d] = "write" => Shown(snap'[d]) \subseteq Shown(row)
  BY <1>1 DEF StaleWriter, WriterOtherThan, Shown
<1>5. \A d \in Caller : pc'[d] \in InGet => Shown(row) \subseteq seen'[d]
  BY <1>1 DEF Remember
<1>6. hash'["file_id"] = "unset" /\ hash'["is_public"] = "unset"
  BY <1>1 DEF Empty, Field
<1>7. Covered'
  BY <1>3, <1>4, <1>6 DEF Covered
<1>8. Following'
  BY <1>3, <1>4, <1>5 DEF Following
<1> QED
  BY <1>7, <1>8

LEMMA FreshInv == AnswersSpec => []Fresh
<1>1. AnswersInit => Fresh
  <2> SUFFICES ASSUME AnswersInit PROVE Covered /\ Following
    BY DEF Fresh, AnswersInit, Init
  <2>1. \A c \in Caller : pc[c] = "idle"
    BY DEF AnswersInit, Init
  <2>2. hash["file_id"] = "unset" /\ hash["is_public"] = "unset"
    BY DEF AnswersInit, Init, Empty, Field
  <2> QED
    BY <2>1, <2>2 DEF Covered, Following, InGet
<1>2. TypeOK /\ Coherence' /\ Fresh /\ [AnswersNext]_answerVars => Fresh'
  <2> SUFFICES ASSUME TypeOK, Coherence', Fresh, [AnswersNext]_answerVars PROVE Fresh'
    OBVIOUS
  <2>1. CASE UNCHANGED answerVars
    BY <2>1 DEF answerVars, vars, cache, local, Fresh, Covered, Following, Older
  <2>2. CASE AnswersNext
    <3>1. [Next]_vars /\ Remember
      BY <2>2 DEF AnswersNext
    <3>2. CASE missed'
      BY <3>1, <3>2 DEF Remember, Fresh
    <3>3. CASE ~missed' /\ missed
      BY <3>1, <3>3, FreshAgain DEF Fresh
    <3>4. CASE ~missed' /\ ~missed
      BY <3>1, <3>4, CoveredNext, FollowingNext DEF Fresh
    <3> QED
      BY <3>2, <3>3, <3>4
  <2> QED
    BY <2>1, <2>2
<1> QED
  BY <1>1, <1>2, AnswersKeepCache, TypeCorrect, CoherenceInv, PTL DEF AnswersSpec

\* The steps that end a get, and with what.
LEMMA AnswerSteps ==
  ASSUME TypeOK, [Next]_vars, NEW c \in Caller, Answers(c)
  PROVE  \/ pc[c] \in {"idle", "nap"} /\ meta'[c] = Parse(hash)
         \/ meta'[c] = Missing
         \/ pc[c] = "write" /\ meta'[c] = MetaOf(snap[c])
<1> USE DEF TypeOK, At, Answers, InGet
<1>1. ASSUME NEW d \in Caller, Quiet(d)
      PROVE  pc[c] \in {"idle", "nap"} /\ meta'[c] = Parse(hash)
  BY <1>1 DEF Quiet, Lookup, TryLock, Unlock, Decide, BatchSelect, Finish, Forget
<1>2. ASSUME NEW d \in Caller, Query(d) PROVE meta'[c] = Missing
  BY <1>2 DEF Query, Leave
<1>3. ASSUME NEW d \in Caller, WriteTtl(d) \/ WriteFails(d)
      PROVE  pc[c] = "write" /\ meta'[c] = MetaOf(snap[c])
  BY <1>3 DEF WriteTtl, WriteFails, Leave
<1>4. ASSUME NEW d \in Caller, Update(d) \/ Erase(d) \/ BatchErase(d) \/ Purge(d)
      PROVE  FALSE
  BY <1>4 DEF Update, Erase, BatchErase, Purge, Finish, Forget
<1>5. pc' # pc
  OBVIOUS
<1> QED
  BY <1>1, <1>2, <1>3, <1>4, <1>5, NextSplit
  DEF WriteField, Save, Expire, ExpireLock, vars

\* A get answers from what MySQL had while it ran, or had before a change that
\* was due to purge when it began, unless a purge that was left out, failed or
\* overtook a writer may still be felt.
THEOREM AnswersFreshCorrect == AnswersSpec => AnswersFresh
<1>1. TypeOK /\ Fresh /\ [Next]_vars
      => [\A c \in Caller :
            Answers(c) /\ ~missed =>
                /\ meta'[c].found => Known(c) # {}
                /\ meta'[c].pub => "public" \in Known(c)]_answerVars
  <2> SUFFICES ASSUME TypeOK, Fresh, [Next]_vars, NEW c \in Caller, Answers(c), ~missed
               PROVE  /\ meta'[c].found => Known(c) # {}
                      /\ meta'[c].pub => "public" \in Known(c)
    OBVIOUS
  <2>0. Covered /\ Following
    BY DEF Fresh
  <2>1. CASE pc[c] \in {"idle", "nap"} /\ meta'[c] = Parse(hash)
    <3>1. Older \subseteq Known(c)
      BY <2>0, <2>1 DEF Following, Known, Older, InGet
    <3>2. /\ Parse(hash).found => hash["file_id"] # "unset"
          /\ Parse(hash).pub => hash["is_public"] = "1"
      BY DEF Parse, Missing
    <3>3. /\ Parse(hash).found => Known(c) # {}
          /\ Parse(hash).pub => "public" \in Known(c)
      BY <2>0, <3>1, <3>2 DEF Covered
    <3> QED
      BY <2>1, <3>3, Zenon
  <2>2. CASE meta'[c] = Missing
    BY <2>2 DEF Missing
  <2>3. CASE pc[c] = "write" /\ meta'[c] = MetaOf(snap[c])
    <3>1. Shown(snap[c]) \subseteq Known(c)
      BY <2>0, <2>3 DEF Following, Known, InGet
    <3>2. /\ MetaOf(snap[c]).found => Known(c) # {}
          /\ MetaOf(snap[c]).pub => "public" \in Known(c)
      BY <3>1 DEF MetaOf, Shown
    <3> QED
      BY <2>3, <3>2, Zenon
  <2> QED
    BY <2>1, <2>2, <2>3, AnswerSteps
<1>2. [AnswersNext]_answerVars => [Next]_vars
  BY DEF AnswersNext, answerVars
<1> QED
  BY <1>1, <1>2, FreshInv, AnswersKeepCache, TypeCorrect, PTL
  DEF AnswersSpec, AnswersFresh
=============================================================================
