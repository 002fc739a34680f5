------------------------------ MODULE ViewSync ------------------------------
(***************************************************************************)
(* Counting views: fileAccessHandler (src/http/FileAccessHandler.cc)       *)
(* increments a counter in Redis and queues the entry of its key in the    *)
(* set file_views_keys; a thread of BackgroundService adds the counters to *)
(* view_count in MySQL and deletes them.  Every remote command is a step.  *)
(***************************************************************************)
EXTENDS Naturals

CONSTANTS File,       \* files that exist throughout
          MaxViews,   \* bound: views per file
          Faults      \* services and the process may fail

ASSUME ViewAssumption == MaxViews \in Nat /\ Faults \in BOOLEAN

VARIABLES
    counter,    \* file_views:<id>, 0 when there is no such key
    keys,       \* file_views_keys
    pending,    \* SADDs queued in AeroQueue
    viewCount,  \* view_count in MySQL
    viewed,     \* history: INCRs that were done
    pc,         \* where the view sync thread is
    round,      \* keys of its round
    todo,       \* keys it has not come to yet
    got,        \* what it read, 0 for nothing
    raced,      \* history: files viewed or tracked inside a round's window
    fault       \* history: a failure that may lose or repeat a count

sync    == <<pc, round, todo, got>>
history == <<raced, fault>>
vars    == <<counter, keys, pending, viewCount, viewed, sync, history>>

Zero == [f \in File |-> 0]

\* Bound: failures are followed up to the first that counts wrongly.
MayFail == Faults /\ ~fault

Init ==
    /\ counter = Zero /\ keys = {} /\ pending = Zero
    /\ viewCount = Zero /\ viewed = Zero
    /\ pc = "wait" /\ round = {} /\ todo = {} /\ got = Zero
    /\ raced = {} /\ fault = FALSE

\* The round has read the counter of f, or missed it, and will delete it.
InWindow(f) == \/ pc = "read" /\ f \in round \ todo
               \/ pc = "delete" /\ f \in todo
-----------------------------------------------------------------------------
(* fileAccessHandler *)

\* INCR, and post of the SADD.
View(f) ==
    /\ viewed[f] < MaxViews
    /\ counter' = [counter EXCEPT ![f] = @ + 1]
    /\ viewed' = [viewed EXCEPT ![f] = @ + 1]
    /\ pending' = [pending EXCEPT ![f] = @ + 1]
    /\ raced' = IF InWindow(f) THEN raced \cup {f} ELSE raced
    /\ UNCHANGED <<keys, viewCount, sync, fault>>

\* A worker runs the SADD.
Track(f) ==
    /\ pending[f] > 0
    /\ pending' = [pending EXCEPT ![f] = @ - 1]
    /\ keys' = keys \cup {f}
    /\ raced' = IF pc = "wait" THEN raced ELSE raced \cup {f}
    /\ UNCHANGED <<counter, viewCount, viewed, sync, fault>>

\* The SADD gets no connection, or its task is dropped by stop.
TrackFails(f) ==
    /\ MayFail
    /\ pending[f] > 0
    /\ pending' = [pending EXCEPT ![f] = @ - 1]
    /\ fault' = TRUE
    /\ UNCHANGED <<counter, keys, viewCount, viewed, sync, raced>>
-----------------------------------------------------------------------------
(* The view sync thread *)

\* Mutant: updates outlives the round.
EndRoundKeep ==
    /\ pc' = "wait" /\ round' = {} /\ todo' = {} /\ UNCHANGED got

EndRound ==
    /\ pc' = "wait" /\ round' = {} /\ todo' = {} /\ got' = Zero

\* SMEMBERS, when the 300s have passed.
Collect ==
    /\ pc = "wait"
    /\ keys # {}
    /\ pc' = "read" /\ round' = keys /\ todo' = keys
    /\ UNCHANGED <<counter, keys, pending, viewCount, viewed, got, history>>

\* GET of one key, in a pipeline.
Read ==
    /\ pc = "read"
    /\ \E f \in todo :
          /\ got' = [got EXCEPT ![f] = counter[f]]
          /\ todo' = todo \ {f}
    /\ UNCHANGED <<counter, keys, pending, viewCount, viewed, pc, round, history>>

\* No connection, or it breaks: the keys left are missing from updates, yet
\* will be deleted with the others.
ReadFails ==
    /\ MayFail
    /\ pc = "read" /\ todo # {}
    /\ \/ got = Zero /\ EndRound /\ UNCHANGED fault
       \/ got # Zero /\ todo' = {} /\ fault' = TRUE /\ UNCHANGED <<pc, round, got>>
    /\ UNCHANGED <<counter, keys, pending, viewCount, viewed, raced>>

\* updates is empty.
NothingRead ==
    /\ pc = "read" /\ todo = {} /\ got = Zero
    /\ EndRound
    /\ UNCHANGED <<counter, keys, pending, viewCount, viewed, history>>

\* batchUpdateViewCount commits.
Commit ==
    /\ pc = "read" /\ todo = {} /\ got # Zero
    /\ viewCount' = [f \in File |-> viewCount[f] + got[f]]
    /\ pc' = "delete" /\ todo' = round
    /\ UNCHANGED <<counter, keys, pending, viewed, round, got, history>>

\* Mutant: the counters are deleted although batchUpdateViewCount failed.
RejectDelete ==
    /\ MayFail
    /\ pc = "read" /\ todo = {} /\ got # Zero
    /\ pc' = "delete" /\ todo' = round
    /\ UNCHANGED <<counter, keys, pending, viewCount, viewed, round, got, history>>

\* Mutant: the set is deleted although batchUpdateViewCount failed.
RejectForget ==
    /\ MayFail
    /\ pc = "read" /\ todo = {} /\ got # Zero
    /\ keys' = {}
    /\ EndRound
    /\ UNCHANGED <<counter, pending, viewCount, viewed, history>>

\* batchUpdateViewCount returns false and the counters are kept.
Reject ==
    /\ MayFail
    /\ pc = "read" /\ todo = {} /\ got # Zero
    /\ EndRound
    /\ UNCHANGED <<counter, keys, pending, viewCount, viewed, history>>

\* mysql_commit fails, which batchUpdateViewCount does not look at.
CommitLost ==
    /\ MayFail
    /\ pc = "read" /\ todo = {} /\ got # Zero
    /\ pc' = "delete" /\ todo' = round
    /\ fault' = TRUE
    /\ UNCHANGED <<counter, keys, pending, viewCount, viewed, round, got, raced>>

\* Mutant: the DEL names another key.
DeleteNothing ==
    /\ pc = "delete"
    /\ \E f \in todo :
          /\ got' = [got EXCEPT ![f] = 0]
          /\ todo' = todo \ {f}
    /\ UNCHANGED <<counter, keys, pending, viewCount, viewed, pc, round, history>>

\* DEL of one key, in a pipeline.
Delete ==
    /\ pc = "delete"
    /\ \E f \in todo :
          /\ counter' = [counter EXCEPT ![f] = 0]
          /\ got' = [got EXCEPT ![f] = 0]
          /\ todo' = todo \ {f}
    /\ UNCHANGED <<keys, pending, viewCount, viewed, pc, round, history>>

\* DEL file_views_keys, and the round is over.
Forget ==
    /\ pc = "delete" /\ todo = {}
    /\ keys' = {}
    /\ EndRound
    /\ UNCHANGED <<counter, pending, viewCount, viewed, history>>

\* No connection, or it breaks: what is left stays in Redis.
DeleteFails ==
    /\ MayFail
    /\ pc = "delete"
    /\ EndRound
    /\ fault' = TRUE
    /\ UNCHANGED <<counter, keys, pending, viewCount, viewed, raced>>

\* The process dies and is started again.
Restart ==
    /\ MayFail
    /\ pending' = Zero
    /\ EndRound
    /\ fault' = (pc = "delete" \/ pending # Zero)
    /\ UNCHANGED <<counter, keys, viewCount, viewed, raced>>
-----------------------------------------------------------------------------
Sync == Collect \/ Read \/ NothingRead \/ Commit \/ Delete \/ Forget

Next ==
    \/ \E f \in File : View(f) \/ Track(f) \/ TrackFails(f)
    \/ Sync
    \/ ReadFails \/ Reject \/ CommitLost \/ DeleteFails \/ Restart

Spec == Init /\ [][Next]_vars

(***************************************************************************)
(* Fairness.  The workers and the sync thread go on, and in the end the    *)
(* services and the process stay up.  Nobody has to view a file.           *)
(***************************************************************************)
FailuresEnd == <>[][~(ReadFails \/ Reject \/ Restart)]_vars

FairSpec ==
    /\ Spec
    /\ \A f \in File : WF_vars(Track(f))
    /\ WF_vars(Sync)
    /\ FailuresEnd
-----------------------------------------------------------------------------
(* Properties *)

\* Every variable has its type; the thread keeps nothing between rounds.
TypeOK ==
    /\ counter \in [File -> Nat] /\ pending \in [File -> Nat]
    /\ viewCount \in [File -> Nat] /\ viewed \in [File -> Nat]
    /\ keys \in SUBSET File /\ raced \in SUBSET File /\ fault \in BOOLEAN
    /\ pc \in {"wait", "read", "delete"}
    /\ round \in SUBSET File /\ todo \in SUBSET round
    /\ got \in [File -> Nat]
    /\ pc = "wait" => round = {} /\ got = Zero

\* What the sync thread has added to view_count and not deleted from Redis.
Doubled(f) == IF pc = "delete" THEN got[f] ELSE 0

\* No view is counted twice, whatever handlers do during a round: only a
\* failure after the commit can add the same views again.
NeverOvercounted ==
    fault \/ \A f \in File : viewCount[f] + counter[f] <= viewed[f] + Doubled(f)

\* No view is lost, neither by a round nor by one that fails before its
\* commit, except inside the window between the GET and the DEL.
Conserved ==
    fault \/ \A f \in File \ raced :
                 viewCount[f] + counter[f] = viewed[f] + Doubled(f)

\* A counter that waits to be synchronised is found by the next round, or its
\* key is about to be entered, although the set is deleted as a whole.
Tracked ==
    fault \/ \A f \in File \ raced :
                 counter[f] > 0 => f \in keys \/ pending[f] > 0

\* Whatever a round reads, adds and deletes, the view_count of a file never
\* goes down, and before a failure it never exceeds the views there were.
Ledger == INSTANCE ViewLedger
              WITH seen <- viewed, shown <- viewCount, doubtful <- fault
LedgerSpec == Ledger!Spec

\* Every view reaches MySQL in the end, rounds that fail included, unless it
\* fell into a window or was lost by a failure.
ViewsReachMySQL ==
    \A f \in File : <>[](~fault /\ f \notin raced) => <>[](viewCount[f] = viewed[f])

\* docs/user-guide-flow.md:328: view_count is the number of views.
ViewCountIsTrue == \A f \in File : <>[](viewCount[f] = viewed[f])
=============================================================================
