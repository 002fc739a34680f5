# AeroImageHost: formal models

AeroImageHost is an image and file host: a Drogon HTTP server in C++ that keeps
file bytes in MinIO, rows in MySQL, and caches, counters, locks and upload
bookkeeping in Redis.  Handlers run on the threads of the server, slow work on
the workers of `AeroQueue`, periodic work on the threads of
`BackgroundService`.  No transaction spans two of the stores, so nearly every
handler is a sequence of remote calls that other handlers cut into; that is
what these models are about.

## Inventory

| Component (source) | State | Operations | Talks to | What is hard | What makes it correct |
|---|---|---|---|---|---|
| MySQL pool (`src/ConnectionPool.cc`, `DbGuard`, `TransactionGuard`) | queue of idle connections with time stamps, `mutex_`, `cv_`, `stopped_` | getConnection, releaseConnection, close | every DAO, MySQL | waits with deadlines, a retry loop that gives the mutex up, `stopped_` read without it, lost connections, callers that hold one connection and ask for a second | no connection in two hands, at most `poolSize_` open, no lost wakeup, calls return |
| Redis pool (`src/RedisClient.cc`) | eight shards, each a queue with mutex and cv | getContext, releaseContext, one method per command | Redis | contexts lost for good when a reconnect fails; no command timeouts | as the MySQL pool; a shard does not run dry |
| Task queue (`src/AeroQueue.cc`) | lock-free queue, workers, counters, `stopped_` | start, post, stop | upload, delete, mail and view handlers | notifications sent without the mutex, tasks that throw, stop against running workers | a task runs at most once, and once unless stopped; stop returns |
| Metadata cache (`storage/FileMeta.cc` with `RedisClient`) | row, hash with TTL, `__null__` sentinel, lock key | get, save, updatePublic, del, batch delete | file handlers | cache fills that race purges, hashes written one field at a time, failed purges | no deleted or private file shown, or not for long |
| File store (`http/Handlers.cc`, `storage/MinIOClient.cc`) | rows, objects | upload, presigned upload and confirm, delete, batch delete, quota | MySQL, MinIO, AeroQueue | two stores without a transaction, deferred object deletion, quota read before it is used | a row has its object; the quota holds |
| File list cache (`handleListFiles`, `invalidateUserFilesCache`) | page keys, their index set, a process-local page | list, invalidate | file handlers | a page built before a change and stored after it; a page stored before it is indexed | a page that no change overtook is never left behind by a later one |
| Multipart upload (`Handlers.cc`) | `upload_active`, `upload_owner`, tracking set, chunks | init, chunk, complete, cleanup, orphan cleanup | MinIO, Redis, AeroQueue | concurrent completes, chunks against cleanups | one file per upload, from all of its chunks |
| View counting (`FileAccessHandler.cc`, `BackgroundService.cc`) | counters and their key set in Redis, `view_count` | count, synchronise | AeroQueue, MySQL | read, commit and delete are separate steps on two stores | no view counted twice; none lost outside a known window |
| Thumbnails and watermarks (`FileAccessHandler.cc`, watermark handlers) | thumbnails, watermarked copy, `watermark_text` of the row | draw on access, set, remove, delete | MinIO, MySQL, AeroQueue | the copy is deleted before the row changes; accesses draw it in between | a served copy shows the current watermark; none outlives its file |
| Auth tokens (`http/Auth.cc`, `ControllerHelpers.hpp`) | sharded LRU (list and map of iterators), thread-local last token, Redis keys | generate, verify | Redis | the shared lock is given up for the exclusive one; every hit extends the entry | no iterator dangles; an idle token is asked of Redis again |
| Login and rate limiter (`utils/RateLimiter.cc`) | counters with expiry | checkAndRecord, reset, allowConsume | Redis | two keys per login | no more attempts than the limit per window |
| Registration by mail (`Handlers.cc`, `EmailVerificationDAO.cc`) | codes, users | send code, register | two connections, AeroQueue | a code checked, used and marked on different connections | a code registers one account |
| Background threads and shutdown (`BackgroundService.cc`, `main.cc`, `SystemController.cc`) | `running`, threads | start, stop | all of the above | joins of sleeping threads, order of the teardown | shutdown ends, and nothing is used after it is closed |
| Async log (`src/Log.cc`) | double buffers, flush thread | append, flush, stop | file system | stop against the flush thread | lines reach the file in order |

Pure code (configuration, validation, password hashing, parsing of
X-Forwarded-For), the SMTP dialogue, the metrics, libvips calls, controllers
and the web front end keep no shared state worth a model or only wrap the above.

## Plan

1. `ConnectionPool` with its abstract specification `ConnLease`: everything else
   blocks on it.  **Done, proved.**
2. `AeroQueue` with `TaskOnce`.  **Done, proved.**
3. `MetaCache`: one file's row and its cached hash.  **Done, proved.**
4. `ViewSync`: counters, key set, rounds, restart.  **Done, proved.**
5. `FileStore`: rows, objects, queued deletions, quota.  **Done, proved.**
6. `MultipartUpload`: admission, chunks, completion, cleanup, sweep.  **Done, proved.**
7. `ListCache`: the pages of `handleListFiles` against `invalidateUserFilesCache`,
   with `Watermark` composed in `FileCopies`.  **Done, proved.**
8. `TokenCache`: the caches in front of the token keys.  **Done, proved.**
9. `Shutdown`: the queue inside the process, with the periodic threads and the
   teardown.  **Done; the safety part proved.**
10. Left: `EmailRegistration` (a code checked on one connection, used on a second
   and marked on a third), the rate limiter with login, the Redis pool as a second
   instance of `ConnLease`, the log's buffers, thumbnails.

Instances stay at two or three actors, one or two keys and counters capped at
two or three.  The theorems planned are, per module, the types, the main safety
invariant by an inductive strengthening, and a refinement where there is an
abstract specification.

## Layout and conventions

Each component has one module with its state, actions, properties and the
mutants that the properties must catch (an operator commented "Mutant:" precedes
the definition it stands for and is used nowhere else), an `MC` module with one
configuration per run, and a `...Proofs` module.  `ListCache` and `Watermark`
are checked and proved about in their composition `FileCopies`, `AeroQueue` in
`Shutdown`.  A step is what the code does
between two points where somebody else can act: one remote command, or what is
done under one lock.  A remote command may fail; a failed write may have been
done.  History variables (marked so) record what happened; no guard reads
them except the caps on the number of failures and, in `FileStore`, the choice
of the ids that a client knows.  In `TokenCache`, `known` says which strings a
client can present.

## The modules

### ConnectionPool, ConnLease

`ConnLease` says what the pool promises: a connection is spare or leased to one
thread, at most `PoolSize` at a time.

`ConnectionPool` models `getConnection` (104-153), `releaseConnection`
(155-178) and `close` (180-191) step by step.  `pc[t]` is where thread `t` is:
in its own code (`client`), blocked on `cv_` (`asleep`), woken or timed out but
without `mutex_` yet (`woken`, `expired`), validating a popped connection with
`mutex_` held (`validate`), at the head of the retry loop (`retry`), in
`createConnection` without the mutex (`create`), or between the unlocked test of
`stopped_` and the locked push (`push`).  `idle` is `connections_`, `hand` the
pointer a call works on, `held` what callers own.  `age` says whether
`lastCheck` lies within the 30 s after which a connection is pinged; returning a
connection stamps it as well, so one that is used often is never pinged.  The
environment drops single connections, takes the server down and up, and lets
time pass.

| Run | Shows |
|---|---|
| `pool` | three threads, pool of two, one retry, up to two connections per thread, close at any time: `NoSharing`, `LiveBounded`, `NoLostWakeup`, `AfterCloseOnlyRetries`, the refinement `LeaseSpec`, and that every call returns although each thread may hold what another waits for |
| `pool_recover` | violated: after an outage the pool may stay empty for ever (`PoolRecovers`) |

Three threads are one that sleeps, one that takes the connection first and one
that releases; a pool of two is the smallest in which nesting can block all.

*Proved* (`ConnectionPoolProofs`), for any number of threads, any pool size and
number of retries.  `Control` (mutex, hand and program counter agree,
of which `CallDiscipline` is a part) is inductive with the types.  `Placed` adds
that no connection is in two places and that the connections open plus the threads that lost one never exceed
`PoolSize`: a thread opens a connection only after it lost one, which is why
the bound holds across the unlocked `createConnection`.  `NoLostWakeup` needs
that a release wakes one sleeper per queued connection.  A consequence: the
queue is never full when a connection comes back, so the branch of
`releaseConnection` that closes a surplus connection and `maxPoolSize_` are
never used.  The refinement theorem follows from these invariants.

That argument is a fact about single steps (`Moved`: the connections open plus
those being replaced never become more), and it proves two action properties that
no run lists.  `CapacityNeverGrows` says so outright, and `DrainedForGood` is what
it means at zero: from there no step of callers, server or clock gives anyone a
connection again.  This is the safety core of the counterexample `pool_recover`,
for any number of threads and any pool size: only the fairness of the callers, which
asks for connections for ever, is left to TLC.  `RetriesRunDown` is the variant
behind `CallReturns`: within a call `left` never grows and every pass of the retry
loop uses one.

### AeroQueue, TaskOnce

`TaskOnce`: each task is posted once, started at most once, and none starts after
the queue has been joined.  `AeroQueue` models `post` as enqueue and, separately,
`notify_one` without the mutex; a worker's loop as the test of `stopped_`, the
`try_dequeue`, the task (which may throw), the look at the predicate and the
block on `cv_` with its 100 ms deadline; `stop` as the flag, `notify_all` and
the join.  The predicate and the block are two steps: `notify` may fall between
them since it is sent without the mutex.  `tasks_` is a set, as the lock-free
queue keeps no order between producers, and its `try_dequeue` is atomic.  The
mutex is left out: only workers lock it, and the notifiers' not locking it is
what matters.

The run `queue` checks the queue in its process, as `Shutdown` (next section)
keeps every action of `AeroQueue`.

| Run | Shows |
|---|---|
| `queue_drain` | violated: `stop(true)` drops what is queued (`StopDrains`) |

*Proved* (`AeroQueueProofs`): types, `OnePlace` (each task queued, in one
worker or done; the counters agree), and the refinement, from the
invariant that a joined queue has no worker left.  Two more follow from the same
invariants and are listed by no run: `FewBeginAfterStop` counts what `stop` waits
for (the tasks begun plus the workers about to fetch one never become more, so at
most one task per worker begins after it), and `DroppedForGood` is the safety core
of `queue_drain`: what is queued when the workers have been joined never runs.

### Shutdown

`Shutdown` extends `AeroQueue` with what surrounds it in `main.cc`: the flag
`running`, which only `signalHandler` clears; drogon, which returns to `main`
after a signal or after `/api/shutdown`; the threads of `BackgroundService`
(`bg`), which look at `running` when their wait is over and after each round;
and the teardown `JoinPeriodic`, `StopQueue`, `ClosePool`, `Exit` in `main`'s
order (`stage`).  Nobody notifies the condition variables the periodic threads
wait on, so a signal is noticed at the next timeout, up to an hour later.
What drogon's threads do once `run` has returned is not in the source; they may
post until the process ends.  They use the connection pool as well, and whether a
request still has a connection when it is closed depends on drogon: `ClosedLast`
speaks of the workers and the periodic threads only.  `main.cc` registers its
signal handler before `app().run()` (35-36); that drogon does not put one of its own
in its place is assumed (see below).  A round's content is in `ViewSync` and `MultipartUpload`.

| Run | Shows |
|---|---|
| `queue` | two workers, three tasks, a periodic thread, a signal or `/api/shutdown` at any time: `OnePlace`, the refinement `OnceSpec`, `EveryTaskRuns` unless the queue is stopped; `ClosedLast` (no task runs and no periodic thread is left when the connection pool is closed); `OnlySignalEnds` (after `/api/shutdown` alone the process stays in the join of the periodic threads); `ShutdownEnds` (after a signal it ends) |

Two workers and three tasks give each worker a task with one left over.  One
periodic thread suffices because the threads only share `running` and `main`
joins all of them; the theorems hold for any number.  Deadlock is not checked:
after the exit nothing is left to do.

*Proved* (also in `AeroQueueProofs`): every behaviour of `Shutdown` is one of
`AeroQueue`, so what is proved of the queue holds in the process; the types;
`ClosedLast`, from the order of the teardown and the invariant that a joined queue
runs nothing; `OnlySignalEnds`, from the fact that a periodic thread only ends
when `running` is false; and `StillAfterClose`, the action property behind
`ClosedLast`: once the pool is closed, no task and no periodic thread takes a step,
whatever is posted or signalled.

### MetaCache, MetaAnswers

One file: its row, the Redis hash `file_meta:<id>` as the fields that decide an
answer (`file_id`, `user_id`, `is_public`, `__null__`), whether it has an expiry,
and the lock key.  Callers run `get` and then answer, toggle, delete or
batch-delete; uploads `save`.  Each HSET of `hsetex` is a step, so partial and
mixed hashes arise, and `Parse` is `hashToMeta` with its defaults.  Every Redis
command may fail.  An UPDATE or DELETE that reports a failure may have been done:
the row has changed and nothing is purged (`WriteLost`).  A row that cannot be
fetched once its query has run, or is cut short, is cached as missing (`Misread`).
`missed` records that a purge was left out in this way, failed, or found a caller
that had read another row and was about to write it; it ends when the hash is gone
and no such caller is left, so it never excuses more than the entry concerned.
`broken` records that a connection broke inside the pipeline of `hsetex`, after
which an entry may stay without an expiry, until it is purged or written to its end.
A caller forgets what `get` gave it when it has used it for the last time
(`Forget`), as the code's local variable goes out of scope.

`MetaAnswers` adds two history variables and no step: what the row was before the
changes whose purge is still due (`unpurged`), and what a `get` in progress may
answer from (`seen`): these values and the row since the `get` began.

| Run | Shows |
|---|---|
| `cache` | two callers: `EntryExpires`; `AnswersFresh`: unless a purge was missed, a `get` shows a file only if MySQL had it while the `get` ran, and as public only if it was, or if the change that ended this had not purged when the `get` began; `CacheHeals`: whatever was missed, a file that stays deleted or private is in the end not shown as there or public, nor one that stays as missing, unless its row time and again cannot be fetched or connections break in the pipeline |
| `cache_toggle` | violated: a successful toggle may leave the file as it was (`ToggleFlips`) |

Files share no key, so one suffices; two callers are one that changes and one
that writes an older row, and mixed hashes outlive both.

*Proved* (`MetaCacheProofs`), for any number of callers: types, `EntryExpires`,
`CoherentUnlessMissed` and `AnswersFresh`.  The strengthening for the third says:
unless a purge was missed, either one is due, or hash, row and every pending write
agree; `missed` ends only in states where nothing older than the row is left.
It says nothing while a purge is due, which is when an answer may be old;
`AnswersFresh` closes that gap with two invariants over the history, which begins anew after a
missed purge.  `Covered`: whatever the hash or a pending write shows is the row's or in `unpurged`.
`Following`: all of that, and what a `get` itself is about to write, is in the
`seen` of every `get` in progress.  `MixedHash` is about the conversions alone:
whatever writers a hash is mixed of, half-written or not, it shows a file, or a
public one, only if one of their rows was; a whole one shows its row.  That the history
restricts nothing is a theorem (`AnswersKeepCache`), so all that is proved of
`MetaCache` holds with it; the converse, that every behaviour of `MetaCache` has
such a history, holds because each step determines the new values.

### ViewSync, ViewLedger

`counter[f]` is `file_views:<id>`, `keys` the set `file_views_keys`, `pending`
the SADDs that `fileAccessHandler` leaves to the task queue, `viewCount` the
column in MySQL.  The thread of `BackgroundService` collects the keys, reads
each counter, commits the sums in one transaction, deletes each counter and
then the set.  Every one of these commands is a step, so views and SADDs fall
between any two of them.  With `Faults`, connections break, the transaction is
refused, its commit is lost unnoticed, and the process restarts.  `viewed`
counts what users did; `raced` the files viewed, or entered in the set, inside a
round's window; `fault` a failure after which counts cannot be right.

`ViewLedger` is what a reader of `view_count` may rely on, with no counters, keys
or rounds: the number never goes down and never exceeds the views there were,
until a failure has made it doubtful.

| Run | Shows |
|---|---|
| `views` | two files, two views each: the refinement `LedgerSpec`, `Conserved` (views in MySQL and Redis add up outside the window), `Tracked` (no counter is forgotten when the set is deleted), and `ViewsReachMySQL` once failures end |
| `views_window` | violated: without any failure, views inside the window are lost (`ViewCountIsTrue`) |

Two files are one in the round and one entered during it; two views are one
before the GET and one after.  Failures are followed up to the first that
counts wrongly, as nothing is claimed after it.  Deadlock is not checked: users
may stop viewing, and the bound makes them.

*Proved* (`ViewSyncProofs`): types, `Conserved`, `Tracked`, `NeverOvercounted`
(no view is counted twice before a failure past the commit) and the refinement,
for any files and any number of views.  `Books` is inductive: per file, MySQL and Redis
together hold what was viewed, plus what was committed and is still to be
deleted; during a round `got` is what the counter had, unless raced; and a
counter that is not zero has its key in the set, in the round or queued.

### FileStore

The files of one user.  `rows` is the table, `objects` the bucket, `due[f]` the
deletions of `f`'s object queued in `AeroQueue`; each request has a step and the
files it works on.  `Upload`, `Put`, `Save`, `Undo` are `handleUpload` and the
end of a multipart upload; `RequestUrl`, `ClientPut`, `Confirm`, `ConfirmSave`
the presigned upload; `Delete`, `BatchSelect`, `BatchErase`, `Post` the
deletions.  Each write is done, not done, or done with its answer lost, and the
process may restart.  `torn` records files that such a failure left half done:
these are exactly the points where the code ignores a result or where MySQL and
MinIO would need a common transaction.  `deleted` records files whose row was
deleted once, which matters for ids of presigned uploads: their URL stays valid,
and they can be confirmed again while the deletion is queued.

| Run | Shows |
|---|---|
| `store` | two requests at a time, three files, quota of one: `RowHasObject`, `ObjectAccounted`, `QuotaOvershoot` |

Bounds: `MaxDue` = 1 deletion of a file queued at a time (a second is an
idempotent repeat), `MaxTorn` = 1 file hit by failures, which still meets a
second file that is not.  Three files and a quota of one let the overshoot occur
and separate the right quota check from a stale one.  Requests and files are
interchangeable and the run has only invariants, so symmetry is sound.  Deadlock
is not checked: ids run out.

*Proved* (`FileStoreProofs`), for any number of requests and files, any quota
and bounds.  `Intact`: a file that no failure hit and nobody deleted has its
object from `save` on, no deletion is queued for it, and nobody is about to undo
it.  `AllAccounted` adds where an object without a row is about to be removed.
`Budget` counts the checked rows together with the uploads still under way:
fewer than `Quota` plus one for each request that could have passed the check
before the others' rows were there.  `DeletedStays`, an action property that no run
lists, says that a deleted file only comes back when somebody confirms it; it rests
on `Young`: until its row is there, an upload has its id to itself, also when a
failure has hit the file.

### MultipartUpload

One upload: its key `upload_active` (`upload_owner` lives and dies with it), its
entry in `active_multipart_uploads` (`tracked`, `old`), the chunk objects, the
queued deletions, and the rows saved from it.  Requests overlap, as clients
retry: `Chunk`/`Put`; `Complete` through `Exists`, `Purge`, `Compose`, `Save`,
`Forget`, `Untrack`, `Post`; `Cleanup` through `Wipe`, `Unwatch`, `CloseUpload`;
and the hourly `Sweep`.  `stray` records chunks put when no request would come
for them any more, `overlap` that two completes were in progress at once, `lost`
the rows among `files` whose save reported a failure, so that the complete ended
with an error and may be repeated, and `fault` the kinds of failures that happened.

| Run | Shows |
|---|---|
| `multipart` | two requests at a time, two chunks, one kind of failure: `ChunkTracked`, `OneFile`, `ChunksGo` |

Two chunks are needed for a cleanup that has passed one of them; two requests
for every pair of handlers; `MaxFiles` = 2 is one more than right.  The sweep is
strongly fair because `BackgroundService` starts it each hour on a thread of its
own; expiry and age come by time.  Deadlock is not checked: an upload ends.
Clients are assumed to send back the number of chunks that `init` gave them; what
happens otherwise is listed under the hazards.

*Proved* (`MultipartUploadProofs`): `ChunkTracked` from `Watched` (a chunk behind
a cleanup or sweep is stray or hit by a failure; any other is tracked or its
deletion due) and `OneFile` from `Single` (at most one complete is in progress,
and once its save has succeeded it still has to delete the key or the key is gone).
A complete that runs alone is thus safe against any number of repeats; two at
once are not, and `OneFile` says exactly that.  How bad it gets is `FilesBounded`,
which no run lists: besides the rows in `lost`, never more files than there are
requests at a time, as long as the key is deleted in the end.  Its invariant
`Shares` counts: while the key is there, each request whose save has succeeded is
about to delete it; once it is gone, files and completes still under way together
are at most as many as requests.  The rows in `lost` are no file to anybody: the
composed object is deleted when a save fails (`FileStore`, `RowHasObject`).

### ListCache, Watermark, FileCopies

`ListCache` has one page of one user's list: its key (`page`), whether the
index set `user_files_idx:<user>` has that key, and whether the index may expire
before the page.  A list is `Get`, `Select`, `SetPage` (SETEX), `AddIndex`
(SADD), `RenewIndex` (EXPIRE); a change is `Change`, then `Members` (SMEMBERS),
`DropIndex` and `DropPages`.  Each may fail.  A query that fails yields an empty
list, which the code caches for 30 s like any other.  `tainted` says that the page
was written by a list that overlapped a change, at any moment from its GET to its
SADD, or that a command on it failed.

`Watermark` has one image: the watermark in its row, the original, and the copy
`<id>_watermark`.  An access reads the row, looks for the copy and draws it if it
is missing; the two watermark handlers delete the copy and then update the row; a
deletion takes the row and posts the clean-up; a confirm of the same id may bring
the row back, without a watermark, before that has run (`Restore`).  `stale` is the
same kind of history: the access that drew the copy met a change, a clean-up failed
or was lost in a restart, or the row came back while the old copy was there.

`FileCopies` composes the two: a thread runs one handler at a time, a handler
that set a watermark or deleted the file goes on to `invalidateUserFilesCache`,
and the page shows the file while there is a row.

| Run | Shows |
|---|---|
| `copies` | two threads, two watermarks, a page that shows the file in one of two ways or not at all: `PageCoherent`, `CopyCurrent`, `NoOrphanCopy` |

Two threads are one that lists or accesses and one that changes; a third could
only repeat one of these, and the theorems hold for any number.  Threads, marks
and visible contents are interchangeable and the run has only invariants, so
symmetry is sound.  What the properties exclude is what the code does not handle:
it never looks again after it has read, so a list or an access that overlaps a
change may leave an old page for up to 30 s, and an old copy until the next
change of the watermark.  What they show is that nothing else goes wrong.  Nor is
the page gone whenever an invalidation returns: an earlier one may have taken the
index and not yet deleted the page, which is why `PageCoherent` speaks of any
purge under way (`Purging`) and not of the change's own.

*Proved* (`FileCopiesProofs`): the composition refines `ListCache` and
`Watermark`, the types, and the three invariants.  For the page the strengthening
says where a key can be while it is not in the index: in the hands of a list
before its SADD, or of a change that has read it and will delete it.  For the
copy it says that an access not marked `late` has read what the row still has
while no change is between its two steps, and that behind a change which has
still to update the row there is no copy but a `stale` one.

### TokenCache

One shard of the cache in `Auth.cc`: the list, the map of iterators into it, and
`expire_at`; the thread's own last token (`ControllerHelpers.hpp`); and the Redis
key.  Each critical section is one action and each Redis command too.  A hit
slides `expire_at` under the shared lock and moves the node under the exclusive
one; in between the entry may go, and `cache[token]` then makes a null iterator
(`crashed`).  Two misses of one token push two nodes, of which the map has the
later, and erasing the older takes the map's entry; this is modelled as it is.
Time goes in ticks of 30 s.  `quiet[k]` counts the ticks since `k` was last found
good.

| Run | Shows |
|---|---|
| `tokens` | two threads, two tokens, a shard for two, four nodes: `MapInList` (no iterator dangles), `CrashNeedsFullOrStall` (the null iterator needs a shard that was full, or a thread held up for a minute between its two locks), `IdleTokenAsksRedis` (a token unused for a minute is found good only on the word of Redis) |

A capacity of two makes a shard full with the tokens at hand; four nodes allow two
for each token.  `Node` bounds the list: an insert that finds no free node is not
taken.  All sets are interchangeable, hence the symmetry (the action property
quantifies over tokens and threads, so it is symmetric as well).

*Proved* (`TokenCacheProofs`): types and the three properties, for any capacity,
times and numbers of threads and tokens.  `MapInList` rests on lemmas about the
operators on a shard: erasing nodes together with the map's entries of their
tokens, and pushing or moving a node, keep list and map in agreement (`Sound`).
The other two follow from bounds on the times (`Timed`): an entry outlives the
last good use of its token by `CacheTtl` at most, a remembered token was good
when it was remembered, and, as long as the shard has never been full, the entry
a thread is about to move is there and lives `CacheTtl` from the hit on.
`OnlyIssuedTokens`, an action property that no run lists, says that only a token
that a login has answered is ever found good: `Checked`, a part of the inductive
invariant, keeps unknown tokens out of the map and out of the hands of a thread
past its question to Redis.

`revokeToken` has no caller, so a token ends only when its key expires.

## Fairness and assumptions about the environment

Weak fairness of each thread's own steps, since the operating system runs every
runnable thread; strong fairness where a thread competes for `mutex_`, which
others may take in between; weak fairness of timers, as `wait_for` has a
deadline, and of Redis' expiry; strong fairness of the hourly sweep;
weak fairness of `main`'s teardown and of the periodic threads' waits and rounds.  Nothing is
assumed of clients or of failures, except that `ViewsReachMySQL` says what
happens once rounds stop failing.  That a remote call ends is an assumption on
the services: MySQL has only a connect timeout, Redis and MinIO calls have none.
That a task ends is an assumption on what is posted (`TasksEnd`), and that a
round of a periodic thread ends is one on the services it calls.  Nobody has to
send a signal.  `ShutdownEnds` assumes that the handler `main.cc` registers is the
one that receives it: it is registered before drogon's `run`, whose own handling of
signals is not in the source; were it replaced, a signal would end like
`/api/shutdown`, in the join that `OnlySignalEnds` describes.

The assumptions on constants are that the sets of threads, tasks, requests, files
and nodes are finite where they are counted, that sizes, times and bounds are
natural numbers (`PoolSize`, `Parts`, `Quota`, `Capacity` positive), that the
thread's own cache does not outlive the shard's (`LocalTtl <= CacheTtl`, 30 s and
60 s in the code), that an empty list is a list, and that `NoConn`, `NoTask`,
`NoMark` and their like are none of the values they stand apart from.

## Model-checked only

The liveness properties (`CallReturns`, `EveryTaskRuns`, `ShutdownEnds`,
`CacheHeals`, `ViewsReachMySQL`, `ChunksGo`): fairness and ENABLED are out of
reach of the proof system.  Their safety cores are proved where there is one to
separate: `RetriesRunDown` for `CallReturns`, `OnePlace` for `EveryTaskRuns`,
`EntryExpires` for `CacheHeals`, `Conserved` and `Tracked` for
`ViewsReachMySQL`, `ChunkTracked` for `ChunksGo`.  The disagreements below are
counterexamples found by TLC; for two of them the part that is not about fairness
is proved (`DrainedForGood`, `DroppedForGood`).

The theorems about properties that no run lists (`CapacityNeverGrows`,
`DrainedForGood`, `RetriesRunDown`, `FewBeginAfterStop`, `DroppedForGood`,
`StillAfterClose`, `DeletedStays`, `FilesBounded`, `OnlyIssuedTokens`,
`NeverOvercounted`, `CoherentUnlessMissed`) need no run: what they state follows for
every instance.  Each was checked by TLC on the instance of its module's run before
it was proved (`FilesBounded` with `MaxFiles` above the number of requests).

## Where code and documentation disagree

`PoolRecovers`, `StopDrains`, `ToggleFlips` and `ViewCountIsTrue` each state a
sentence of a header or document, quoted in `PROJECT.json`, that the code does
not keep; a run shows the shortest history.

## Not modelled

- *Registration by mail code, login and rate limiting, the Redis client pool, the
  log's buffers* are left for a later extension; the hazards of the first, third
  and fourth are listed without a property.  Each shard of the Redis pool is a pool
  like `ConnectionPool`, and the failures of its commands are steps of the models
  that use them.
- *Thumbnails*: they are drawn from an original that never changes, so none is
  out of date.  A deletion of the file removes the size 200 and leaves the others
  (listed under the hazards).
- *Answers that clients keep*: images carry an ETag made of the file id and may
  be kept for an hour, a thumbnail for a day, whatever happens to the watermark.
  Only what the server holds is modelled.
- *Hits of the half-second entry `filesLocalCache`* change nothing, but may show
  a page that has just been deleted for that long.
- *An access whose watermark cannot be drawn* serves the original and changes
  nothing.
- *Statistics* (`getStats`, metrics) only read or count; the SMTP dialogue, image
  processing, configuration, parsing, the controllers and the front end keep no
  state that others share; vendored code, tests, the benchmark and the schema are
  not the program's own logic.
