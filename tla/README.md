# A TLA+ development of GridWorldRAG

GridWorldRAG (WinServerRAG in its code) keeps a searchable copy of an
organisation's shared Google drives in PostgreSQL and answers questions about it
over MCP. This directory holds TLA+ models of the code under `src/`, TLC
configurations that check them on small instances, and proofs that TLAPS checks
for every value of the constants. Paths below are relative to the directory
that holds `src/` and `tla/`; a path such as `src/src/db.py:336` is a line of
the repository's `src/db.py`.

## 1. The system

| Component | Code | State it keeps | Interacts with |
| --- | --- | --- | --- |
| Build daemon, manager thread | `rag_daemon.py` `main`, `_manager_iter` | `_workers`, `_paused_flag`, `_disk_low_flag`; a progress through each iteration | reads `fd_registry` and `daemon_workers`, fills the task queue |
| Build daemon, worker threads | `rag_daemon.py` `_worker_loop`, `_handle_*` | one task each, one database session each (which may hold advisory locks) | take tasks, put tasks, call the Drive API, write all tables |
| Task queue | `rag_daemon.py` `_queue`, `_queue_counts` | tasks first in first out, a counter of file tasks per drive | shared by the manager and the workers |
| Registry and build lifecycle | `db.py`, `schema.sql` | `fd_registry`: enabled, state, `rotate_token`, `pending_rotate_token`, `cancel_requested`, `failed_files`; one schema of documents per drive | daemon, control API, MCP server |
| Liveness of workers | `db.py` `heartbeat_worker`, `cleanup_zombies` | `daemon_workers` | workers write, manager reads and sweeps |
| Google Drive client | `drive_client.py` | none of its own (the service is external) | workers, control API |
| Control API | `control_api.py` | caches for statistics; pumps | writes `fd_registry`, `daemon_config`, drops schemas |
| MCP server | `mcp_server.py`, `mcp_auth.py` | log of queries | reads the documents in a user's scope |
| AWS bridge and Lambda | `aws_bridge.py`, `infra/aws` | an SQS queue, a DynamoDB table | forwards requests to the MCP server |
| Single-instance lock | `lockfile.py` | a file with a pid | daemon start |
| Backup | `db_backup.py` | dump files | scheduled task |
| Desktop monitor, wizard | `desktop/` | the state of Windows services | control API, `sc.exe` |
| Chunking, embedding, reranking | `indexer.py`, `embedding.py`, `reranker.py` | none | workers, MCP server |

How a build goes. The manager looks every five seconds for enabled drives that
are not being built and queues a `list_full` (no `rotate_token` yet) or a
`list_delta` task. A worker takes it, claims the drive with a session-level
advisory lock, takes a token of the Changes API, enumerates files, stages the
token (`begin_build`), creates the drive's schema and queues one task per file.
Workers index the files. When the counter of the drive is 0 and no worker has
heartbeated on it within a minute, the manager queues `finalize`, whose worker
moves the staged token into `rotate_token` (`commit_build`). Meanwhile
administrators enable, disable, sync, rebuild and delete drives through another
process, workers die or hang, the manager sweeps up after them, the daemon is
restarted, and users edit files.

What is hard about it:

* every handler is a sequence of transactions, and everything else interleaves
  with them: rows read at the start of a handler are stale at its end;
* completion is inferred (a counter, a heartbeat window), never reported;
* the queue is in memory, the states it explains are in the database;
* locks belong to sessions, not to tasks;
* a worker that is declared dead may still be running.

What makes each component correct:

* queue: counters agree with the queue through every drain;
* listing: at most one per drive; the token is taken before what it vouches for;
* cursor: committed as staged, never moved back except by a rebuild or removal;
* build: ends, whatever dies; commits nothing that is still queued;
* index: loses no change; catches up when left alone;
* pause and cancel: take effect, and hold;
* control API: an operation of several transactions reads as one; a pause
  request answers what it did; the caches settle on what the daemon obeys;
* event feed: a subscriber gets every event once and in order; count pump: one
  task per drive, and no drive starves the others;
* documents: overlapping workers leave the last version whole; a text is cut
  without gaps into chunks that fit; a listing of many pages is worth as much as
  one moment;
* search: a call sees no drive its user was not granted and misses none it had;
* bridge: nothing is dropped unexecuted, nobody hears a second execution, what
  is lost is reported, nothing is left behind;
* lock: two daemons never run together, a dead one never keeps the next out;
* backup: failing runs never cost the newest complete dump.

## 2. The modules

| Module | What it models |
| --- | --- |
| `Domain` | the identifiers: drives, files, the NULLs |
| `GDrive` | the external change log of each drive and `drive_client`'s queries on it |
| `Registry` | `fd_registry` and the per-drive schemas; one operator per transaction of `db.py` |
| `TaskQueue` | `_queue`, `_queue_counts` and the drain loop |
| `ChangeCursor` | abstract: what the pair (`rotate_token`, `pending_rotate_token`) promises |
| `RagDaemon` | the daemon, composed of the above with the drive endpoints of the control API, faults and users |
| `AwsBridge` | the Lambda's handler, the SQS queue, the answer table, the bridge's loop; discrete time |
| `SearchScope` | accounts, grants and schemas as administrators change them, under tool calls that read them statement by statement |
| `PauseControl` | the pause switch: `daemon_config['paused']`, its copies in the statistics cache, the requests that cross |
| `EventFeed` | `daemon_events`, the event pump, the web sockets' queues |
| `CountPump` | the count pump, its semaphore and tasks, counts by hand |
| `LockFile` | `lockfile.acquire` and `release`, one action per call of the operating system |
| `ChunkStore` | the statements of overlapping transactions on one file's chunks under READ COMMITTED |
| `Chunking` | the generator `chunk_text`, one action per yield or buffered paragraph |
| `Backup` | one run of `db_backup.py` after the other: dump, copy, pruning |
| `DrivePages` | `list_files_in_drive` and `list_changes` page by page, with retries, while users edit; over `GDrive` |
| `MCRagDaemon`, `MCAwsBridge`, `MCSearchScope` | what TLC needs; the `.cfg` files give the constants |
| `MCServices` | the eight modules `PauseControl` to `DrivePages`, side by side |
| `RagDaemonProofs`, `LossProofs`, `CursorProofs` | theorems about `RagDaemon`; the second and third extend the first |
| `BridgeProofs`, `ScopeProofs` | theorems about `AwsBridge`, `SearchScope` |
| `HostProofs` | theorems about `LockFile`, `Backup` |
| `ControlApiProofs` | theorems about `PauseControl`, `CountPump`, `EventFeed` |
| `DocumentProofs` | theorems about `DrivePages`, `ChunkStore`, `Chunking` |

`RagDaemon` composes the modules before it. The others stand by themselves
because their state is theirs: the bridge reaches the tools only by calling
them, the pause flag reaches the daemon as one row (`SetPaused` in `RagDaemon`),
and the registry appears in `SearchScope` as two sets, `registered` and
`built`. `ChunkStore` and `DrivePages` look inside single steps of `RagDaemon`: the
transaction of `FileUpsert` or `DeleteChunks`, and the query of `ListFiles`.

### How RagDaemon corresponds to the code

A worker is a program counter `pc` with the locals of its handler; each action
is one transaction, one Drive API query or one queue operation:

| Handler | Actions |
| --- | --- |
| `_worker_loop` | `Take`, `GetTimeout` (the idle heartbeat); `TaskFails` (a database error ends the task) |
| `_handle_list` | `ListOpen`, `ListClaim`, `ListToken`, `ListFiles`, `ListBegin`, `ListSchema`, `ListPut`, `ListDone`; `ListApiFails`, `ListDbFails` |
| `_handle_file` | `FileStart`, `FileFetch`, `FileUpsert`; `FileFails`, `FileEmpty` (no text: an unsupported type, a spreadsheet that cannot be opened) |
| `_handle_file_delete` | `DeleteStart`, `DeleteChunks` |
| `_handle_finalize` | `FinalizeStart`, `FinalizeEnd` |
| `_manager_iter` | `MgrRefresh` (pause flag, first reading of the rows), `MgrCancel`, `MgrDrain`, `MgrReread`, `MgrList`, `MgrFinalize`, `MgrDone`; `MgrFails` (a database error ends the iteration) |
| `main` | `Start`, `Spawn`, `CleanupZombies`, `DiskCheck` |
| control API | `Enable`, `Disable`, `SyncNow`, `Register`, `Rebuild` and `Delete` (each a `DropFirst`, then `ApiNext` steps), `SetPaused` |
| faults | `GoStale` (no heartbeat for 60 s, for 300 s), `Die` (a worker's connection dies), `Crash` (the process ends) |

Choices worth knowing:

* A token is the position of the change log; the version of a file is the
  position of its last change, so "indexed" means "this version's chunks are
  stored".
* `stuck` is the set of drives whose advisory lock its holder can no longer
  release: PostgreSQL counts how often a session has taken the lock, and after
  a failed transaction one release is missing.
* The rows of `list_fds` do not contain `cancel_requested`, so the test at
  `src/src/rag_daemon.py:629` never finds a request made; `MgrCancel` requests
  at every iteration.
* The age of a heartbeat has three values, because the code compares it with 60
  and 300 seconds. `NOW()` is the start of the manager's transaction, a
  difference these ages absorb.
* Merged into one step: reading the row and the cancel flag in `ListOpen`; the
  claim and the first heartbeat in `ListClaim`. Nothing the model tells apart
  can happen between them.
* Also merged: the count and the put of a task (`Enqueue`), the get and the
  decrement (`Take`). The code counts before it puts and decrements after it
  gets, so between the halves the counter is only greater than the queue. The
  manager's test for a finalize (`Quiet`) alone reads it, and a counter that is
  too great makes it wait for the next iteration, as does a put that comes just
  after it. By the same order the clamp at 0 (`src/src/rag_daemon.py:187`) is
  never reached.
* `Unsupported` holds the files whose type is in `SKIP_MIME_TYPES`
  (`src/src/drive_client.py:98`): nothing is stored for them and no failure is
  recorded.
* A failing reading of the pause flag leaves the flag as it was
  (`src/src/rag_daemon.py:611`) and aborts the transaction, so `list_fds` fails
  next and the iteration ends where it began: a stutter. `MgrFails` is a failure
  after that.
* A graceful stop is `Crash`: what it leaves in the database is the same.
* `failed_files` is a set; the JSON array may repeat an entry.
* The rollback inside phase 2 of `cleanup_zombies` (a schema dropped between two
  of its statements) is left out.

### How the other modules correspond to the code

| Code | Actions |
| --- | --- |
| `mcp_handler.handler` | `Reject`, `Notify`, `Request`, `RequestFails`; the loop: `Poll`, `DeleteAnswer`, `GiveUp`, `LambdaFails`; `Kill` (AWS ends a hanging function) |
| `aws_bridge.main` | `Receive`, `Dispatch`, `PutAnswer`, `DeleteMessage`, `Drained`; `SigTerm`, `Crash`, `Start` |
| SQS, DynamoDB (external) | `Reappear`, `Redeliver`, `DropMessage`, `ExpireAnswer`, `Tick` |
| `control_api` users, scope | `Create`, `DeleteUser`, `PasswordCheck` and `PasswordUpsert`, `ScopeCheck` and `ScopeSet`; `Seed` (`db_init`) |
| drives, as the tools see them | `Register`, `Build`, `DropSchema` (rebuild or removal), `Unregister` |
| `mcp_server` tools | `ArriveHttp`, `ArriveBridge`; `ResolveJoin`, `ResolveSchema`, `ResolveEnd` (the scope: a join, then a query per drive); `SearchAll`, `ListScoped`, `ScanDrive` and `ScanEnd` (lookup and stats); `Log` |
| `db.set_paused`, its endpoint | `Begin`, `SetRead`, `SetWrite`, `PushToCache`, `Note` |
| `_stats_pump`, start | `PumpFetch`, `PumpApply`, `PumpFails`, `ApiCrash`, `ApiStart` |
| `log_event`, `_event_pump`, `/api/ws` | `Insert`, `Commit`, `Rollback`; `FeedFetch`, `FeedPush`; `Subscribe`, `SendText`, `Disconnect`, `FeedRestart` |
| `_count_estimate_pump`, `_count_one`, refresh by hand | `CountFetch`, `CountSelect`, `Launch`; `Acquire`, `CountOne`; `RefreshBegin`, `RefreshEnd`; `Discover`, `GrowStale` |
| `lockfile` | `StartDaemon`, `Create`, `WritePid`, `ReadPid`, `ProbePid`, `StatAge`, `Unlink`, `Release`; `CrashDaemon`, `ReusePid`, `FreePid`, `GrowOld` |
| `db.upsert_file_chunks`, `delete_by_file_id` | `BeginUpsert`, `DeleteRow`, `DeleteEnd`, `InsertChunk`, `CommitUpsert`, `RollbackUpsert` |
| `chunk_text` | `Unlimited`, `Join`, `StartOver`, `FlushBuf`, `Window`, `LastBuf` |
| `db_backup` | `BeginRun`, `DumpOk`, `DumpFails`, `CopyWeekly`, `CopyFails`, `PruneDaily`, `PruneWeekly`; `ClockMoves` |
| `drive_client` listings | `OpenFull`, `OpenDelta`, `FilesPage`, `ChangesPage`, `RetryPage`, `PageRaises`, `CloseListing`; `Edit` |

Choices worth knowing:

* Bridge: a call is also its `msg_id`; `taken` counts receipts up to 2. Time is
  discrete and stops for no one but a Lambda at its timeout. A message may come
  back, be dropped or expire at any time after its limit. The queue is a standard one
  (`src/infra/aws/main.tf:24-26`) and may deliver a message twice while it should
  be hidden: `Redeliver`, at most once for each call of `Doubles`; the deletion
  may then leave the message. A `send_message` that the AWS library sends
  again shows the same. The strangers of
  `Strangers` are everything the Lambda turns away.
* Scope: `seen`, `kept` and `torn` are kept for the properties only: what the
  user of a running call was granted at some time, could search all the time,
  and lost a schema of. A statement that has read a table locks it until its
  session is closed, so a `DROP SCHEMA` waits (`ReadLocked`). The bridge does
  not look at `mcp_users`, so a call over it may be of a deleted account; its
  grants are gone, and it finds nothing.
* Scope, `stats`: `total` are the drives whose files it adds up at its end. These
  are the registered ones with the legacy flag `search_enabled`, whoever calls.
  Two endpoints write the flag, builds write the count; both are abstracted to
  any set of registered drives (`ScanEnd`).
* Feed: `late` is the set of events committed after a greater id had been
  fetched. The pump never pushes them; the properties leave them out. The rows of
  a fetch are a set of ids that is pushed least id first, since the query orders
  them by id.
* Backup: a directory is a set of files, the name standing for the time of
  modification too: runs begin in different minutes or write over each other, and
  `copy2` keeps the time of its original.
* Lock: `excused` is set when two starts overlap or a running daemon's lock has
  become 1800 s old. Windows refuses to unlink a file that is open for writing.
* Chunks: a row remembers the transaction that inserted it, as PostgreSQL does:
  a `DELETE` follows a row through updates and skips it once it was replaced.
* Pages: which files a page of `files.list` holds is Google's choice; an edited
  file is not visited twice and none that exists throughout is left out.

## 3. What TLC checks

The first six runs, and those that find the documentation wrong, are
`MCRagDaemon` with the constants of their `.cfg`. `Ops` and `Faults` name the
administrator's operations and the faults that may happen.

| Run | Instance | Properties | Distinct states |
| --- | --- | --- | --- |
| `Listers` | 2 workers, 2 log positions, 2 copies of a list or finalize task | `TypeOK`, `ListExclusive`, `CursorSpec` | 0.7 M |
| `Admin` | 1 worker, 2 log positions, 1 copy of a list or finalize task, disable, rebuild, delete, register | `PendingExact`, `CursorSpec` | 2.0 M |
| `Evicted` | 2 worker ids, a pool of 1, API errors, workers slow enough to be evicted | `ListExclusive`, `IdleHoldsNoLock` | 1.9 M |
| `Lossless` | 1 worker, 2 files, one of an unsupported type, 2 log positions, 2 copies, enable, sync, API errors, failing files | `NoChangeLost` | 1.2 M |
| `Progress` | 1 worker, 3 log positions, pause; fairness | `EventuallyIndexed`, `PauseSettles` | 0.2 M |
| `Recovery` | 2 worker ids, a pool of 1, crashes, deaths, database errors with the tasks they end and the locks they leak, unreadable spreadsheets, low disk; fairness | `BuildEnds` | 0.2 M |
| `Bridge` | a request that may be delivered twice, a notification, a stranger; AWS errors, crashes, stops; fairness | `RerunUnheard`, `NoCallDropped`, `LostCallEnds`, `EventuallyClean` | 0.6 M |
| `Scope` | 2 users, 2 drives, 1 call, 1 two-step request of an administrator at a time | `ForeignOnlySummed`, `NothingMissed`, `ErrorsExplained`, `GrantsOwned` | 1.7 M |
| `Services` | `MCServices`, see below; fairness | `Acknowledged`, `FeedExact`, `OneTask`, `SerialStartsExclude`, `LastWhole`, `ChunksFit`, `NothingSkipped`, `NewestKept`, `Mirrored`, `CacheSettles`, `FeedReaches`, `AllCounted`, `DaemonRuns` | 0.06 M |

Of the daemon:

* `ListExclusive`: at most one worker lists a drive and it holds the drive's
  lock, even when an evicted thread comes back to life next to its successor.
* `CursorSpec`: `RagDaemon` implements `ChangeCursor` under the mapping
  `cursor = rotate_token`, `staged = pending_rotate_token`.
* `PendingExact`: the counter is the number of queued file tasks, also while the
  drain has taken the queue apart.
* `IdleHoldsNoLock`: no lock outlives its listing, whichever way out the listing
  takes. Database errors are left out: a failed statement does leave the session
  with the lock, see below.
* `NoChangeLost`: a committed token never passes a change of an existing file of
  a supported type that is not indexed, not on its way and not recorded as
  failed. It is a statement about one worker without crashes, cancels or
  rebuilds: the comment at `src/src/rag_daemon.py:35` accepts files lost with a
  worker, and the races below are what happens with the others. A file that no
  longer exists may keep its chunks: a full listing deletes nothing.
* `EventuallyIndexed`, `PauseSettles`, `BuildEnds`: liveness. The first is about
  files of supported types. The second wants running builds to end during a
  pause, as the code means them to; that the token moves then is not an error
  to it. `BuildEnds` is
  stated for builds whose schema exists; after a crash between `begin_build`
  (`src/src/rag_daemon.py:300`) and `ensure_fd_schema` no finalize succeeds.

Of the bridge:

* `RerunUnheard`: a call the bridge receives a second time is no longer polled
  for, because the Lambda waits no longer than the visibility timeout. The tool
  does run twice; its client never hears of the second run. It excepts the
  messages that the queue itself delivers again before that timeout; the other
  three properties hold for these too.
* `NoCallDropped`: a message leaves the queue only after its call was
  dispatched, or by its age.
* `LostCallEnds`: the bridge deletes a message also when its answer could not be
  written (`src/src/aws_bridge.py:245`); the client of such a call is told of a
  timeout or an error, never left open.
* `EventuallyClean`: no message and no answer stays, whatever died or gave up,
  even if the bridge is down for ever.

Of the search scope:

* `ForeignOnlySummed`: the chunks, listings and counts a call returns come from
  drives its user was granted at some time during the call. The only thing that
  does not is `total_files_approx` of `stats`, which adds up other drives too
  (`src/src/mcp_server.py:347-350`, against the docstring at line 330). The
  moment is not the call's end: a grant revoked in the middle may still be used.
* `NothingMissed`: a search, a listing or the statistics cover every drive the
  user could search all the while; drives that come and go hide no other.
* `ErrorsExplained`: a tool fails only if a drive of its user lost its schema
  under it. That one failing drive takes the whole answer with it.
* `GrantsOwned`: no grant outlives its account or its drive, so an account
  that a password change brings back has none.

Of the services:

* `Acknowledged`: a pause or resume request answers a state it asked for and
  that held while it ran. `CacheSettles`: once requests and restarts have
  ceased, the cached flag is the one the daemon obeys.
* `FeedExact`: a subscriber's messages are exactly the committed events between
  its subscription and the pump's position, in order, but for late ones;
  `FeedReaches`: each of them arrives as long as it stays subscribed.
* `OneTask`: one count task per drive, exactly those of `in_flight`;
  `AllCounted`: drives that fail do not starve the others.
* `SerialStartsExclude`: while starts do not overlap and no lock of a running
  daemon is half an hour old, the file names the only daemon. `DaemonRuns`: a
  left lock never keeps the daemon out for ever, even if its pid is in use.
* `LastWhole`: the version of a file committed last is stored whole, and what
  else is stored is of a transaction that overlapped with it.
* `ChunksFit`, `NothingSkipped`: over all texts of two paragraphs of up to
  6 characters, all sizes and overlaps up to 4, no chunk is too long, every
  character is in one and chunks are in the order of the text.
* `NewestKept`: failing runs cost the newest complete dump of a day never, that
  of a Sunday only when newer, broken copies fill `backups/weekly`.
* `Mirrored`: the files listed so far are those that exist, for every change up
  to the token, though pages are read one by one and some are asked for again.

Bounds. `MaxHead` bounds the edits of a drive: two positions give a change
before, during and after any step of a listing; the third in `Progress` lets a
change meet a delta listing after a full one. `Evicted`, `Recovery` and
`ZombieReset` have one position, so the files of a drive are chosen at the start
and never edited: they ask what evictions and crashes do between the steps, and
their properties need no second change. `MaxDup` bounds the copies of one
drive's list or finalize task that wait in the queue, two in `Listers` and
`Lossless`, one elsewhere: the code has no such bound, since an iteration every
five seconds adds another copy as long as no worker has taken the first, but a
third copy only repeats what the second does.
One drive is enough for properties that speak of one drive's row, lock and
counter; drives share only the queue and the workers.

`Bridge` keeps the order of the code's durations, in units of time: the Lambda
waits 2 of the 2 of the visibility timeout and is killed at 3, an answer lives
2, a message 3. With the retention of 3 a message can reappear and still expire;
the code's 600 s (`src/infra/aws/main.tf:29`) would only add more of the same
redeliveries. One call of each kind is enough, since calls share only the
bridge, which handles one at a time. `Scope` lets administrators do any number of operations, one two-step
request at a time and the others between any two statements of the call; two
users and two drives tell mine from another's, granted from revoked. The calls are independent of one another except for their locks, and
the proofs cover any number of them.

`Services`: the variable `part`, chosen at the start, names the one module
whose steps are taken; the variables of the others keep one initial value, so
the behaviours are those of the eight modules, one after the other. Two
requests at a time and three in all cross in every way. Three events let two
sessions commit in the wrong order while a third is fetched; a fetch of two rows
and a queue of one reach both limits. Two drives and one permit make tasks wait.
Two processes and two crashes leave a lock to a live, a dead and a reused pid.
Two sessions and three transactions let one meet the rows of two others. Two
paragraphs reach every branch of the chunker. Two daily and one weekly dump in
three minutes fill both directories and fail over full ones. Four edits of two
files with pages of one change fall before, between and after all pages.

Fairness (`FairSpec`). Threads are scheduled (`WF` of each worker and of the
manager), a dead worker's heartbeat grows old (`WF` of `GoStale`), the sweep of
zombies runs every 30 s whenever the manager is between iterations (`SF`: it is
enabled again and again, not continuously), and a request of the control API
runs to its end (`WF`). The service manager restarts the daemon (`Start` is one
of the manager's steps). Faults and users are never fair. `BuildEnds` assumes
that the daemon stops crashing, that workers remain, and that tasks are not lost
to database errors for ever; iterations of the manager may fail, since the sweep
of zombies ends what no finalize reaches.

In `Bridge` time passes, a Lambda ends its waiting or is killed, and AWS drops
what is too old (`WF`). Nothing is assumed of the bridge, which may be down or
stuck for ever, so `LostCallEnds` and `EventuallyClean` rest on the Lambda's and
AWS's limits alone. In `Services` the threads of handlers, the pumps and the
socket handlers run (`WF`); `asyncio.Semaphore` wakes its waiters in turn (`SF`
of `Acquire`); the service manager starts a daemon that ended and a file that
nobody touches grows old (`WF`). Requests, users, writers, disconnections and
failures are never fair.

### Runs that find the documentation wrong

| Run | Says | Happens |
| --- | --- | --- |
| `DisableMidBuild` | disabling a building drive cancels it (`rag_daemon.py:29`) | `set_enabled` overwrites `state` with `disabled`, and the manager looks for `building` |
| `RebuildRace` | a rebuild drops all and lists in full (`control_api.py:331`) | a listing under way stages and commits a token after the drop |
| `ZombieReset` | a stuck build is reset and restarts (`db.py:573`) | a crash between `begin_build` and the put of the file tasks loses them; after the restart a finalize is queued, the sweep resets the drive to `idle`, and the finalize commits the token: the file was never stored, and the next sweep lists from after it |

### Other disagreements with the documentation

These were met while modelling; they follow from the lines given or are
exceptions the properties above name, and have no run of their own.

Of the daemon and the registry:

* A failed statement in a listing leaves the advisory lock with the session:
  the release fails in the aborted transaction (`src/src/rag_daemon.py:320`).
  The drive is listed by no other worker until this one dies, where
  `src/src/db.py:955` says the lock is released by `release_drive`. This is why
  `IdleHoldsNoLock` is checked without database errors.
* A second list task's `begin_build` clears a cancel request
  (`src/src/db.py:347`), and the cancelled build's token can be committed;
  `src/schema.sql:46` says workers check it.
* A finalize is sent while a worker may be minutes into one of the files, or has
  just taken it (`src/src/rag_daemon.py:678`); the comment above it says
  everything is consumed.
* A running build is finalized during a pause, which `src/README.md:192` excludes
  and the comment at `src/src/rag_daemon.py:664` wants.
* Nothing reads `failed_files`, which `src/src/db.py:1047` calls a retry queue; a
  spreadsheet that cannot be opened is neither stored nor recorded
  (`src/src/drive_client.py:444`).
* A delta listing takes the drive's name for the folder path of every file
  (`src/src/rag_daemon.py:292`); a full listing resolves the path.

Of the other parts:

* Lock: two starts that overlap, or one beside a daemon that has run for half an
  hour, can give two daemons (`src/src/lockfile.py:71`; the file's time is never
  refreshed), where `src/README.md:340` promises one.
* Chunks: two overlapping upserts of one file each delete only what they see, so
  chunks of both versions may remain (`src/src/db.py:1190`), against "Atomic
  delete + insert" (`src/src/db.py:1175`).
* Backup: the partial file of a failed dump counts among the seven or four that
  are kept (`src/src/db_backup.py:107`), against `src/src/db_backup.py:6`.
* Chunker: the buffer is not flushed at a heading (`src/src/indexer.py:107`), so a
  chunk may join two sections, against `src/src/indexer.py:88`.
* MCP server: `stats` adds the files of drives outside the caller's scope
  (`src/src/mcp_server.py:349`, against line 330), the exception of
  `ForeignOnlySummed`; the header says that only drives with `search_enabled`
  are searched (`src/src/mcp_server.py:7`), which the grants have replaced;
  `list_drives` answers the caller's scope where its docstring says "global"
  (line 179).
* Pause: a row the pump fetched before a pause may be copied over it
  (`src/src/control_api.py:714`), and the button then shows the old state for up to
  five seconds, against the comment at line 755; two pauses that cross both
  write, and the second replaces the time (`src/src/db.py:942`), against
  `src/src/db.py:890`.
* Users: a password change that crosses a deletion creates the account again
  (`src/src/control_api.py:450`); its grants stay deleted (`GrantsOwned`).
* Feed: an event committed after a greater id was fetched is never pushed, and a
  subscriber dropped for a full queue keeps an open, silent socket.
* Counts: a drive that was counted between the scan and its turn is counted
  again (`src/src/control_api.py:845`).

## 4. What is proved

Every invariant of section 3 and the refinement `CursorSpec`, for every value of
the constants that satisfies the named assumptions. These are weak: the NULLs are
not identifiers, the pool has a worker, the operations and faults are known ones,
bounds and limits are numbers, and sizes and retentions are positive. The two
theorems with hypotheses of their own are `IdleFree` and `NothingLost`.

Of the daemon (`DomainAssumption`, `MaxHeadAssumption`, `RagDaemonAssumption`), in
`RagDaemonProofs`:

* `TypeCorrect`: `Spec => []TypeOK`. `TypeOK` is not inductive: an action that
  dereferences its task's drive needs to know that a busy worker has a task, and
  a file handler a file. `Typed` adds that (`WorkersOK`). One lemma per group of
  operators of `Registry` and `TaskQueue` says that they keep rows and queues
  well formed; the proof has one step per action.
* `Exclusive`: `Spec => []ListExclusive`. `ListExclusive` is inductive on top of
  `Typed`; its heart is `OneMoves`: if one worker moves and touches only free
  locks and its own, the others keep theirs.
* `LocksOwned`, `IdleFree`: a lock that is not stuck belongs to a worker in the
  middle of a listing of its drive (`LockOwned`), so one without a listing holds
  none. Its hypothesis is `"db" \notin Faults`, the only fault that makes a lock
  stuck; with it the property is false, as the first disagreement above tells.
* `CountersExact`: `Spec => []PendingExact`. The counter is a cardinality, that
  of the positions of the queue (and of `keep`, during a drain) with a file task
  of the drive, so the proof needs what `Append` and `Tail` do to that set
  (`FileTasksAppend`, `FileTasksTail`) and no induction.

In `LossProofs`:

* `NothingLost`: `Calm` implies `Spec => []NoChangeLost`, for any number of
  drives, files (of supported types or not), edits and waiting copies of a task.
  `Calm` says that the pool has one worker, that nobody disables, rebuilds or
  deletes a drive, and that only the Drive API and single files fail. TLC finds
  a lost change, or one not yet accounted for between two transactions of a
  request, as soon as any of these is dropped:
    * two workers: the older of two versions of a file that are fetched side by
      side, after a second list task, may be stored last, even without a fault;
    * `disable`: the race at `src/src/db.py:347`;
    * `rebuild`, `delete`: `RebuildRace`, and the rows between the transactions
      of the request, which drop the documents before the token;
    * `crash`, `death`, `db`: tasks die with their worker or with a failed
      statement; `slow`: an evicted worker runs on beside its successor, which
      makes two; `disk`, `sheet`: files are dropped unrecorded.

  `LossInv` is the invariant. `CoveredSettled` says that the last change of an
  existing file of a supported type that a token covers (committed, staged, or
  about to be staged by a listing) is indexed, recorded as failed, or will be
  indexed by a task that is in the queue, in the listing's hands or in a
  worker's. `VersionsFresh` says that what a worker is about to store is the
  last version of a covered file. The rest says what `Calm` gives: one worker
  with a fresh heartbeat (`OneWorker`), no cancelled build (`NoCancels`),
  listings of enabled drives only (`ListsEnabled`), a worker whose place fits
  its task and who puts one task for a file (`LocalsOK`), and delta listings
  that start from the committed token (`Tokens`). The queue is first in first
  out, and a task may be one of several for its file, so what is kept is only
  the existence of one that will index it, with none behind it that undoes it.

In `CursorProofs`:

* `TokensOrdered`, `CursorRefinement`: `Spec => CursorSpec`. The refinement needs
  that a listing about to stage a token stages none that is behind a staged or
  committed one. This is `CursorOrder` (committed <= staged <= log) with
  `TokenFresh` (the token of a listing that holds the lock is at or after both),
  and it is inductive only together with `ListExclusive`: between taking a token
  and staging it, no other listing of the drive can stage. Every step is
  classified (`StepKinds`): it leaves the tokens alone, lowers them, begins a
  build, or extends the log; the invariant and the refinement are then shown
  class by class.

Of the other parts:

* `RerunsUnheard`, `CallsNotDropped` (`BridgeProofs`; `CallsAssumption`,
  `TimesAssumption`, which contains `MaxWait <= Visibility`: without it the
  theorem is false). `Behind` says that the Lambda's clock is ahead of the
  queue's while it polls: a message was hidden no longer than the Lambda has
  waited, so one that came back, or was received twice, did so after a whole
  visibility timeout. A call is deleted only at `delete`, which is reached only
  through `Dispatch` (`Dispatched`).
* `GrantsHaveOwners`, `ForeignSummedAtMost`, `NeverMissed`, `ErrorsAreDrops`
  (`ScopeProofs`; `ScopeAssumption`). `GrantsOwned` is inductive by the foreign
  keys. The other three follow from `ScopeInv`: `CallOK` bounds the locals of
  one call, at each of its statements, by `seen` from above and by `kept` from
  below, and a drive still to be read that has no schema is in `torn`. Steps of
  administrators only widen `seen` and `torn` and narrow `kept` (`WatchKeeps`);
  each statement of a call is then a lemma about that call alone.
* `SerialStarts` (`HostProofs`; `LockFileAssumption`): until the first excuse,
  one process starts at a time, the file is its writer's or its holder's and
  young, and a start that meets a holder reads the holder's pid and gets no
  further than the age (`Deterred`), so it never unlinks.
* `NewestDumpKept` (`HostProofs`; `BackupAssumption`). No file of the daily
  directory is newer than the newest complete dump while a pruning is under
  way, since only a run whose dump succeeded prunes: that dump has none above it
  and is kept. A copy is pruned by runs of other days too; what `BackupInv` keeps
  of a lost one is that `KeepWeekly` newer files stood above it, all broken,
  and a pruning leaves that many of the newest (`NewestRemain`).
* `AnswersTrue`, `OneTaskPerDrive` (`ControlApiProofs`; `PauseAssumption`,
  `CountAssumption`). A running request has always seen the present row
  (`config \in was[s]`), so both what it reads and what it writes qualify. The
  pump's list is disjoint from `inFlight`, since only the pump adds to it.
* `FeedDelivers` (`ControlApiProofs`; `FeedAssumption`): an id is given out
  once (`IdsUnique`); every committed event between the pump's position and the
  greatest id it has fetched is still among its rows or late (`RowsComplete`), so
  the least row is the next event of every subscriber, and greater than all it
  has (`SocketsExact`).
* `ListingsMirror` (`DocumentProofs`; `PagesAssumption`, `DomainAssumption`,
  `MaxHeadAssumption`). Edits happen at the head of the log, ahead of every
  position read so far. `FileOK` says of each file that up to the token the
  mirror is right, and that what the pages read so far say, together with the
  mirror, is right up to the position the listing will vouch for; an edit moves
  the file ahead of both.
* `LastCommitWhole` (`DocumentProofs`; `ChunkStoreAssumption`). `StoreInv`
  accounts for every stored row against the snapshot of every open transaction
  (`Accounted`): a row that is not as the snapshot has it, or that the DELETE has
  passed, is of a transaction that overlapped; and transactions open at the same
  time overlap (`OpenOverlap`). At a commit what is left is the transaction's
  own chunks (`OwnChunks`) and such rows.
* `ChunksBounded`, `TextCovered` (`DocumentProofs`; `ChunkingAssumption`). The
  length of a chunk is the cardinality of its characters plus its separators, so
  `LenOfAppend` gives what one more piece adds without recursion. `Covered`:
  what lies before the generator is yielded or buffered; `InOrder`: the buffer
  comes after every chunk; `Position`: inside a paragraph the buffer is empty.
  A step of the window is never longer than the window, whatever the overlap, so
  the next one begins no later than one past its end.

Only model-checked, because temporal reasoning under fairness is beyond the
prover used: `EventuallyIndexed`, `PauseSettles`, `BuildEnds`, `LostCallEnds`,
`EventuallyClean`, `CacheSettles`, `FeedReaches`, `AllCounted` and `DaemonRuns`.

## 5. What is not modelled

* Text extraction, embedding, reranking and metadata: functions of libraries and
  language models, without state.
* The ranking of search results and the contents of answers; `SearchScope` keeps
  which drives are read.
* Credentials and folder paths of the Drive client; the hourly deletion of old
  events in the daemon.
* The control API's statistics and probes of services, disk and GPU: reads, whose
  only state is a cache with a time limit.
* The desktop monitor and the setup wizard: one user's dialogs over `sc.exe` and
  the control API. The web interface: rendering.
* Configuration, logging, `db_init`, the installer and the build scripts: run
  once, in order.

## 6. Plan

1. *(done)* The build daemon with its queue, registry and drive endpoints; the
   abstract cursor; type correctness, exclusion of listings, refinement.
2. *(done)* The lock, the pause switch, the feed, the counts, the bridge, the
   search scope, chunk storage, chunking, backups, pages; the safety theorems of
   six of them.
3. *(done)* Proofs of the remaining invariants: what a token vouches for, the
   counters, the locks, the stored chunks, the chunker, the backups, the feed.
4. Refinements: `RagDaemon`'s single-step listing and upsert shown to be
   implemented by `DrivePages` and, for transactions that do not overlap, by
   `ChunkStore`.
5. The safety part of the liveness properties: that the conditions they wait for
   stay once they hold, and that nothing but the named steps ends them.
6. `ServiceControl`: the desktop's start and stop of services beside the service
   manager's restarts.
