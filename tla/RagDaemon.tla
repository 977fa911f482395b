----------------------------- MODULE RagDaemon -----------------------------
(***************************************************************************)
(* src/src/rag_daemon.py (v0.4): one manager thread and a pool of worker   *)
(* threads keep an index of shared drives up to date through one task      *)
(* queue.  Each action is one database transaction, one Drive API query or *)
(* one queue operation of a handler; a handler's steps are told apart by   *)
(* the worker's pc.  The operations of src/src/control_api.py that change  *)
(* a drive interleave with them, and so do users editing files.            *)
(***************************************************************************)
EXTENDS GDrive, Registry, TaskQueue

CONSTANTS
    Workers,    \* worker ids; a dead worker's id is not used again
    NoWorker,   \* nobody holds the advisory lock
    PoolSize,   \* DAEMON_WORKER_THREADS
    Ops,        \* the administrator's operations that may happen
    Faults,     \* the faults that may happen
    Unsupported, \* the files whose type is in SKIP_MIME_TYPES
    MaxDup      \* bound: copies of one drive's list or finalize task waiting

AllOps == {"enable", "disable", "sync", "rebuild", "delete", "register", "pause"}
AllFaults == {"api", "file", "sheet", "db", "disk", "slow", "death", "crash"}

ASSUME RagDaemonAssumption ==
    /\ NoWorker \notin Workers
    /\ PoolSize \in Nat \ {0}
    /\ Ops \subseteq AllOps
    /\ Faults \subseteq AllFaults
    /\ Unsupported \subseteq Files
    /\ MaxDup \in Nat \ {0}

VARIABLES
    wk,         \* wk[w]: where worker w is in its task, and its local values
    pool,       \* the ids in _workers
    beat,       \* beat[w]: the row of daemon_workers
    lock,       \* lock[d]: the worker whose session holds d's advisory lock
    stuck,      \* the drives whose lock its holder cannot release any more
    paused,     \* daemon_config['paused']
    pauseFlag,  \* _paused_flag, the daemon's copy of it
    diskLow,    \* _disk_low_flag
    mgr,        \* where the manager is, and its local values
    api         \* the multi-transaction request the control API is in

lockVars == <<lock, stuck>>
workerVars == <<wk, pool, beat, lockVars>>
flagVars == <<paused, pauseFlag, diskLow>>
vars == <<gdriveVars, dbVars, queueVars, workerVars, flagVars, mgr, api>>

ListPCs == {"token", "files", "begin", "schema", "put"}
PCs == {"off", "idle", "dead", "open", "claim", "fstart", "fetch", "upsert",
        "dstart", "delete", "zstart", "commit"} \cup ListPCs

NoTask == [kind |-> "none", drive |-> NoDrive, file |-> NoFile]

Worker == [pc : PCs, task : Task \cup {NoTask}, token : Nat, todo : SUBSET Task,
           version : Nat, cancel : BOOLEAN]

AtQueue == [pc |-> "idle", task |-> NoTask, token |-> 0, todo |-> {},
            version |-> 0, cancel |-> FALSE]

Off == [AtQueue EXCEPT !.pc = "off"]
Dead == [AtQueue EXCEPT !.pc = "dead"]

\* age 0: heartbeat_at within 60 s; 1: older than that; 2: older than 300 s.
Beat == [drive : Drives \cup {NoDrive}, age : 0 .. 2]

IdleBeat == [drive |-> NoDrive, age |-> 0]

Manager == [pc : {"down", "top", "cancel", "drain", "enqueue"},
            cancels : SUBSET Drives, drive : Drives \cup {NoDrive},
            lists : SUBSET Task, finals : SUBSET Drives]

AtTop == [pc |-> "top", cancels |-> {}, drive |-> NoDrive, lists |-> {}, finals |-> {}]
Down == [AtTop EXCEPT !.pc = "down"]

NoRequest == [step |-> "none", drive |-> NoDrive]

\* The type invariant.
TypeOK ==
    /\ GDriveTypeOK
    /\ RegistryTypeOK
    /\ QueueTypeOK
    /\ wk \in [Workers -> Worker]
    /\ pool \subseteq Workers
    /\ beat \in [Workers -> Beat]
    /\ lock \in [Drives -> Workers \cup {NoWorker}]
    /\ stuck \subseteq Drives
    /\ paused \in BOOLEAN /\ pauseFlag \in BOOLEAN /\ diskLow \in BOOLEAN
    /\ mgr \in Manager
    /\ api \in {NoRequest} \cup [step : {"rotate", "abort", "row"}, drive : Drives]

Init ==
    /\ GDriveInit
    /\ reg \in [Drives -> {NewRow, Enabled(NewRow, TRUE)}]
    /\ schema = [d \in Drives |-> FALSE]
    /\ docs = [d \in Drives |-> [f \in Files |-> 0]]
    /\ queue = <<>> /\ keep = <<>>
    /\ cnt = [d \in Drives |-> 0]
    /\ wk = [w \in Workers |-> Off]
    /\ pool = {}
    /\ beat = [w \in Workers |-> IdleBeat]
    /\ lock = [d \in Drives |-> NoWorker] /\ stuck = {}
    /\ paused = FALSE /\ pauseFlag = FALSE /\ diskLow = FALSE
    /\ mgr = Down
    /\ api = NoRequest

-----------------------------------------------------------------------------
(* What the steps below are made of. *)

MyDrive(w) == wk[w].task.drive
MyFile(w) == wk[w].task.file

At(w, pc) == wk[w].pc = pc
Become(w, local) == wk' = [wk EXCEPT ![w] = local]

Goto(w, pc) == Become(w, [wk[w] EXCEPT !.pc = pc])

\* The handler returns: the worker is back at queue.get.
Return(w) == Become(w, AtQueue)

\* An active row of daemon_workers for d, with heartbeat_at = NOW().
HeartBeat(w, d) == beat' = [beat EXCEPT ![w] = [drive |-> d, age |-> 0]]

Release(w) ==
    /\ lock' = IF MyDrive(w) \in stuck THEN lock ELSE [lock EXCEPT ![MyDrive(w)] = NoWorker]
    /\ UNCHANGED stuck

\* inflight_workers_on_drive > 0.
Inflight(d) == \E w \in Workers : beat[w].drive = d /\ beat[w].age = 0

ListsWaiting(d) == Waiting(LAMBDA t : t.kind \in ListKinds /\ t.drive = d)
FinalsWaiting(d) == Waiting(LAMBDA t : t.kind = "finalize" /\ t.drive = d)

-----------------------------------------------------------------------------
(* The worker loop and the list handler. *)

EntryPC(kind) ==
    CASE kind \in ListKinds    -> "open"
      [] kind = "file"         -> "fstart"
      [] kind = "file_delete"  -> "dstart"
      [] kind = "finalize"     -> "zstart"

Take(w) ==
    /\ At(w, "idle") /\ queue # <<>>
    /\ LET t == Head(queue)
           dropped == t.kind \in ListKinds /\ (pauseFlag \/ diskLow)
       IN  /\ MarkConsumed(t)
           /\ IF dropped THEN UNCHANGED wk
              ELSE Become(w, [AtQueue EXCEPT !.pc = EntryPC(t.kind), !.task = t])
    /\ queue' = Tail(queue)
    /\ UNCHANGED <<gdriveVars, dbVars, keep, pool, beat, lockVars, flagVars, mgr, api>>

\* Mutant: the idle heartbeat keeps the drive of the last task.
GetTimeoutKeepsDrive(w) ==
    /\ At(w, "idle") /\ queue = <<>> /\ beat[w] # IdleBeat
    /\ beat' = [beat EXCEPT ![w].age = 0]
    /\ UNCHANGED <<gdriveVars, dbVars, queueVars, wk, pool, lockVars, flagVars, mgr, api>>

\* queue.get timed out.
GetTimeout(w) ==
    /\ At(w, "idle") /\ queue = <<>> /\ beat[w] # IdleBeat
    /\ beat' = [beat EXCEPT ![w] = IdleBeat]
    /\ UNCHANGED <<gdriveVars, dbVars, queueVars, wk, pool, lockVars, flagVars, mgr, api>>

ListOpen(w) ==
    /\ At(w, "open")
    /\ LET row == reg[MyDrive(w)]
       IN  \/ /\ ~row.exists
              /\ Return(w) /\ UNCHANGED reg
           \/ /\ row.exists /\ row.cancel
              /\ Return(w) /\ AbortBuild(MyDrive(w))
           \/ /\ row.exists /\ ~row.cancel
              /\ Become(w, [wk[w] EXCEPT !.pc = "claim", !.token = row.rotate])
              /\ UNCHANGED reg
    /\ UNCHANGED <<gdriveVars, schema, docs, queueVars, pool, beat, lockVars, flagVars, mgr, api>>

\* Mutant: the answer of pg_try_advisory_lock is not looked at.
ListClaimUnchecked(w) ==
    /\ At(w, "claim")
    /\ lock' = [lock EXCEPT ![MyDrive(w)] = w]
    /\ HeartBeat(w, MyDrive(w))
    /\ Goto(w, "token")
    /\ UNCHANGED <<gdriveVars, dbVars, queueVars, pool, stuck, flagVars, mgr, api>>

ListClaim(w) ==
    /\ At(w, "claim")
    /\ IF lock[MyDrive(w)] \in {NoWorker, w}
       THEN /\ lock' = [lock EXCEPT ![MyDrive(w)] = w]
            /\ HeartBeat(w, MyDrive(w))
            /\ Goto(w, "token")
       ELSE Return(w) /\ UNCHANGED <<lock, beat>>
    /\ UNCHANGED <<gdriveVars, dbVars, queueVars, pool, stuck, flagVars, mgr, api>>

Full(w) == wk[w].task.kind = "list_full"

\* A full listing takes its token before it enumerates; a delta listing
\* without a token in its row falls back to a full one.
ListToken(w) ==
    /\ At(w, "token")
    /\ IF Full(w) \/ wk[w].token = NoToken
       THEN Become(w, [wk[w] EXCEPT !.pc = "files", !.token = StartPageToken(MyDrive(w)),
                                    !.task = TaskFor("list_full", MyDrive(w))])
       ELSE Goto(w, "files")
    /\ UNCHANGED <<gdriveVars, dbVars, queueVars, pool, beat, lockVars, flagVars, mgr, api>>

FullListing(d) == {FileTask("file", d, f) : f \in ListedFiles(d)}

DeltaListing(d, token) ==
    {FileTask(IF f \in alive[d] THEN "file" ELSE "file_delete", d, f) :
        f \in ChangedSince(d, token)}

\* Mutant: the lock is held around the Drive API calls only.
ListFilesReleases(w) ==
    /\ At(w, "files")
    /\ Become(w, [wk[w] EXCEPT !.pc = "begin", !.todo = FullListing(MyDrive(w)),
                               !.token = IF Full(w) THEN @ ELSE StartPageToken(MyDrive(w))])
    /\ Release(w)
    /\ UNCHANGED <<gdriveVars, dbVars, queueVars, pool, beat, flagVars, mgr, api>>

ListFiles(w) ==
    /\ At(w, "files")
    /\ IF Full(w)
       THEN Become(w, [wk[w] EXCEPT !.pc = "begin", !.todo = FullListing(MyDrive(w))])
       ELSE Become(w, [wk[w] EXCEPT !.pc = "begin",
                                    !.todo = DeltaListing(MyDrive(w), wk[w].token),
                                    !.token = StartPageToken(MyDrive(w))])
    /\ UNCHANGED <<gdriveVars, dbVars, queueVars, pool, beat, lockVars, flagVars, mgr, api>>

\* Mutant: an early return that skips the unlock.
ListApiFailsLocked(w) ==
    /\ "api" \in Faults
    /\ \/ At(w, "files")
       \/ At(w, "token") /\ (Full(w) \/ wk[w].token = NoToken)
    /\ SetError(MyDrive(w))
    /\ Return(w)
    /\ UNCHANGED <<gdriveVars, schema, docs, queueVars, pool, beat, lockVars, flagVars, mgr, api>>

\* The Drive API fails after its retries: the drive is marked as in error.
ListApiFails(w) ==
    /\ "api" \in Faults
    /\ \/ At(w, "files")
       \/ At(w, "token") /\ (Full(w) \/ wk[w].token = NoToken)
    /\ SetError(MyDrive(w))
    /\ Release(w) /\ Return(w)
    /\ UNCHANGED <<gdriveVars, schema, docs, queueVars, pool, beat, flagVars, mgr, api>>

\* Mutant: a token taken after the enumeration, not before it.
ListBeginLate(w) ==
    /\ At(w, "begin")
    /\ BeginBuild(MyDrive(w), StartPageToken(MyDrive(w)))
    /\ Goto(w, "schema")
    /\ UNCHANGED <<gdriveVars, schema, docs, queueVars, pool, beat, lockVars, flagVars, mgr, api>>

ListBegin(w) ==
    /\ At(w, "begin")
    /\ BeginBuild(MyDrive(w), wk[w].token)
    /\ Goto(w, "schema")
    /\ UNCHANGED <<gdriveVars, schema, docs, queueVars, pool, beat, lockVars, flagVars, mgr, api>>

ListSchema(w) ==
    /\ At(w, "schema")
    /\ EnsureSchema(MyDrive(w))
    /\ Goto(w, "put")
    /\ UNCHANGED <<gdriveVars, reg, docs, queueVars, pool, beat, lockVars, flagVars, mgr, api>>

\* A database error in begin_build or in a later look at cancel_requested leaves
\* the transaction failed, so that the unlock statement fails too: the session
\* keeps the advisory lock, and will hold it once too often whenever it lists
\* the drive again.  ensure_fd_schema rolls back first, and the lock goes.
ListDbFails(w) ==
    /\ "db" \in Faults
    /\ \/ /\ At(w, "begin") \/ (At(w, "put") /\ wk[w].todo # {})
          /\ stuck' = stuck \cup {MyDrive(w)}
          /\ UNCHANGED lock
       \/ At(w, "schema") /\ Release(w)
    /\ Return(w)
    /\ UNCHANGED <<gdriveVars, dbVars, queueVars, pool, beat, flagVars, mgr, api>>

ListPut(w) ==
    /\ At(w, "put") /\ wk[w].todo # {}
    /\ IF reg[MyDrive(w)].cancel
       THEN Become(w, [wk[w] EXCEPT !.todo = {}]) /\ UNCHANGED <<queue, cnt>>
       ELSE \E t \in wk[w].todo :
               /\ Enqueue(t)
               /\ Become(w, [wk[w] EXCEPT !.todo = @ \ {t}])
    /\ UNCHANGED <<gdriveVars, dbVars, keep, pool, beat, lockVars, flagVars, mgr, api>>

ListDone(w) ==
    /\ At(w, "put") /\ wk[w].todo = {}
    /\ HeartBeat(w, MyDrive(w))
    /\ Release(w) /\ Return(w)
    /\ UNCHANGED <<gdriveVars, dbVars, queueVars, pool, flagVars, mgr, api>>

-----------------------------------------------------------------------------
(* The handlers of one file, and of a finished build. *)

FileStart(w) ==
    /\ At(w, "fstart")
    /\ \/ /\ reg[MyDrive(w)].cancel
          /\ Return(w) /\ UNCHANGED <<reg, beat>>
       \/ /\ ~reg[MyDrive(w)].cancel
          /\ HeartBeat(w, MyDrive(w))
          /\ \/ Goto(w, "fetch") /\ UNCHANGED reg
             \/ "disk" \in Faults /\ SetError(MyDrive(w)) /\ Return(w)
    /\ UNCHANGED <<gdriveVars, schema, docs, queueVars, pool, lockVars, flagVars, mgr, api>>

\* Download, extract and embed a file of a supported type.  A download error
\* that extract_text answers with a placeholder text still yields chunks for
\* this version.
FileFetch(w) ==
    /\ At(w, "fetch") /\ MyFile(w) \notin Unsupported
    /\ EnsureSchema(MyDrive(w))
    /\ Become(w, [wk[w] EXCEPT !.pc = "upsert",
                               !.version = changed[MyDrive(w)][MyFile(w)]])
    /\ UNCHANGED <<gdriveVars, reg, docs, queueVars, pool, beat, lockVars, flagVars, mgr, api>>

\* A file of an unsupported type has no text, and a spreadsheet that cannot be
\* opened has no sheets, hence no chunks: nothing is stored, what is stored
\* stays, and no failure is recorded.
FileEmpty(w) ==
    /\ At(w, "fetch")
    /\ "sheet" \in Faults \/ MyFile(w) \in Unsupported
    /\ EnsureSchema(MyDrive(w))
    /\ HeartBeat(w, MyDrive(w))
    /\ Return(w)
    /\ UNCHANGED <<gdriveVars, reg, docs, queueVars, pool, lockVars, flagVars, mgr, api>>

\* The insert fails if the schema was dropped since.
FileUpsert(w) ==
    /\ At(w, "upsert")
    /\ IF schema[MyDrive(w)]
       THEN /\ UpsertChunks(MyDrive(w), MyFile(w), wk[w].version)
            /\ HeartBeat(w, MyDrive(w))
            /\ UNCHANGED reg
       ELSE AddFailedFile(MyDrive(w), MyFile(w)) /\ UNCHANGED <<docs, beat>>
    /\ Return(w)
    /\ UNCHANGED <<gdriveVars, schema, queueVars, pool, lockVars, flagVars, mgr, api>>

FileFails(w) ==
    /\ "file" \in Faults
    /\ At(w, "fetch") \/ At(w, "upsert")
    /\ AddFailedFile(MyDrive(w), MyFile(w))
    /\ Return(w)
    /\ UNCHANGED <<gdriveVars, schema, docs, queueVars, pool, beat, lockVars, flagVars, mgr, api>>

DeleteStart(w) ==
    /\ At(w, "dstart")
    /\ IF reg[MyDrive(w)].cancel
       THEN Return(w) /\ UNCHANGED beat
       ELSE HeartBeat(w, MyDrive(w)) /\ Goto(w, "delete")
    /\ UNCHANGED <<gdriveVars, dbVars, queueVars, pool, lockVars, flagVars, mgr, api>>

\* A failing delete is logged and forgotten.
DeleteChunks(w) ==
    /\ At(w, "delete")
    /\ EnsureSchema(MyDrive(w))
    /\ \/ DeleteByFileId(MyDrive(w), MyFile(w))
       \/ "db" \in Faults /\ UNCHANGED docs
    /\ Return(w)
    /\ UNCHANGED <<gdriveVars, reg, queueVars, pool, beat, lockVars, flagVars, mgr, api>>

FinalizeStart(w) ==
    /\ At(w, "zstart")
    /\ IF reg[MyDrive(w)].exists
       THEN /\ HeartBeat(w, MyDrive(w))
            /\ Become(w, [wk[w] EXCEPT !.pc = "commit", !.cancel = reg[MyDrive(w)].cancel])
       ELSE Return(w) /\ UNCHANGED beat
    /\ UNCHANGED <<gdriveVars, dbVars, queueVars, pool, lockVars, flagVars, mgr, api>>

\* Decided by the row read at the start, not by the row as it is now.
FinalizeEnd(w) ==
    /\ At(w, "commit")
    /\ IF wk[w].cancel THEN AbortBuild(MyDrive(w)) ELSE CommitBuild(MyDrive(w))
    /\ Return(w)
    /\ UNCHANGED <<gdriveVars, schema, docs, queueVars, pool, beat, lockVars, flagVars, mgr, api>>

\* A database error in a statement that no handler guards, or in the commit of
\* a finalize: the task is dropped, and nothing of it is committed.
TaskFails(w) ==
    /\ "db" \in Faults
    /\ wk[w].pc \in {"open", "claim", "fstart", "dstart", "zstart", "commit"}
    /\ Return(w)
    /\ UNCHANGED <<gdriveVars, dbVars, queueVars, pool, beat, lockVars, flagVars, mgr, api>>

WorkerStep(w) ==
    \/ Take(w) \/ GetTimeout(w)
    \/ ListOpen(w) \/ ListClaim(w) \/ ListToken(w) \/ ListFiles(w) \/ ListApiFails(w)
    \/ ListBegin(w) \/ ListSchema(w) \/ ListDbFails(w) \/ ListPut(w) \/ ListDone(w)
    \/ FileStart(w) \/ FileFetch(w) \/ FileUpsert(w) \/ FileFails(w) \/ FileEmpty(w)
    \/ DeleteStart(w) \/ DeleteChunks(w)
    \/ FinalizeStart(w) \/ FinalizeEnd(w) \/ TaskFails(w)

-----------------------------------------------------------------------------
(* The manager. *)

ToCancel == {d \in Drives : reg[d].exists /\ ~reg[d].enabled /\ reg[d].state = "building"}

\* The main loop brings the pool to its size before each iteration.
PoolShort == Cardinality(pool) < PoolSize

\* Mutant: the flag is set but never cleared.
MgrRefreshSticky ==
    /\ mgr.pc = "top"
    /\ ~PoolShort \/ ~\E w \in Workers : At(w, "off")
    /\ pauseFlag' = (pauseFlag \/ paused)
    /\ mgr' = [mgr EXCEPT !.pc = "cancel", !.cancels = ToCancel]
    /\ UNCHANGED <<gdriveVars, dbVars, queueVars, workerVars, paused, diskLow, api>>

\* Mutant: the flag is cleared but never set.
MgrRefreshDeaf ==
    /\ mgr.pc = "top"
    /\ ~PoolShort \/ ~\E w \in Workers : At(w, "off")
    /\ pauseFlag' = (pauseFlag /\ paused)
    /\ mgr' = [mgr EXCEPT !.pc = "cancel", !.cancels = ToCancel]
    /\ UNCHANGED <<gdriveVars, dbVars, queueVars, workerVars, paused, diskLow, api>>

MgrRefresh ==
    /\ mgr.pc = "top"
    /\ ~PoolShort \/ ~\E w \in Workers : At(w, "off")
    /\ pauseFlag' = paused
    /\ mgr' = [mgr EXCEPT !.pc = "cancel", !.cancels = ToCancel]
    /\ UNCHANGED <<gdriveVars, dbVars, queueVars, workerVars, paused, diskLow, api>>

\* The rows of list_fds lack the column cancel_requested, so the manager never
\* finds the request already made.
MgrCancel(d) ==
    /\ mgr.pc = "cancel" /\ d \in mgr.cancels
    /\ RequestCancel(d)
    /\ mgr' = [mgr EXCEPT !.pc = "drain", !.cancels = @ \ {d}, !.drive = d]
    /\ UNCHANGED <<gdriveVars, schema, docs, queueVars, workerVars, flagVars, api>>

MgrDrain ==
    /\ mgr.pc = "drain"
    /\ \/ queue # <<>> /\ DrainOne(mgr.drive) /\ UNCHANGED mgr
       \/ queue = <<>> /\ PutBack /\ mgr' = [mgr EXCEPT !.pc = "cancel", !.drive = NoDrive]
    /\ UNCHANGED <<gdriveVars, dbVars, workerVars, flagVars, api>>

\* What the second reading of fd_registry makes the manager consider.
ListWork ==
    {TaskFor(IF reg[d].rotate = NoToken THEN "list_full" ELSE "list_delta", d) :
        d \in {e \in Drives : reg[e].exists /\ reg[e].enabled /\ reg[e].state # "building"}}

Building == {d \in Drives : reg[d].exists /\ reg[d].state = "building"}

MgrReread ==
    /\ mgr.pc = "cancel" /\ mgr.cancels = {}
    /\ mgr' = [mgr EXCEPT !.pc = "enqueue", !.finals = Building,
                          !.lists = IF pauseFlag \/ diskLow THEN {} ELSE ListWork]
    /\ UNCHANGED <<gdriveVars, dbVars, queueVars, workerVars, flagVars, api>>

Quiet(d) == Pending(d) = 0 /\ ~Inflight(d)

MgrList(t) ==
    /\ mgr.pc = "enqueue" /\ t \in mgr.lists
    /\ mgr' = [mgr EXCEPT !.lists = @ \ {t}]
    /\ IF Quiet(t.drive) /\ ListsWaiting(t.drive) < MaxDup
       THEN Enqueue(t) ELSE UNCHANGED <<queue, cnt>>
    /\ UNCHANGED <<gdriveVars, dbVars, keep, workerVars, flagVars, api>>

MgrFinalize(d) ==
    /\ mgr.pc = "enqueue" /\ mgr.lists = {} /\ d \in mgr.finals
    /\ mgr' = [mgr EXCEPT !.finals = @ \ {d}]
    /\ IF Quiet(d) /\ FinalsWaiting(d) < MaxDup
       THEN Enqueue(TaskFor("finalize", d)) ELSE UNCHANGED <<queue, cnt>>
    /\ UNCHANGED <<gdriveVars, dbVars, keep, workerVars, flagVars, api>>

MgrDone ==
    /\ mgr.pc = "enqueue" /\ mgr.lists = {} /\ mgr.finals = {}
    /\ mgr' = AtTop
    /\ UNCHANGED <<gdriveVars, dbVars, queueVars, workerVars, flagVars, api>>

\* A database error ends the manager's iteration where it is; what it has put
\* on the queue stays there.  (One in its first statements leaves the flag and
\* everything else as it was.)
MgrFails ==
    /\ "db" \in Faults
    /\ \/ mgr.pc = "cancel"
       \/ mgr.pc = "enqueue" /\ (mgr.lists # {} \/ mgr.finals # {})
    /\ mgr' = AtTop
    /\ UNCHANGED <<gdriveVars, dbVars, queueVars, workerVars, flagVars, api>>

Spawn(w) ==
    /\ mgr.pc = "top"
    /\ At(w, "off") /\ PoolShort
    /\ Return(w)
    /\ pool' = pool \cup {w}
    /\ beat' = [beat EXCEPT ![w] = IdleBeat]
    /\ UNCHANGED <<gdriveVars, dbVars, queueVars, lockVars, flagVars, mgr, api>>

\* Every 30 s: rows without a heartbeat for 300 s go, their ids leave the
\* pool although the threads live on, and a building drive that nobody works
\* on is reset, unless its schema saw a write in the last 120 s (spared).
Stale == {w \in Workers : beat[w].age = 2}

Deserted ==
    {d \in Building : ~\E w \in Workers : beat[w].drive = d /\ beat[w].age < 2}

HasDocs(d) == schema[d] /\ \E f \in Files : docs[d][f] # 0

CleanupZombies ==
    /\ mgr.pc = "top"
    /\ \E spared \in SUBSET {d \in Deserted : HasDocs(d)} :
          LET reset == Deserted \ spared
          IN  /\ Stale # {} \/ reset # {}
              /\ reg' = [d \in Drives |-> IF d \in reset
                                          THEN [reg[d] EXCEPT !.state = "idle"] ELSE reg[d]]
    /\ beat' = [w \in Workers |-> IF w \in Stale THEN IdleBeat ELSE beat[w]]
    /\ pool' = pool \ Stale
    /\ UNCHANGED <<gdriveVars, schema, docs, queueVars, wk, lockVars, flagVars, mgr, api>>

DiskCheck ==
    /\ "disk" \in Faults /\ mgr.pc = "top"
    /\ diskLow' = ~diskLow
    /\ UNCHANGED <<gdriveVars, dbVars, queueVars, workerVars, paused, pauseFlag, mgr, api>>

\* main: clear_workers, an empty queue, fresh flags.
Start ==
    /\ mgr.pc = "down"
    /\ mgr' = AtTop
    /\ beat' = [w \in Workers |-> IdleBeat]
    /\ UNCHANGED <<gdriveVars, dbVars, queueVars, wk, pool, lockVars, flagVars, api>>

ManagerStep ==
    \/ MgrRefresh \/ MgrDrain \/ MgrReread \/ MgrDone \/ Start
    \/ \E d \in Drives : MgrCancel(d) \/ MgrFinalize(d)
    \/ \E t \in mgr.lists : MgrList(t)
    \/ \E w \in Workers : Spawn(w)

-----------------------------------------------------------------------------
(* What goes wrong. *)

Gone(w) == At(w, "dead") \/ At(w, "off")

\* Time passes without a heartbeat of a worker.
GoStale(w) ==
    /\ "slow" \in Faults \/ Gone(w)
    /\ beat[w].drive # NoDrive /\ beat[w].age < 2
    /\ beat' = [beat EXCEPT ![w].age = @ + 1]
    /\ UNCHANGED <<gdriveVars, dbVars, queueVars, wk, pool, lockVars, flagVars, mgr, api>>

HeldBy(w) == {d \in Drives : lock[d] = w}

\* A worker's connection dies: the session's locks go, the thread exits, its
\* row in daemon_workers cannot be deleted any more.
Die(w) ==
    /\ "death" \in Faults
    /\ ~Gone(w)
    /\ lock' = [d \in Drives |-> IF d \in HeldBy(w) THEN NoWorker ELSE lock[d]]
    /\ stuck' = stuck \ HeldBy(w)
    /\ Become(w, Dead)
    /\ pool' = pool \ {w}
    /\ UNCHANGED <<gdriveVars, dbVars, queueVars, beat, flagVars, mgr, api>>

\* The daemon process ends; what it held in memory is gone.
Crash ==
    /\ "crash" \in Faults /\ mgr.pc # "down"
    /\ mgr' = Down
    /\ queue' = <<>> /\ keep' = <<>> /\ cnt' = [d \in Drives |-> 0]
    /\ wk' = [w \in Workers |-> Off] /\ pool' = {}
    /\ lock' = [d \in Drives |-> NoWorker] /\ stuck' = {}
    /\ pauseFlag' = FALSE /\ diskLow' = FALSE
    /\ UNCHANGED <<gdriveVars, dbVars, beat, paused, api>>

-----------------------------------------------------------------------------
(* The control API and the users of the drives. *)

Enable(d) ==
    /\ "enable" \in Ops /\ SetEnabled(d, TRUE)
    /\ UNCHANGED <<gdriveVars, schema, docs, queueVars, workerVars, flagVars, mgr, api>>

Disable(d) ==
    /\ "disable" \in Ops /\ SetEnabled(d, FALSE)
    /\ UNCHANGED <<gdriveVars, schema, docs, queueVars, workerVars, flagVars, mgr, api>>

SyncNow(d) ==
    /\ "sync" \in Ops /\ AbortBuild(d)
    /\ UNCHANGED <<gdriveVars, schema, docs, queueVars, workerVars, flagVars, mgr, api>>

Register(d) ==
    /\ "register" \in Ops /\ UpsertFd(d)
    /\ UNCHANGED <<gdriveVars, schema, docs, queueVars, workerVars, flagVars, mgr, api>>

\* Rebuild and delete drop the schema in a transaction of its own first.
DropFirst(op, d, next) ==
    /\ op \in Ops /\ api = NoRequest /\ reg[d].exists
    /\ DropSchema(d)
    /\ api' = [step |-> next, drive |-> d]
    /\ UNCHANGED <<gdriveVars, reg, queueVars, workerVars, flagVars, mgr>>

Rebuild(d) == DropFirst("rebuild", d, "rotate")
Delete(d) == DropFirst("delete", d, "row")

ApiNext ==
    /\ \/ /\ api.step = "rotate"
          /\ ClearRotate(api.drive)
          /\ api' = [api EXCEPT !.step = "abort"]
       \/ /\ api.step = "abort"
          /\ AbortBuild(api.drive)
          /\ api' = NoRequest
       \/ /\ api.step = "row"
          /\ DeleteRow(api.drive)
          /\ api' = NoRequest
    /\ UNCHANGED <<gdriveVars, schema, docs, queueVars, workerVars, flagVars, mgr>>

SetPaused(on) ==
    /\ "pause" \in Ops /\ paused' = on
    /\ UNCHANGED <<gdriveVars, dbVars, queueVars, workerVars, pauseFlag, diskLow, mgr, api>>

UserEdits ==
    /\ \E d \in Drives, f \in Files : WriteFile(d, f) \/ TrashFile(d, f)
    /\ UNCHANGED <<dbVars, queueVars, workerVars, flagVars, mgr, api>>

-----------------------------------------------------------------------------
Next ==
    \/ \E w \in Workers : WorkerStep(w) \/ GoStale(w) \/ Die(w)
    \/ ManagerStep \/ MgrFails \/ CleanupZombies \/ DiskCheck \/ Crash
    \/ \E d \in Drives : Enable(d) \/ Disable(d) \/ SyncNow(d) \/ Register(d)
                         \/ Rebuild(d) \/ Delete(d)
    \/ ApiNext
    \/ \E on \in BOOLEAN : SetPaused(on)
    \/ UserEdits

Spec == Init /\ [][Next]_vars

-----------------------------------------------------------------------------
(* Safety. *)

\* At most one worker lists a drive at a time, and it is the one that holds
\* the drive's advisory lock (_handle_list's try_claim_drive/release_drive).
ListExclusive ==
    \A w \in Workers : wk[w].pc \in ListPCs => lock[MyDrive(w)] = w

\* The counters agree with the queue, whatever the drain has set aside: a
\* counter left too high would keep a build from ever being finalized, one too
\* low would finalize it over its queued files (_enqueue, _mark_consumed,
\* _drain_queue_for_drive).
PendingExact ==
    \A d \in Drives : cnt[d] = Waiting(LAMBDA t : Counted(t) /\ t.drive = d)

\* rotate_token and pending_rotate_token follow the abstract cursor: a token
\* is staged by begin_build, never behind one already staged or committed, and
\* committed or discarded as one; nothing moves the cursor back but a rebuild
\* or the removal of the drive.
Cursor == INSTANCE ChangeCursor WITH
    cursor <- [d \in Drives |-> reg[d].rotate],
    staged <- [d \in Drives |-> reg[d].pending]

CursorSpec == Cursor!Spec

\* f's change is on its way to the index of d, or known to have failed.
Tracked(d, f) ==
    \/ \E t \in {queue[i] : i \in DOMAIN queue} \cup {keep[i] : i \in DOMAIN keep} :
          t.drive = d /\ t.file = f
    \/ \E w \in Workers :
          \/ MyDrive(w) = d /\ MyFile(w) = f
          \/ \E t \in wk[w].todo : t.drive = d /\ t.file = f
    \/ f \in reg[d].failed

\* A committed rotate_token never passes the last change of an existing file
\* of a supported type that is not in the index, not on its way there and not
\* recorded as failed: a delta listing starts at the token, so that change would
\* not be seen again (_handle_list, _handle_file, commit_build).
NoChangeLost ==
    \A d \in Drives : \A f \in alive[d] \ Unsupported :
        reg[d].exists /\ changed[d][f] <= reg[d].rotate
            => docs[d][f] = changed[d][f] \/ Tracked(d, f)

\* A worker between tasks holds no drive's advisory lock, or no other worker
\* could ever list that drive again (_handle_list's finally clause).
IdleHoldsNoLock ==
    \A w \in Workers, d \in Drives :
        wk[w].pc \in {"off", "idle", "dead"} => lock[d] # w

-----------------------------------------------------------------------------
(* Liveness: every thread is scheduled again and again, the service manager *)
(* restarts the daemon, and a request of the control API runs to its end.   *)

Fairness ==
    /\ \A w \in Workers : WF_vars(WorkerStep(w)) /\ WF_vars(Gone(w) /\ GoStale(w))
    /\ WF_vars(ManagerStep)
    /\ SF_vars(CleanupZombies)
    /\ WF_vars(ApiNext)

FairSpec == Spec /\ Fairness

\* A build whose schema exists ends, if the daemon is not restarted for ever,
\* has workers and does not lose its tasks to database errors for ever: the
\* manager notices that nothing is queued or in flight and finalizes the drive,
\* or cleanup_zombies resets it.
BuildEnds ==
    <>[][~Crash /\ \A w \in Workers : ~TaskFails(w)]_<<mgr, wk>> /\ []<>(pool # {}) =>
        \A d \in Drives : reg[d].state = "building" /\ schema[d]
                            ~> reg[d].state # "building"

\* Once paused for good, the builds that were running end and no other
\* begins (_manager_iter, _worker_loop).
PauseSettles ==
    <>[](paused /\ mgr.pc # "down") => <>[](\A d \in Drives : reg[d].state # "building")

\* If a drive stays enabled and the daemon is not paused, the index ends up
\* with the last version of every file of the drive whose type is supported.
EventuallyIndexed ==
    \A d \in Drives :
        <>[](reg[d].exists /\ reg[d].enabled /\ ~paused)
            => <>[](\A f \in alive[d] \ Unsupported : docs[d][f] = changed[d][f])

-----------------------------------------------------------------------------
(* What the documentation says of the daemon, and the code does not do. *)

\* "Manager sets it when a drive's enabled flips OFF while in state='building'"
\* (src/src/rag_daemon.py:29): an iteration of the manager that finds a drive
\* disabled with file tasks queued cancels it.
DisableCancels ==
    [][mgr.pc = "top" /\ mgr'.pc = "cancel" =>
          \A d \in Drives : reg[d].exists /\ ~reg[d].enabled /\ Pending(d) > 0
                                => d \in mgr'.cancels]_vars

\* Drives stuck in building "are reset to 'idle', so the next sweep re-enqueues
\* them and the work actually restarts" (src/src/db.py:573): no drive that is
\* not building is given a token that passes a file which is neither stored nor
\* on its way, for the next sweep would start after that file.
ResetRestarts ==
    [][\A d \in Drives :
          reg[d].state # "building" /\ reg'[d].rotate \notin {reg[d].rotate, NoToken} =>
              \A f \in alive[d] \ Unsupported :
                  changed[d][f] <= reg'[d].rotate => docs[d][f] # 0 \/ Tracked(d, f)]_vars

\* A rebuild drops the data and the token, and the drive is listed in full
\* (src/src/control_api.py:331): once the request has been answered, a token
\* vouches for every file that has not changed since.
RebuildIsFull ==
    api = NoRequest =>
        \A d \in Drives : \A f \in alive[d] \ Unsupported :
            changed[d][f] <= reg[d].rotate => docs[d][f] # 0 \/ Tracked(d, f)

=============================================================================
