----------------------------- MODULE LossProofs ------------------------------
(***************************************************************************)
(* No change of a file is lost by a daemon with one worker, as long as no   *)
(* build is cancelled, no thread dies and only the Drive API and single     *)
(* files fail: for any number of drives, files and waiting tasks.           *)
(***************************************************************************)
EXTENDS RagDaemonProofs

\* The circumstances: DAEMON_WORKER_THREADS = 1, nobody disables, rebuilds or
\* deletes a drive, and heartbeats are in time.
Calm ==
    /\ PoolSize = 1
    /\ Ops \subseteq {"enable", "sync", "pause", "register"}
    /\ Faults \subseteq {"api", "file"}

(* The inductive invariant. *)

\* The daemon has one worker at a time, which is never taken for dead.
OneWorker ==
    /\ pool = {} \/ \E w \in Workers : pool = {w}
    /\ \A w \in Workers :
          /\ wk[w].pc # "dead"
          /\ wk[w].pc # "off" => w \in pool
          /\ beat[w].age = 0
          /\ wk[w].pc = "off" => beat[w] = IdleBeat

\* No build is cancelled, so no task is ever dropped from the queue.
NoCancels ==
    /\ api = NoRequest
    /\ mgr.cancels = {} /\ mgr.pc # "drain" /\ keep = <<>>
    /\ \A d \in Drives : /\ reg[d].exists /\ ~reg[d].cancel
                         /\ reg[d].state = "building" => reg[d].enabled

\* Only enabled drives are listed.
ListsEnabled ==
    /\ \A i \in DOMAIN queue : queue[i].kind \in ListKinds => reg[queue[i].drive].enabled
    /\ \A t \in mgr.lists : t.kind \in ListKinds /\ reg[t.drive].enabled
    /\ \A w \in Workers : wk[w].task.kind \in ListKinds => reg[MyDrive(w)].enabled

\* Where a worker is agrees with the kind of its task.
KindOf(pc) ==
    CASE pc \in {"open", "claim"} \cup ListPCs   -> ListKinds
      [] pc \in {"fstart", "fetch", "upsert"}    -> {"file"}
      [] pc \in {"dstart", "delete"}             -> {"file_delete"}
      [] pc \in {"zstart", "commit"}             -> {"finalize"}
      [] OTHER                                   -> {"none"}

\* What a worker is doing agrees with its task, and what its listing has
\* still to put in the queue is at most one task for each file of the drive.
LocalOK(x) ==
    /\ ~x.cancel
    /\ x.task.kind \in KindOf(x.pc)
    /\ x.pc \notin {"begin", "schema", "put"} => x.todo = {}
    /\ \A t \in x.todo :
          /\ t.drive = x.task.drive /\ t.kind \in FileKinds
          /\ \A u \in x.todo : u.file = t.file => u = t

LocalsOK == \A w \in Workers : LocalOK(wk[w])

\* Tokens are positions the change log has reached; the one a delta listing
\* starts from is still the committed one.
Tokens ==
    /\ \A d \in Drives :
          /\ reg[d].rotate <= head[d] /\ reg[d].pending <= head[d]
          /\ \A f \in Files : changed[d][f] <= head[d]
          /\ \A f \in alive[d] : changed[d][f] > 0
    /\ \A w \in Workers :
          /\ wk[w].pc \in {"files", "begin"} => wk[w].token <= head[MyDrive(w)]
          /\ wk[w].pc \in {"claim", "token"} => wk[w].token = reg[MyDrive(w)].rotate
          /\ wk[w].pc = "files" /\ ~Full(w) => wk[w].token = reg[MyDrive(w)].rotate

\* A token covers f's last change: it is committed, staged, or about to be.
Covered(d, f) ==
    \/ changed[d][f] <= reg[d].rotate
    \/ changed[d][f] <= reg[d].pending
    \/ \E w \in Workers : /\ wk[w].pc = "begin" /\ MyDrive(w) = d
                          /\ changed[d][f] <= wk[w].token

Undone(d, f) == FileTask("file_delete", d, f)
Redone(d, f) == FileTask("file", d, f)

\* A waiting task will index f, and none will remove it later.
WillIndex(d, f) ==
    \/ \E w \in Workers : Redone(d, f) \in wk[w].todo
    \/ /\ \A w \in Workers : Undone(d, f) \notin wk[w].todo
       /\ \E i \in DOMAIN queue :
             /\ queue[i] = Redone(d, f)
             /\ \A j \in DOMAIN queue : j > i => queue[j] # Undone(d, f)

\* f is indexed, or in the worker's hands, and no task will remove it.
NowIndexed(d, f) ==
    /\ \A w \in Workers : Undone(d, f) \notin wk[w].todo
    /\ \A j \in DOMAIN queue : queue[j] # Undone(d, f)
    /\ \/ \E w \in Workers : wk[w].task = Redone(d, f)
       \/ /\ docs[d][f] = changed[d][f]
          /\ \A w \in Workers : wk[w].task # Undone(d, f)

Settled(d, f) == f \in reg[d].failed \/ WillIndex(d, f) \/ NowIndexed(d, f)

CoveredSettled ==
    \A d \in Drives : \A f \in alive[d] \ Unsupported : Covered(d, f) => Settled(d, f)

\* What a worker is about to store is the last version, if a token covers it.
VersionsFresh ==
    \A w \in Workers :
        wk[w].pc = "upsert" /\ MyFile(w) \in alive[MyDrive(w)] /\ Covered(MyDrive(w), MyFile(w))
            => wk[w].version = changed[MyDrive(w)][MyFile(w)]

LossInv ==
    /\ OneWorker /\ NoCancels /\ ListsEnabled /\ LocalsOK /\ Tokens
    /\ CoveredSettled /\ VersionsFresh

-----------------------------------------------------------------------------
(* What the steps do. *)

\* A step of a worker is that of a worker that runs, and no other one moves.
LEMMA WorkerStepShape ==
    ASSUME Typed, NEW w \in Workers, WorkerStep(w)
    PROVE  /\ wk[w].pc \notin {"off", "dead"}
           /\ \/ wk' = wk
              \/ \E x : Become(w, x) /\ x.pc \notin {"off", "dead"}
           /\ \/ beat' = beat
              \/ beat' = [beat EXCEPT ![w] = IdleBeat]
              \/ HeartBeat(w, MyDrive(w))
           /\ UNCHANGED <<gdriveVars, keep, pool, flagVars, mgr, api>>
  <1>c. wk[w] \in Worker
    BY DEF Typed, TypeOK
  <1>b. AtQueue.pc = "idle"
    BY DEF AtQueue
  <1>1. wk[w].pc \notin {"off", "dead"}
    BY DEF WorkerStep, Take, GetTimeout, ListOpen, ListClaim, ListToken, ListFiles, ListApiFails,
           ListBegin, ListSchema, ListDbFails, ListPut, ListDone, FileStart, FileFetch,
           FileUpsert, FileFails, FileEmpty, DeleteStart, DeleteChunks, FinalizeStart,
           FinalizeEnd, TaskFails, At
  <1>2. \/ beat' = beat
        \/ beat' = [beat EXCEPT ![w] = IdleBeat]
        \/ HeartBeat(w, MyDrive(w))
    BY Zenon
       DEF WorkerStep, Take, GetTimeout, ListOpen, ListClaim, ListToken, ListFiles, ListApiFails,
           ListBegin, ListSchema, ListDbFails, ListPut, ListDone, FileStart, FileFetch,
           FileUpsert, FileFails, FileEmpty, DeleteStart, DeleteChunks, FinalizeStart,
           FinalizeEnd, TaskFails
  <1>3. UNCHANGED <<gdriveVars, keep, pool, flagVars, mgr, api>>
    BY Zenon
       DEF WorkerStep, Take, GetTimeout, ListOpen, ListClaim, ListToken, ListFiles, ListApiFails,
           ListBegin, ListSchema, ListDbFails, ListPut, ListDone, FileStart, FileFetch,
           FileUpsert, FileFails, FileEmpty, DeleteStart, DeleteChunks, FinalizeStart,
           FinalizeEnd, TaskFails, queueVars
  <1>4. \/ wk' = wk
        \/ \E x : Become(w, x) /\ x.pc \notin {"off", "dead"}
    <2>1. CASE Take(w)
      <3>1. \A t \in Task : EntryPC(t.kind) \notin {"off", "dead"}
        <4> SUFFICES ASSUME NEW t \in Task PROVE EntryPC(t.kind) \notin {"off", "dead"}
          OBVIOUS
        <4>0. t.kind = "list_full" \/ t.kind = "list_delta" \/ t.kind = "file"
                \/ t.kind = "file_delete" \/ t.kind = "finalize"
          BY DEF Task, Kinds, ListKinds, FileKinds
        <4> QED BY <4>0 DEF EntryPC, ListKinds
      <3>2. Head(queue) \in Task
        BY <2>1, QueueOps DEF Take, Typed, TypeOK
      <3>3. [AtQueue EXCEPT !.pc = EntryPC(Head(queue).kind), !.task = Head(queue)].pc
                = EntryPC(Head(queue).kind)
        BY DEF AtQueue
      <3> QED BY <2>1, <3>1, <3>2, <3>3 DEF Take
    <2>2. CASE GetTimeout(w)
      BY <2>2 DEF GetTimeout
    <2>3. CASE Return(w)
      BY <1>b, <2>3 DEF Return
    <2>4. ASSUME NEW p, p \notin {"off", "dead"}, Goto(w, p)
          PROVE  \E x : Become(w, x) /\ x.pc \notin {"off", "dead"}
      <3>1. [wk[w] EXCEPT !.pc = p].pc = p
        BY <1>c DEF Worker
      <3> QED BY <2>4, <3>1 DEF Goto
    <2>5. CASE ListToken(w) \/ ListFiles(w) \/ ListBegin(w) \/ ListSchema(w) \/ ListPut(w)
      <3>1. \E x : Become(w, x) /\ x.pc \in ListPCs
        BY <2>5, ListingGoesOn
      <3> QED BY <3>1 DEF ListPCs
    <2>6. CASE ListOpen(w)
      <3>1. [wk[w] EXCEPT !.pc = "claim", !.token = reg[MyDrive(w)].rotate].pc = "claim"
        BY <1>c DEF Worker
      <3> QED BY <2>3, <2>6, <3>1 DEF ListOpen
    <2>7. CASE FileFetch(w)
      <3>1. \A v : [wk[w] EXCEPT !.pc = "upsert", !.version = v].pc = "upsert"
        BY <1>c DEF Worker
      <3> QED BY <2>7, <3>1 DEF FileFetch
    <2>8. CASE FinalizeStart(w)
      <3>1. \A v : [wk[w] EXCEPT !.pc = "commit", !.cancel = v].pc = "commit"
        BY <1>c DEF Worker
      <3> QED BY <2>3, <2>8, <3>1 DEF FinalizeStart
    <2>9. CASE ListClaim(w) \/ FileStart(w) \/ DeleteStart(w)
      BY <2>3, <2>4, <2>9 DEF ListClaim, FileStart, DeleteStart
    <2>10. CASE \/ ListApiFails(w) \/ ListDbFails(w) \/ ListDone(w) \/ FileUpsert(w)
                \/ FileFails(w) \/ FileEmpty(w) \/ DeleteChunks(w) \/ FinalizeEnd(w) \/ TaskFails(w)
      BY <2>3, <2>10 DEF ListApiFails, ListDbFails, ListDone, FileUpsert, FileFails, FileEmpty,
                         DeleteChunks, FinalizeEnd, TaskFails
    <2> QED BY <2>1, <2>2, <2>5, <2>6, <2>7, <2>8, <2>9, <2>10 DEF WorkerStep
  <1> QED BY <1>1, <1>2, <1>3, <1>4

\* In calm circumstances these are all the steps there are.
LEMMA CalmSteps ==
    ASSUME Calm, Typed, OneWorker, NoCancels, [Next]_vars
    PROVE  \/ \E w \in Workers : WorkerStep(w) \/ Spawn(w)
           \/ MgrRefresh \/ MgrReread \/ MgrDone \/ Start
           \/ \E d \in Drives : MgrFinalize(d)
           \/ \E t \in mgr.lists : MgrList(t)
           \/ CleanupZombies
           \/ \E d \in Drives : Enable(d) \/ SyncNow(d) \/ Register(d)
           \/ \E on \in BOOLEAN : SetPaused(on)
           \/ UserEdits \/ UNCHANGED vars
  <1>1. ASSUME NEW w \in Workers, GoStale(w) PROVE FALSE
    <2>1. wk[w].pc = "off" /\ beat[w].drive # NoDrive
      BY <1>1 DEF GoStale, Calm, Gone, At, OneWorker
    <2> QED BY <2>1 DEF OneWorker, IdleBeat
  <1>2. ASSUME NEW w \in Workers PROVE ~Die(w)
    BY DEF Die, Calm
  <1>3. ~Crash /\ ~DiskCheck /\ ~MgrFails
    BY DEF Crash, DiskCheck, MgrFails, Calm
  <1>4. ASSUME NEW d \in Drives PROVE ~Disable(d) /\ ~Rebuild(d) /\ ~Delete(d)
    BY DEF Disable, Rebuild, Delete, DropFirst, Calm
  <1>5. ~ApiNext
    BY DEF ApiNext, NoCancels, NoRequest
  <1>6. ~MgrDrain /\ \A d \in Drives : ~MgrCancel(d)
    BY DEF MgrDrain, MgrCancel, NoCancels
  <1> QED BY <1>1, <1>2, <1>3, <1>4, <1>5, <1>6, Zenon DEF Next, ManagerStep

\* The daemon keeps one worker at a time, which stays alive.
LEMMA OneWorkerStep ==
    ASSUME Calm, Typed, OneWorker, NoCancels, [Next]_vars
    PROVE  OneWorker'
  <1>c. wk \in [Workers -> Worker] /\ beat \in [Workers -> Beat]
    BY DEF Typed, TypeOK
  <1>i. IdleBeat.age = 0
    BY DEF IdleBeat
  <1>1. ASSUME NEW w \in Workers, WorkerStep(w) PROVE OneWorker'
    <2>1. /\ wk[w].pc \notin {"off", "dead"} /\ pool' = pool
          /\ wk' = wk \/ \E x : Become(w, x) /\ x.pc \notin {"off", "dead"}
          /\ \/ beat' = beat
             \/ beat' = [beat EXCEPT ![w] = IdleBeat]
             \/ HeartBeat(w, MyDrive(w))
      BY <1>1, WorkerStepShape
    <2>2. w \in pool
      BY <2>1 DEF OneWorker
    <2>3. \A v \in Workers : beat'[v].age = 0 /\ (v # w => beat'[v] = beat[v])
      BY <1>c, <1>i, <2>1 DEF OneWorker, HeartBeat
    <2>4. wk'[w].pc \notin {"off", "dead"} /\ \A v \in Workers \ {w} : wk'[v] = wk[v]
      BY <1>c, <2>1 DEF Become
    <2> QED BY <2>1, <2>2, <2>3, <2>4 DEF OneWorker
  <1>2. ASSUME NEW w \in Workers, Spawn(w) PROVE OneWorker'
    <2>1. pool = {}
      <3>1. Cardinality(pool) < 1
        BY <1>2 DEF Spawn, PoolShort, Calm
      <3>2. \A v \in Workers : Cardinality({v}) = 1
        BY FS_Singleton
      <3> QED BY <3>1, <3>2 DEF OneWorker
    <2>2. wk' = [wk EXCEPT ![w] = AtQueue] /\ beat' = [beat EXCEPT ![w] = IdleBeat]
             /\ pool' = {w}
      BY <1>2, <2>1 DEF Spawn, Return, Become
    <2>3. AtQueue.pc = "idle"
      BY DEF AtQueue
    <2> QED BY <1>c, <1>i, <2>1, <2>2, <2>3 DEF OneWorker
  <1>3. CASE CleanupZombies
    <2>1. Stale = {}
      BY DEF Stale, OneWorker
    <2>2. beat' = beat /\ pool' = pool /\ wk' = wk
      BY <1>3, <1>c, <2>1 DEF CleanupZombies
    <2> QED BY <2>2 DEF OneWorker
  <1>4. CASE Start
    BY <1>4, <1>i DEF Start, OneWorker
  <1>5. ASSUME \/ MgrRefresh \/ MgrReread \/ MgrDone
               \/ \E d \in Drives : MgrFinalize(d)
               \/ \E t \in mgr.lists : MgrList(t)
               \/ \E d \in Drives : Enable(d) \/ SyncNow(d) \/ Register(d)
               \/ \E on \in BOOLEAN : SetPaused(on)
               \/ UserEdits \/ UNCHANGED vars
        PROVE  OneWorker'
    <2>1. UNCHANGED <<wk, pool, beat>>
      BY <1>5, Zenon DEF MgrRefresh, MgrReread, MgrDone, MgrFinalize, MgrList, Enable, SyncNow,
                         Register, SetPaused, UserEdits, vars, workerVars
    <2> QED BY <2>1 DEF OneWorker
  <1> QED BY <1>1, <1>2, <1>3, <1>4, <1>5, CalmSteps

-----------------------------------------------------------------------------
(* The rows of fd_registry. *)

\* What may happen to a row: failures are kept, a token is committed by the
\* worker that ends a build and staged by the one that begins it.
RowMoves(d) ==
    /\ reg'[d].exists /\ ~reg'[d].cancel
    /\ reg[d].enabled => reg'[d].enabled
    /\ reg[d].failed \subseteq reg'[d].failed
    /\ reg'[d].state = "building" =>
          \/ reg[d].state = "building"
          \/ \E w \in Workers : wk[w].pc = "begin" /\ MyDrive(w) = d
    /\ \/ reg'[d].rotate = reg[d].rotate
       \/ /\ reg'[d].rotate = reg[d].pending
          /\ \E w \in Workers : wk[w].pc = "commit" /\ MyDrive(w) = d
    /\ \/ reg'[d].pending \in {reg[d].pending, NoToken}
       \/ \E w \in Workers : /\ wk[w].pc = "begin" /\ MyDrive(w) = d
                             /\ reg'[d].pending = wk[w].token

\* Every step moves every row in that way.
LEMMA RowsMove ==
    ASSUME Calm, Typed, OneWorker, NoCancels, [Next]_vars
    PROVE  \A d \in Drives : RowMoves(d)
  <1>0. \A d \in Drives : reg[d].exists /\ ~reg[d].cancel /\ reg[d] \in Row
    BY DEF NoCancels, Typed, TypeOK, RegistryTypeOK
  <1>a. ASSUME UNCHANGED reg PROVE \A d \in Drives : RowMoves(d)
    BY <1>0, <1>a DEF RowMoves
  <1>b. ASSUME NEW e \in Drives, NEW row, UpdateRow(e, row),
               row.exists, ~row.cancel, reg[e].enabled => row.enabled,
               reg[e].failed \subseteq row.failed,
               \/ row.state # "building" \/ row.state = reg[e].state
               \/ \E w \in Workers : wk[w].pc = "begin" /\ MyDrive(w) = e,
               \/ row.rotate = reg[e].rotate
               \/ /\ row.rotate = reg[e].pending
                  /\ \E w \in Workers : wk[w].pc = "commit" /\ MyDrive(w) = e,
               \/ row.pending \in {reg[e].pending, NoToken}
               \/ \E w \in Workers : /\ wk[w].pc = "begin" /\ MyDrive(w) = e
                                     /\ row.pending = wk[w].token
        PROVE  \A d \in Drives : RowMoves(d)
    <2>1. reg' = [reg EXCEPT ![e] = row] /\ reg \in [Drives -> Row]
      BY <1>0, <1>b DEF UpdateRow, Typed, TypeOK, RegistryTypeOK
    <2>2. RowMoves(e)
      BY <1>b, <2>1 DEF RowMoves
    <2>3. ASSUME NEW d \in Drives, d # e PROVE RowMoves(d)
      <3>1. reg'[d] = reg[d]
        BY <2>1, <2>3
      <3> QED BY <1>0, <3>1 DEF RowMoves
    <2> QED BY <2>2, <2>3
  <1>c. ASSUME NEW e \in Drives, AbortBuild(e) PROVE \A d \in Drives : RowMoves(d)
    <2> DEFINE row == [reg[e] EXCEPT !.pending = NoToken, !.cancel = FALSE, !.state = "idle"]
    <2>1. /\ row.exists /\ row.cancel = FALSE /\ row.enabled = reg[e].enabled
          /\ row.failed = reg[e].failed /\ row.state = "idle" /\ row.rotate = reg[e].rotate
          /\ row.pending = NoToken
      BY <1>0 DEF Row
    <2>2. UpdateRow(e, row)
      BY <1>c DEF AbortBuild
    <2> HIDE DEF row
    <2> QED BY <1>b, <2>1, <2>2
  <1>d. ASSUME NEW e \in Drives, NEW f \in Files, AddFailedFile(e, f)
        PROVE  \A d \in Drives : RowMoves(d)
    <2> DEFINE row == [reg[e] EXCEPT !.failed = @ \cup {f}]
    <2>1. /\ row.exists /\ ~row.cancel /\ row.enabled = reg[e].enabled
          /\ row.failed = reg[e].failed \cup {f} /\ row.state = reg[e].state
          /\ row.rotate = reg[e].rotate /\ row.pending = reg[e].pending
      BY <1>0 DEF Row
    <2>2. UpdateRow(e, row)
      BY <1>d DEF AddFailedFile
    <2> HIDE DEF row
    <2> QED BY <1>b, <2>1, <2>2
  <1>1. ASSUME NEW w \in Workers, WorkerStep(w) PROVE \A d \in Drives : RowMoves(d)
    <2> DEFINE e == MyDrive(w)
    <2>0. wk[w].pc \notin Away => e \in Drives
      BY WorkerMoves DEF Typed
    <2>1. CASE ListOpen(w)
      BY <1>0, <1>a, <2>0, <2>1 DEF ListOpen, At, Away
    <2>2. CASE ListApiFails(w)
      <3> DEFINE row == [reg[e] EXCEPT !.state = "error"]
      <3>0. e \in Drives
        BY <2>0, <2>2 DEF ListApiFails, At, Away
      <3>1. /\ row.exists /\ ~row.cancel /\ row.enabled = reg[e].enabled
            /\ row.failed = reg[e].failed /\ row.state = "error"
            /\ row.rotate = reg[e].rotate /\ row.pending = reg[e].pending
        BY <1>0, <3>0 DEF Row
      <3>2. UpdateRow(e, row)
        BY <2>2 DEF ListApiFails, SetError
      <3> HIDE DEF row, e
      <3> QED BY <1>b, <3>0, <3>1, <3>2
    <2>3. CASE ListBegin(w)
      <3> DEFINE row == [reg[e] EXCEPT !.state = "building", !.pending = wk[w].token,
                                       !.cancel = FALSE]
      <3>0. e \in Drives /\ wk[w].pc = "begin"
        BY <2>0, <2>3 DEF ListBegin, At, Away
      <3>1. /\ row.exists /\ row.cancel = FALSE /\ row.enabled = reg[e].enabled
            /\ row.failed = reg[e].failed
            /\ row.rotate = reg[e].rotate /\ row.pending = wk[w].token
        BY <1>0, <3>0 DEF Row
      <3>2. UpdateRow(e, row)
        BY <2>3 DEF ListBegin, BeginBuild
      <3>3. MyDrive(w) = e
        OBVIOUS
      <3> HIDE DEF row, e
      <3> QED BY <1>b, <3>0, <3>1, <3>2, <3>3
    <2>4. CASE FileStart(w)
      <3>1. UNCHANGED reg
        BY <2>4 DEF FileStart, Calm
      <3> QED BY <1>a, <3>1
    <2>5. CASE FileUpsert(w) \/ FileFails(w)
      <3>1. e \in Drives /\ MyFile(w) \in Files
        BY <2>0, <2>5, WorkerMoves DEF FileUpsert, FileFails, At, Away, FilePCs, Typed
      <3>2. UNCHANGED reg \/ AddFailedFile(e, MyFile(w))
        BY <2>5 DEF FileUpsert, FileFails
      <3> QED BY <1>a, <1>d, <3>1, <3>2
    <2>6. CASE FinalizeEnd(w)
      <3>0. e \in Drives /\ wk[w].pc = "commit"
        BY <2>0, <2>6 DEF FinalizeEnd, At, Away
      <3>1. AbortBuild(e) \/ UNCHANGED reg \/ (CommitBuild(e) /\ ~UNCHANGED reg)
        BY <2>6 DEF FinalizeEnd
      <3>2. ASSUME CommitBuild(e), ~UNCHANGED reg PROVE \A d \in Drives : RowMoves(d)
        <4> DEFINE row == [reg[e] EXCEPT !.rotate = IF reg[e].pending # NoToken
                                                    THEN reg[e].pending ELSE @,
                                         !.pending = NoToken, !.cancel = FALSE,
                                         !.state = "idle"]
        <4>1. /\ row.exists /\ row.cancel = FALSE /\ row.enabled = reg[e].enabled
              /\ row.failed = reg[e].failed /\ row.state = "idle" /\ row.pending = NoToken
              /\ row.rotate \in {reg[e].rotate, reg[e].pending}
          BY <1>0, <3>0 DEF Row
        <4>2. UpdateRow(e, row)
          BY <3>2 DEF CommitBuild
        <4>3. MyDrive(w) = e
          OBVIOUS
        <4> HIDE DEF row, e
        <4> QED BY <1>b, <3>0, <4>1, <4>2, <4>3
      <3> QED BY <1>a, <1>c, <3>0, <3>1, <3>2
    <2>7. CASE \/ Take(w) \/ GetTimeout(w) \/ ListClaim(w) \/ ListToken(w) \/ ListFiles(w)
               \/ ListSchema(w) \/ ListDbFails(w) \/ ListPut(w) \/ ListDone(w)
               \/ FileFetch(w) \/ FileEmpty(w) \/ DeleteStart(w) \/ DeleteChunks(w)
               \/ FinalizeStart(w) \/ TaskFails(w)
      <3>1. UNCHANGED reg
        BY <2>7, Zenon
           DEF Take, GetTimeout, ListClaim, ListToken, ListFiles, ListSchema, ListDbFails,
               ListPut, ListDone, FileFetch, FileEmpty, DeleteStart, DeleteChunks,
               FinalizeStart, TaskFails, dbVars
      <3> QED BY <1>a, <3>1
    <2> QED BY <1>1, <2>1, <2>2, <2>3, <2>4, <2>5, <2>6, <2>7, Zenon DEF WorkerStep
  <1>2. CASE CleanupZombies
    <2>1. \A d \in Drives : reg'[d] \in {reg[d], [reg[d] EXCEPT !.state = "idle"]}
      BY <1>2 DEF CleanupZombies
    <2>2. ASSUME NEW d \in Drives PROVE RowMoves(d)
      <3>1. CASE reg'[d] = reg[d]
        BY <1>0, <3>1 DEF RowMoves
      <3>2. CASE reg'[d] = [reg[d] EXCEPT !.state = "idle"]
        <4>1. /\ reg'[d].exists = reg[d].exists /\ reg'[d].cancel = reg[d].cancel
              /\ reg'[d].enabled = reg[d].enabled /\ reg'[d].failed = reg[d].failed
              /\ reg'[d].state = "idle" /\ reg'[d].rotate = reg[d].rotate
              /\ reg'[d].pending = reg[d].pending
          BY <1>0, <3>2 DEF Row
        <4> QED BY <1>0, <4>1 DEF RowMoves
      <3> QED BY <2>1, <3>1, <3>2
    <2> QED BY <2>2
  <1>3. ASSUME NEW e \in Drives, Enable(e) PROVE \A d \in Drives : RowMoves(d)
    <2> DEFINE row == Enabled(reg[e], TRUE)
    <2>1. /\ row.exists /\ ~row.cancel /\ row.enabled = TRUE
          /\ row.failed = reg[e].failed /\ (row.state = reg[e].state \/ row.state = "idle")
          /\ row.rotate = reg[e].rotate /\ row.pending = reg[e].pending
      BY <1>0 DEF Row, Enabled
    <2>2. UpdateRow(e, row)
      BY <1>3 DEF Enable, SetEnabled
    <2> HIDE DEF row
    <2> QED BY <1>b, <2>1, <2>2
  <1>4. ASSUME NEW e \in Drives, SyncNow(e) PROVE \A d \in Drives : RowMoves(d)
    BY <1>4, <1>c DEF SyncNow
  <1>5. ASSUME NEW e \in Drives, Register(e) PROVE \A d \in Drives : RowMoves(d)
    BY <1>0, <1>5, <1>a DEF Register, UpsertFd
  <1>6. ASSUME \/ \E w \in Workers : Spawn(w)
               \/ MgrRefresh \/ MgrReread \/ MgrDone \/ Start
               \/ \E d \in Drives : MgrFinalize(d)
               \/ \E t \in mgr.lists : MgrList(t)
               \/ \E on \in BOOLEAN : SetPaused(on)
               \/ UserEdits \/ UNCHANGED vars
        PROVE  UNCHANGED reg
    BY <1>6, Zenon DEF Spawn, MgrRefresh, MgrReread, MgrDone, Start, MgrFinalize, MgrList,
                       SetPaused, UserEdits, vars, dbVars
  <1> QED BY <1>1, <1>2, <1>3, <1>4, <1>5, <1>6, <1>a, CalmSteps

-----------------------------------------------------------------------------
(* The workers' local values. *)

\* A worker at rest, and one that has just taken a task, is as it should be.
LEMMA LocalRecords ==
    /\ LocalOK(AtQueue) /\ LocalOK(Off)
    /\ \A t \in Task : LocalOK([AtQueue EXCEPT !.pc = EntryPC(t.kind), !.task = t])
  <1>1. /\ AtQueue.pc = "idle" /\ AtQueue.cancel = FALSE /\ AtQueue.task.kind = "none"
        /\ AtQueue.todo = {}
        /\ Off.pc = "off" /\ Off.cancel = FALSE /\ Off.task.kind = "none" /\ Off.todo = {}
    BY DEF AtQueue, Off, NoTask
  <1>2. "none" \in KindOf("idle") /\ "none" \in KindOf("off")
    BY DEF KindOf, ListPCs
  <1>3. ASSUME NEW t \in Task
        PROVE  LocalOK([AtQueue EXCEPT !.pc = EntryPC(t.kind), !.task = t])
    <2> DEFINE x == [AtQueue EXCEPT !.pc = EntryPC(t.kind), !.task = t]
    <2>1. x.pc = EntryPC(t.kind) /\ x.task = t /\ x.todo = {} /\ x.cancel = FALSE
      BY DEF AtQueue
    <2>2. t.kind = "list_full" \/ t.kind = "list_delta" \/ t.kind = "file"
            \/ t.kind = "file_delete" \/ t.kind = "finalize"
      BY DEF Task, Kinds, ListKinds, FileKinds
    <2>3. t.kind \in KindOf(EntryPC(t.kind))
      <3>1. CASE t.kind \in ListKinds
        BY <3>1 DEF EntryPC, KindOf
      <3>2. CASE t.kind \notin ListKinds
        BY <2>2, <3>2 DEF EntryPC, KindOf, ListKinds, ListPCs
      <3> QED BY <3>1, <3>2
    <2> QED BY <2>1, <2>3 DEF LocalOK
  <1> QED BY <1>1, <1>2, <1>3 DEF LocalOK

\* A listing's tasks: each file of the drive once.
LEMMA ListingTasks ==
    ASSUME NEW d, NEW token
    PROVE  \A todo \in {FullListing(d), DeltaListing(d, token)} :
              \A t \in todo : /\ t.drive = d /\ t.kind \in FileKinds
                              /\ \A u \in todo : u.file = t.file => u = t
  BY DEF FullListing, DeltaListing, FileTask, FileKinds

\* Every step of a worker leaves it that way.
LEMMA LocalStep ==
    ASSUME Typed, NoCancels, LocalsOK, NEW w \in Workers, WorkerStep(w)
    PROVE  LocalsOK'
  <1> DEFINE x == wk[w]
             d == MyDrive(w)
  <1>0. x \in Worker /\ LocalOK(x) /\ d = x.task.drive
    BY DEF Typed, TypeOK, LocalsOK, MyDrive
  <1>a. ASSUME NEW y, Become(w, y), LocalOK(y) PROVE LocalsOK'
    <2>1. wk' = [wk EXCEPT ![w] = y] /\ wk \in [Workers -> Worker]
      BY <1>a DEF Become, Typed, TypeOK
    <2> QED BY <1>a, <2>1 DEF LocalsOK
  <1>b. ASSUME wk' = wk PROVE LocalsOK'
    BY <1>b DEF LocalsOK
  <1>c. ASSUME Return(w) PROVE LocalsOK'
    BY <1>a, <1>c, LocalRecords DEF Return
  <1>d. ASSUME NEW p, Goto(w, p), KindOf(p) = KindOf(x.pc),
               p \in {"begin", "schema", "put"} \/ x.pc \notin {"begin", "schema", "put"}
        PROVE  LocalsOK'
    <2>1. LocalOK([x EXCEPT !.pc = p])
      BY <1>0, <1>d DEF LocalOK, Worker
    <2> QED BY <1>a, <1>d, <2>1 DEF Goto
  <1>k. /\ \A p \in {"open", "claim"} \cup ListPCs : KindOf(p) = ListKinds
        /\ \A p \in {"fstart", "fetch", "upsert"} : KindOf(p) = {"file"}
        /\ \A p \in {"dstart", "delete"} : KindOf(p) = {"file_delete"}
        /\ \A p \in {"zstart", "commit"} : KindOf(p) = {"finalize"}
    BY DEF KindOf, ListPCs
  <1>1. CASE Take(w)
    <2>1. Head(queue) \in Task
      BY <1>1, QueueOps DEF Take, Typed, TypeOK
    <2> QED BY <1>1, <1>a, <1>b, <2>1, LocalRecords DEF Take
  <1>2. CASE GetTimeout(w)
    BY <1>2, <1>b DEF GetTimeout
  <1>3. CASE ListOpen(w)
    <2>1. LocalOK([x EXCEPT !.pc = "claim", !.token = reg[d].rotate])
      BY <1>0, <1>3, <1>k DEF ListOpen, At, LocalOK, Worker
    <2> QED BY <1>3, <1>a, <1>c, <2>1 DEF ListOpen
  <1>4. CASE ListClaim(w) \/ ListBegin(w) \/ ListSchema(w)
    BY <1>4, <1>c, <1>d, <1>k DEF ListClaim, ListBegin, ListSchema, At, ListPCs
  <1>5. CASE ListToken(w)
    <2>1. LocalOK([x EXCEPT !.pc = "files", !.token = StartPageToken(d),
                            !.task = TaskFor("list_full", d)])
      BY <1>0, <1>5, <1>k DEF ListToken, At, LocalOK, Worker, TaskFor, ListKinds, ListPCs
    <2>2. \/ Become(w, [x EXCEPT !.pc = "files", !.token = StartPageToken(d),
                                 !.task = TaskFor("list_full", d)])
          \/ Goto(w, "files") /\ x.pc = "token"
      BY <1>5 DEF ListToken, At
    <2> HIDE DEF x, d
    <2> QED BY <1>a, <1>d, <1>k, <2>1, <2>2 DEF ListPCs
  <1>6. CASE ListFiles(w)
    <2>1. \A todo \in {FullListing(d), DeltaListing(d, x.token)}, n \in Nat :
             LocalOK([x EXCEPT !.pc = "begin", !.todo = todo, !.token = n])
      BY <1>0, <1>6, <1>k, ListingTasks DEF ListFiles, At, LocalOK, Worker, ListPCs
    <2>2. [x EXCEPT !.pc = "begin", !.todo = FullListing(d)]
             = [x EXCEPT !.pc = "begin", !.todo = FullListing(d), !.token = x.token]
      BY <1>0 DEF Worker
    <2>3. x.token \in Nat /\ StartPageToken(d) \in Nat
      <3>1. d \in Drives
        BY <1>6, WorkerMoves DEF ListFiles, At, Away, Typed
      <3> QED BY <1>0, <3>1 DEF Worker, StartPageToken, Typed, TypeOK, GDriveTypeOK
    <2>4. \/ Become(w, [x EXCEPT !.pc = "begin", !.todo = FullListing(d)])
          \/ Become(w, [x EXCEPT !.pc = "begin", !.todo = DeltaListing(d, x.token),
                                 !.token = StartPageToken(d)])
      BY <1>6 DEF ListFiles
    <2> HIDE DEF x, d
    <2> QED BY <1>a, <2>1, <2>2, <2>3, <2>4
  <1>7. CASE ListPut(w)
    <2>1. \A s \in SUBSET x.todo : LocalOK([x EXCEPT !.todo = s])
      BY <1>0, <1>7 DEF ListPut, At, LocalOK, Worker
    <2>2. \E s \in SUBSET x.todo : Become(w, [x EXCEPT !.todo = s])
      <3>1. \/ Become(w, [x EXCEPT !.todo = {}])
            \/ \E t \in x.todo : Become(w, [x EXCEPT !.todo = @ \ {t}])
        BY <1>7 DEF ListPut
      <3>2. \A t : [x EXCEPT !.todo = @ \ {t}] = [x EXCEPT !.todo = x.todo \ {t}]
        BY <1>0 DEF Worker
      <3>3. {} \in SUBSET x.todo /\ \A t : x.todo \ {t} \in SUBSET x.todo
        OBVIOUS
      <3> HIDE DEF x
      <3> QED BY <3>1, <3>2, <3>3
    <2> HIDE DEF x
    <2> QED BY <1>a, <2>1, <2>2
  <1>8. CASE FileStart(w) \/ DeleteStart(w)
    BY <1>8, <1>c, <1>d, <1>k DEF FileStart, DeleteStart, At
  <1>9. CASE FileFetch(w)
    <2>1. LocalOK([x EXCEPT !.pc = "upsert", !.version = changed[d][MyFile(w)]])
      BY <1>0, <1>9, <1>k DEF FileFetch, At, LocalOK, Worker
    <2> QED BY <1>9, <1>a, <2>1 DEF FileFetch
  <1>10. CASE FinalizeStart(w)
    <2>0. d \in Drives
      BY <1>10, WorkerMoves DEF FinalizeStart, At, Away, Typed
    <2>1. LocalOK([x EXCEPT !.pc = "commit", !.cancel = reg[d].cancel])
      BY <1>0, <1>10, <1>k, <2>0 DEF FinalizeStart, At, LocalOK, Worker, NoCancels
    <2> QED BY <1>10, <1>a, <1>c, <2>1 DEF FinalizeStart
  <1>11. CASE \/ ListApiFails(w) \/ ListDbFails(w) \/ ListDone(w) \/ FileUpsert(w)
              \/ FileFails(w) \/ FileEmpty(w) \/ DeleteChunks(w) \/ FinalizeEnd(w) \/ TaskFails(w)
    BY <1>11, <1>c, Zenon DEF ListApiFails, ListDbFails, ListDone, FileUpsert, FileFails,
                              FileEmpty, DeleteChunks, FinalizeEnd, TaskFails
  <1> QED BY <1>1, <1>2, <1>3, <1>4, <1>5, <1>6, <1>7, <1>8, <1>9, <1>10, <1>11 DEF WorkerStep

\* A worker keeps its task, or ends it, or takes the first of the queue; a
\* listing that falls back to a full one stays with its drive.  What a listing
\* has still to put changes only where the files are listed and put.
LEMMA TaskMoves ==
    ASSUME Typed, NEW w \in Workers, WorkerStep(w)
    PROVE  /\ \/ wk'[w].task = wk[w].task
              \/ wk'[w].task = NoTask
              \/ Take(w) /\ wk'[w].task = Head(queue)
              \/ ListToken(w) /\ wk'[w].task = TaskFor("list_full", MyDrive(w))
           /\ \/ wk'[w].todo = wk[w].todo
              \/ wk'[w] = AtQueue
              \/ Take(w) /\ wk'[w].todo = {}
              \/ ListFiles(w) \/ ListPut(w)
  <1> DEFINE x == wk[w]
             d == MyDrive(w)
  <1>0. x \in Worker
    BY DEF Typed, TypeOK
  <1>a. ASSUME NEW y, Become(w, y) PROVE wk'[w] = y
    BY <1>a DEF Become, Typed, TypeOK
  <1>q. AtQueue.task = NoTask /\ AtQueue.todo = {}
    BY DEF AtQueue
  <1>r. Return(w) => wk'[w] = AtQueue
    BY <1>a DEF Return
  <1>g. ASSUME NEW p, Goto(w, p) PROVE wk'[w].task = x.task /\ wk'[w].todo = x.todo
    BY <1>0, <1>a, <1>g DEF Goto, Worker
  <1>1. CASE Take(w)
    <2>1. wk' = wk \/ wk'[w] = [AtQueue EXCEPT !.pc = EntryPC(Head(queue).kind),
                                               !.task = Head(queue)]
      BY <1>1, <1>a DEF Take
    <2> QED BY <1>1, <2>1 DEF AtQueue
  <1>2. CASE GetTimeout(w)
    BY <1>2 DEF GetTimeout
  <1>3. CASE ListOpen(w)
    <2>1. \/ wk'[w] = AtQueue
          \/ wk'[w] = [x EXCEPT !.pc = "claim", !.token = reg[d].rotate]
      BY <1>3, <1>a, <1>r DEF ListOpen
    <2> QED BY <1>0, <1>q, <2>1 DEF Worker
  <1>4. CASE \/ ListClaim(w) \/ ListBegin(w) \/ ListSchema(w) \/ FileStart(w) \/ DeleteStart(w)
    BY <1>4, <1>g, <1>q, <1>r DEF ListClaim, ListBegin, ListSchema, FileStart, DeleteStart
  <1>5. CASE ListToken(w)
    <2>1. \/ wk'[w] = [x EXCEPT !.pc = "files", !.token = StartPageToken(d),
                                !.task = TaskFor("list_full", d)]
          \/ Goto(w, "files")
      BY <1>5, <1>a DEF ListToken
    <2> QED BY <1>0, <1>5, <1>g, <2>1 DEF Worker
  <1>6. CASE ListFiles(w)
    <2>1. \/ wk'[w] = [x EXCEPT !.pc = "begin", !.todo = FullListing(d)]
          \/ wk'[w] = [x EXCEPT !.pc = "begin", !.todo = DeltaListing(d, x.token),
                                !.token = StartPageToken(d)]
      BY <1>6, <1>a DEF ListFiles
    <2> QED BY <1>0, <1>6, <2>1 DEF Worker
  <1>7. CASE ListPut(w)
    <2>1. \E s : wk'[w] = [x EXCEPT !.todo = s]
      <3>1. \/ Become(w, [x EXCEPT !.todo = {}])
            \/ \E t \in x.todo : Become(w, [x EXCEPT !.todo = @ \ {t}])
        BY <1>7 DEF ListPut
      <3>2. \A t : [x EXCEPT !.todo = @ \ {t}] = [x EXCEPT !.todo = x.todo \ {t}]
        BY <1>0 DEF Worker
      <3> HIDE DEF x
      <3> QED BY <1>a, <3>1, <3>2
    <2> QED BY <1>0, <1>7, <2>1 DEF Worker
  <1>8. CASE FileFetch(w)
    <2>1. wk'[w] = [x EXCEPT !.pc = "upsert", !.version = changed[d][MyFile(w)]]
      BY <1>8, <1>a DEF FileFetch
    <2> QED BY <1>0, <2>1 DEF Worker
  <1>9. CASE FinalizeStart(w)
    <2>1. \/ wk'[w] = AtQueue
          \/ wk'[w] = [x EXCEPT !.pc = "commit", !.cancel = reg[d].cancel]
      BY <1>9, <1>a, <1>r DEF FinalizeStart
    <2> QED BY <1>0, <1>q, <2>1 DEF Worker
  <1>10. CASE \/ ListApiFails(w) \/ ListDbFails(w) \/ ListDone(w) \/ FileUpsert(w)
              \/ FileFails(w) \/ FileEmpty(w) \/ DeleteChunks(w) \/ FinalizeEnd(w)
              \/ TaskFails(w)
    <2>1. Return(w)
      BY <1>10, Zenon DEF ListApiFails, ListDbFails, ListDone, FileUpsert, FileFails, FileEmpty,
                          DeleteChunks, FinalizeEnd, TaskFails
    <2> QED BY <1>q, <1>r, <2>1
  <1> QED BY <1>1, <1>2, <1>3, <1>4, <1>5, <1>6, <1>7, <1>8, <1>9, <1>10 DEF WorkerStep

\* How a worker comes to the places where its token or its version matters.
LEMMA Arrivals ==
    ASSUME Typed, NEW w \in Workers, WorkerStep(w)
    PROVE  LET x == wk[w]
               y == wk'[w]
               d == MyDrive(w)
           IN  /\ y.pc = "claim" => /\ x.pc = "open"
                                    /\ y.token = reg[d].rotate /\ y.task = x.task
               /\ y.pc = "token" => /\ x.pc = "claim"
                                    /\ y.token = x.token /\ y.task = x.task
               /\ y.pc = "files" =>
                     /\ x.pc = "token"
                     /\ \/ y.token = x.token /\ y.task = x.task /\ ~Full(w)
                        \/ y.token = head[d] /\ y.task = TaskFor("list_full", d)
               /\ y.pc = "begin" =>
                     /\ ListFiles(w) /\ y.task = x.task
                     /\ \/ Full(w) /\ y.token = x.token /\ y.todo = FullListing(d)
                        \/ /\ ~Full(w) /\ y.token = head[d]
                           /\ y.todo = DeltaListing(d, x.token)
               /\ y.pc = "upsert" => /\ x.pc = "fetch"
                                     /\ y.version = changed[d][MyFile(w)] /\ y.task = x.task
  <1> DEFINE x == wk[w]
             y == wk'[w]
             d == MyDrive(w)
             Elsewhere == y.pc \notin {"claim", "token", "files", "begin", "upsert"}
  <1>0. x \in Worker
    BY DEF Typed, TypeOK
  <1>a. ASSUME NEW z, Become(w, z) PROVE y = z
    BY <1>a DEF Become, Typed, TypeOK
  <1>r. Return(w) => Elsewhere
    BY <1>a DEF Return, AtQueue
  <1>g. ASSUME NEW p, Goto(w, p)
        PROVE  y.pc = p /\ y.token = x.token /\ y.task = x.task
    BY <1>0, <1>a, <1>g DEF Goto, Worker
  <1>1. CASE ListOpen(w)
    <2>1. Return(w) \/ y = [x EXCEPT !.pc = "claim", !.token = reg[d].rotate]
      BY <1>1, <1>a DEF ListOpen
    <2> QED BY <1>0, <1>1, <1>r, <2>1 DEF ListOpen, At, Worker
  <1>2. CASE ListClaim(w)
    BY <1>2, <1>g, <1>r DEF ListClaim, At
  <1>3. CASE ListToken(w)
    <2>1. \/ y = [x EXCEPT !.pc = "files", !.token = StartPageToken(d),
                           !.task = TaskFor("list_full", d)]
          \/ Goto(w, "files") /\ ~Full(w)
      BY <1>3, <1>a DEF ListToken
    <2> QED BY <1>0, <1>3, <1>g, <2>1 DEF ListToken, At, Worker, StartPageToken
  <1>4. CASE ListFiles(w)
    <2>1. \/ Full(w) /\ y = [x EXCEPT !.pc = "begin", !.todo = FullListing(d)]
          \/ /\ ~Full(w)
             /\ y = [x EXCEPT !.pc = "begin", !.todo = DeltaListing(d, x.token),
                              !.token = StartPageToken(d)]
      BY <1>4, <1>a DEF ListFiles
    <2> QED BY <1>0, <1>4, <2>1 DEF Worker, StartPageToken
  <1>5. CASE FileFetch(w)
    <2>1. y = [x EXCEPT !.pc = "upsert", !.version = changed[d][MyFile(w)]]
      BY <1>5, <1>a DEF FileFetch
    <2> QED BY <1>0, <1>5, <2>1 DEF FileFetch, At, Worker
  <1>6. CASE ListBegin(w) \/ ListSchema(w) \/ FileStart(w) \/ DeleteStart(w)
    BY <1>6, <1>g, <1>r DEF ListBegin, ListSchema, FileStart, DeleteStart
  <1>7. CASE FinalizeStart(w)
    <2>1. Return(w) \/ y = [x EXCEPT !.pc = "commit", !.cancel = reg[d].cancel]
      BY <1>7, <1>a DEF FinalizeStart
    <2> QED BY <1>0, <1>r, <2>1 DEF Worker
  <1>8. CASE \/ ListApiFails(w) \/ ListDbFails(w) \/ ListDone(w) \/ FileUpsert(w)
             \/ FileFails(w) \/ FileEmpty(w) \/ DeleteChunks(w) \/ FinalizeEnd(w)
              \/ TaskFails(w)
    <2>1. Return(w)
      BY <1>8, Zenon DEF ListApiFails, ListDbFails, ListDone, FileUpsert, FileFails, FileEmpty,
                         DeleteChunks, FinalizeEnd, TaskFails
    <2> QED BY <1>r, <2>1
  <1>9. CASE ListPut(w)
    <2>1. \E s : y = [x EXCEPT !.todo = s]
      <3>1. \/ Become(w, [x EXCEPT !.todo = {}])
            \/ \E t \in x.todo : Become(w, [x EXCEPT !.todo = @ \ {t}])
        BY <1>9 DEF ListPut
      <3>2. \A t : [x EXCEPT !.todo = @ \ {t}] = [x EXCEPT !.todo = x.todo \ {t}]
        BY <1>0 DEF Worker
      <3> HIDE DEF x, y
      <3> QED BY <1>a, <3>1, <3>2
    <2> QED BY <1>0, <1>9, <2>1 DEF ListPut, At, Worker
  <1>10. CASE GetTimeout(w)
    BY <1>10 DEF GetTimeout, At
  <1>11. CASE Take(w)
    <2>1. Head(queue) \in Task
      BY <1>11, QueueOps DEF Take, Typed, TypeOK
    <2>2. EntryPC(Head(queue).kind) \notin {"claim", "token", "files", "begin", "upsert"}
      <3>1. CASE Head(queue).kind \in ListKinds
        BY <3>1 DEF EntryPC
      <3>2. CASE Head(queue).kind \notin ListKinds
        <4>1. Head(queue).kind \in {"file", "file_delete", "finalize"}
          BY <2>1, <3>2 DEF Task, Kinds, ListKinds, FileKinds
        <4> QED BY <3>2, <4>1 DEF EntryPC
      <3> QED BY <3>1, <3>2
    <2>3. wk' = wk \/ y = [AtQueue EXCEPT !.pc = EntryPC(Head(queue).kind), !.task = Head(queue)]
      BY <1>11, <1>a DEF Take
    <2> QED BY <1>11, <2>2, <2>3 DEF Take, At, AtQueue
  <1> QED BY <1>1, <1>2, <1>3, <1>4, <1>5, <1>6, <1>7, <1>8, <1>9, <1>10, <1>11 DEF WorkerStep

\* So does every other step.
LEMMA LocalsStep ==
    ASSUME Calm, Typed, OneWorker, NoCancels, LocalsOK, [Next]_vars
    PROVE  LocalsOK'
  <1>1. ASSUME NEW w \in Workers, Spawn(w) PROVE LocalsOK'
    BY <1>1, LocalRecords DEF Spawn, Return, Become, LocalsOK, Typed, TypeOK
  <1>2. ASSUME \/ MgrRefresh \/ MgrReread \/ MgrDone \/ Start \/ CleanupZombies
               \/ \E d \in Drives : MgrFinalize(d)
               \/ \E t \in mgr.lists : MgrList(t)
               \/ \E d \in Drives : Enable(d) \/ SyncNow(d) \/ Register(d)
               \/ \E on \in BOOLEAN : SetPaused(on)
               \/ UserEdits \/ UNCHANGED vars
        PROVE  LocalsOK'
    <2>1. UNCHANGED wk
      BY <1>2, Zenon DEF MgrRefresh, MgrReread, MgrDone, Start, CleanupZombies, MgrFinalize,
                         MgrList, Enable, SyncNow, Register, SetPaused, UserEdits, vars,
                         workerVars
    <2> QED BY <2>1 DEF LocalsOK
  <1> QED BY <1>1, <1>2, LocalStep, CalmSteps

-----------------------------------------------------------------------------
(* Nothing is cancelled or drained, and only enabled drives are listed. *)

\* No build is ever cancelled: every drive that is building is enabled.
LEMMA NoCancelsStep ==
    ASSUME Calm, Typed, OneWorker, NoCancels, ListsEnabled, LocalsOK, [Next]_vars
    PROVE  NoCancels'
  <1>1. \A d \in Drives : /\ reg'[d].exists /\ ~reg'[d].cancel
                          /\ reg'[d].state = "building" => reg'[d].enabled
    <2> SUFFICES ASSUME NEW d \in Drives
                 PROVE  /\ reg'[d].exists /\ ~reg'[d].cancel
                        /\ reg'[d].state = "building" => reg'[d].enabled
      OBVIOUS
    <2>1. RowMoves(d)
      BY RowsMove
    <2>2. ASSUME NEW w \in Workers, wk[w].pc = "begin", MyDrive(w) = d PROVE reg[d].enabled
      <3>1. wk[w].task.kind \in ListKinds
        BY <2>2 DEF LocalsOK, LocalOK, KindOf, ListPCs
      <3> QED BY <2>2, <3>1 DEF ListsEnabled
    <2> QED BY <2>1, <2>2 DEF RowMoves, NoCancels
  <1>2. ToCancel = {}
    BY DEF ToCancel, NoCancels
  <1>3. mgr \in Manager
    BY DEF Typed, TypeOK
  <1>4. api' = NoRequest /\ keep' = <<>> /\ mgr'.cancels = {} /\ mgr'.pc # "drain"
    <2>1. ASSUME \/ \E w \in Workers : WorkerStep(w) \/ Spawn(w)
                 \/ CleanupZombies
                 \/ \E d \in Drives : Enable(d) \/ SyncNow(d) \/ Register(d)
                 \/ \E on \in BOOLEAN : SetPaused(on)
                 \/ UserEdits \/ UNCHANGED vars
          PROVE  UNCHANGED <<api, keep, mgr>>
      <3>1. ASSUME NEW w \in Workers, WorkerStep(w) PROVE UNCHANGED <<api, keep, mgr>>
        BY <3>1, WorkerStepShape
      <3>2. ASSUME \/ \E w \in Workers : Spawn(w)
                   \/ CleanupZombies
                   \/ \E d \in Drives : Enable(d) \/ SyncNow(d) \/ Register(d)
                   \/ \E on \in BOOLEAN : SetPaused(on)
                   \/ UserEdits \/ UNCHANGED vars
            PROVE  UNCHANGED <<api, keep, mgr>>
        BY <3>2, Zenon DEF Spawn, CleanupZombies, Enable, SyncNow, Register, SetPaused, UserEdits,
                           vars, queueVars
      <3> QED BY <2>1, <3>1, <3>2
    <2>2. ASSUME \/ MgrRefresh \/ MgrReread \/ MgrDone \/ Start
                 \/ \E d \in Drives : MgrFinalize(d)
                 \/ \E t \in mgr.lists : MgrList(t)
          PROVE  /\ UNCHANGED <<api, keep>>
                 /\ mgr'.cancels = {} /\ mgr'.pc # "drain"
      <3>1. UNCHANGED <<api, keep>>
        BY <2>2, Zenon DEF MgrRefresh, MgrReread, MgrDone, Start, MgrFinalize, MgrList, queueVars
      <3>2. CASE MgrRefresh
        BY <1>2, <1>3, <3>1, <3>2 DEF MgrRefresh, Manager
      <3>3. CASE MgrReread
        BY <1>3, <3>1, <3>3 DEF MgrReread, Manager, NoCancels
      <3>4. CASE MgrDone \/ Start
        BY <3>1, <3>4 DEF MgrDone, Start, AtTop
      <3>5. ASSUME NEW d \in Drives, MgrFinalize(d) PROVE mgr'.cancels = {} /\ mgr'.pc # "drain"
        BY <1>3, <3>5 DEF MgrFinalize, Manager, NoCancels
      <3>6. ASSUME NEW t \in mgr.lists, MgrList(t) PROVE mgr'.cancels = {} /\ mgr'.pc # "drain"
        BY <1>3, <3>6 DEF MgrList, Manager, NoCancels
      <3> QED BY <2>2, <3>1, <3>2, <3>3, <3>4, <3>5, <3>6
    <2> QED BY <2>1, <2>2, CalmSteps DEF NoCancels
  <1> QED BY <1>1, <1>4 DEF NoCancels

\* A drive that is listed, or about to be, is enabled and stays so.
LEMMA ListsEnabledStep ==
    ASSUME Calm, Typed, OneWorker, NoCancels, ListsEnabled, LocalsOK, [Next]_vars
    PROVE  ListsEnabled'
  <1>r. \A d \in Drives : reg[d].enabled => reg'[d].enabled
    BY RowsMove DEF RowMoves
  <1>t. /\ queue \in Seq(Task) /\ mgr \in Manager
        /\ \A w \in Workers : wk[w] \in Worker
        /\ \A t \in Task : t.drive \in Drives
    BY DEF Typed, TypeOK, QueueTypeOK, Task
  <1>q. ASSUME UNCHANGED queue \/ (queue # <<>> /\ queue' = Tail(queue))
        PROVE  \A i \in DOMAIN queue' : queue'[i].kind \in ListKinds
                                          => reg'[queue'[i].drive].enabled
    <2>1. \A i \in DOMAIN queue' : \E j \in DOMAIN queue : queue'[i] = queue[j]
      BY <1>q, <1>t
    <2>2. \A j \in DOMAIN queue : queue[j] \in Task
      BY <1>t
    <2> QED BY <1>r, <1>t, <2>1, <2>2 DEF ListsEnabled
  <1>e. ASSUME NEW t \in Task, queue' = Append(queue, t),
               t.kind \in ListKinds => reg[t.drive].enabled
        PROVE  \A i \in DOMAIN queue' : queue'[i].kind \in ListKinds
                                          => reg'[queue'[i].drive].enabled
    <2>1. \A i \in DOMAIN queue' : queue'[i] = t \/ \E j \in DOMAIN queue : queue'[i] = queue[j]
      BY <1>e, <1>t
    <2>2. \A j \in DOMAIN queue : queue[j] \in Task
      BY <1>t
    <2> QED BY <1>e, <1>r, <1>t, <2>1, <2>2 DEF ListsEnabled
  <1>m. ASSUME mgr'.lists \subseteq mgr.lists
        PROVE  \A t \in mgr'.lists : t.kind \in ListKinds /\ reg'[t.drive].enabled
    BY <1>m, <1>r, <1>t DEF ListsEnabled, Manager
  <1>v. ASSUME NEW w \in Workers, wk'[w].task = wk[w].task
        PROVE  wk'[w].task.kind \in ListKinds => reg'[wk'[w].task.drive].enabled
    <2>1. CASE wk[w].task \in Task
      BY <1>v, <1>r, <1>t, <2>1 DEF ListsEnabled, MyDrive
    <2>2. CASE wk[w].task \notin Task
      <3>1. wk[w].task = NoTask
        BY <1>t, <2>2 DEF Worker
      <3> QED BY <1>v, <3>1 DEF NoTask, ListKinds
    <2> QED BY <2>1, <2>2
  <1>1. ASSUME NEW w \in Workers, WorkerStep(w) PROVE ListsEnabled'
    <2>0. /\ wk' = wk \/ \E x : Become(w, x)
          /\ UNCHANGED mgr
      BY <1>1, WorkerStepShape
    <2>1. \A v \in Workers \ {w} : wk'[v] = wk[v]
      BY <2>0 DEF Become, Typed, TypeOK
    <2>2. \A i \in DOMAIN queue' : queue'[i].kind \in ListKinds
                                      => reg'[queue'[i].drive].enabled
      <3>1. CASE Take(w)
        BY <1>q, <3>1 DEF Take
      <3>2. CASE ListPut(w)
        <4>1. ASSUME NEW t \in wk[w].todo, Enqueue(t) PROVE t \in Task /\ t.kind \notin ListKinds
          BY <4>1, <1>t DEF Worker, LocalsOK, LocalOK, ListKinds, FileKinds
        <4> QED BY <1>q, <1>e, <3>2, <4>1 DEF ListPut, Enqueue
      <3>3. ASSUME ~Take(w), ~ListPut(w) PROVE UNCHANGED queue
        BY <1>1, <3>3, Zenon
           DEF WorkerStep, GetTimeout, ListOpen, ListClaim, ListToken, ListFiles, ListApiFails,
               ListBegin, ListSchema, ListDbFails, ListDone, FileStart, FileFetch, FileUpsert,
               FileFails, FileEmpty, DeleteStart, DeleteChunks, FinalizeStart, FinalizeEnd,
               TaskFails, queueVars, dbVars
      <3> QED BY <1>q, <3>1, <3>2, <3>3
    <2>3. wk'[w].task.kind \in ListKinds => reg'[wk'[w].task.drive].enabled
      <3>1. CASE wk'[w].task = wk[w].task
        BY <1>v, <3>1
      <3>2. CASE wk'[w].task = NoTask
        BY <3>2 DEF NoTask, ListKinds
      <3>3. CASE Take(w) /\ wk'[w].task = Head(queue)
        <4> DEFINE t == Head(queue)
        <4>1. t \in Task /\ t = queue[1] /\ 1 \in DOMAIN queue
          BY <3>3, <1>t DEF Take
        <4> QED BY <1>r, <1>t, <3>3, <4>1 DEF ListsEnabled
      <3>4. CASE ListToken(w) /\ wk'[w].task = TaskFor("list_full", MyDrive(w))
        <4>1. wk[w].pc = "token"
          BY <3>4 DEF ListToken, At
        <4>2. MyDrive(w) \in Drives
          BY <4>1, WorkerMoves DEF Away, Typed
        <4>3. wk[w].task.kind \in ListKinds
          BY <4>1 DEF LocalsOK, LocalOK, KindOf, ListPCs
        <4> QED BY <1>r, <3>4, <4>2, <4>3 DEF ListsEnabled, TaskFor
      <3> QED BY <1>1, <3>1, <3>2, <3>3, <3>4, TaskMoves
    <2> QED BY <1>m, <1>v, <2>0, <2>1, <2>2, <2>3 DEF ListsEnabled, MyDrive
  <1>2. ASSUME UNCHANGED wk, UNCHANGED queue, mgr'.lists \subseteq mgr.lists PROVE ListsEnabled'
    BY <1>2, <1>m, <1>q, <1>v DEF ListsEnabled, MyDrive
  <1>3. ASSUME NEW w \in Workers, Spawn(w) PROVE ListsEnabled'
    <2>1. /\ \A v \in Workers \ {w} : wk'[v] = wk[v]
          /\ wk'[w] = AtQueue
          /\ UNCHANGED <<queue, mgr>>
      BY <1>3 DEF Spawn, Return, Become, queueVars, Typed, TypeOK
    <2>2. wk'[w].task.kind \notin ListKinds
      BY <2>1 DEF AtQueue, NoTask, ListKinds
    <2> QED BY <1>m, <1>q, <1>v, <2>1, <2>2 DEF ListsEnabled, MyDrive
  <1>4. CASE MgrReread
    <2>1. mgr'.lists \in {{}, ListWork} /\ UNCHANGED <<wk, queue, reg>>
      BY <1>4, <1>t DEF MgrReread, Manager, workerVars, queueVars, dbVars
    <2>2. \A t \in ListWork : /\ t.kind \in ListKinds
                               /\ t.drive \in Drives /\ reg[t.drive].enabled
      BY DEF ListWork, TaskFor, ListKinds
    <2> QED BY <1>q, <1>v, <2>1, <2>2 DEF ListsEnabled, MyDrive
  <1>5. ASSUME NEW t \in mgr.lists, MgrList(t) PROVE ListsEnabled'
    <2>1. /\ mgr'.lists \subseteq mgr.lists /\ t \in Task /\ UNCHANGED wk
          /\ queue' = Append(queue, t) \/ UNCHANGED queue
      BY <1>5, <1>t DEF MgrList, Manager, workerVars, Enqueue
    <2> QED BY <1>e, <1>m, <1>q, <1>v, <1>5, <2>1 DEF ListsEnabled, MyDrive
  <1>6. ASSUME NEW d \in Drives, MgrFinalize(d) PROVE ListsEnabled'
    <2>1. /\ mgr'.lists = mgr.lists /\ UNCHANGED wk
          /\ queue' = Append(queue, TaskFor("finalize", d)) \/ UNCHANGED queue
      BY <1>6, <1>t DEF MgrFinalize, Manager, workerVars, Enqueue
    <2>2. /\ TaskFor("finalize", d) \in Task
          /\ TaskFor("finalize", d).kind \notin ListKinds
      BY DEF TaskFor, Task, Kinds, ListKinds, FileKinds
    <2> QED BY <1>e, <1>m, <1>q, <1>v, <2>1, <2>2 DEF ListsEnabled, MyDrive
  <1>7. ASSUME \/ MgrRefresh \/ MgrDone \/ Start \/ CleanupZombies
               \/ \E d \in Drives : Enable(d) \/ SyncNow(d) \/ Register(d)
               \/ \E on \in BOOLEAN : SetPaused(on)
               \/ UserEdits \/ UNCHANGED vars
        PROVE  ListsEnabled'
    <2>1. UNCHANGED <<wk, queue>>
      BY <1>7, Zenon DEF MgrRefresh, MgrDone, Start, CleanupZombies, Enable, SyncNow, Register,
                         SetPaused, UserEdits, vars, workerVars, queueVars
    <2>2. CASE MgrRefresh \/ MgrDone \/ Start
      <3>1. mgr'.lists \subseteq mgr.lists
        <4>1. CASE MgrRefresh
          BY <1>t, <4>1 DEF MgrRefresh, Manager
        <4>2. CASE MgrDone \/ Start
          BY <4>2 DEF MgrDone, Start, AtTop
        <4> QED BY <2>2, <4>1, <4>2
      <3> QED BY <1>2, <2>1, <3>1
    <2>3. CASE ~(MgrRefresh \/ MgrDone \/ Start)
      <3>1. UNCHANGED mgr
        BY <1>7, <2>3, Zenon DEF CleanupZombies, Enable, SyncNow, Register, SetPaused, UserEdits,
                                 vars
      <3> QED BY <1>2, <2>1, <3>1
    <2> QED BY <2>2, <2>3
  <1> QED BY <1>1, <1>3, <1>4, <1>5, <1>6, <1>7, CalmSteps

-----------------------------------------------------------------------------
(* The tokens. *)

\* What the steps of the others leave alone.
LEMMA OthersStay ==
    ASSUME Calm, Typed, OneWorker, NoCancels, [Next]_vars
    PROVE  \/ \E w \in Workers : /\ WorkerStep(w) \/ Spawn(w)
                                 /\ Spawn(w) => wk'[w] = AtQueue
                                 /\ \A v \in Workers \ {w} : wk'[v] = wk[v]
                                 /\ UNCHANGED gdriveVars
           \/ UNCHANGED <<wk, gdriveVars>> /\ ~\E w \in Workers : WorkerStep(w)
           \/ UserEdits /\ UNCHANGED wk /\ UNCHANGED <<dbVars, queueVars>>
  <1>1. ASSUME NEW w \in Workers, WorkerStep(w)
        PROVE  /\ \A v \in Workers \ {w} : wk'[v] = wk[v]
               /\ UNCHANGED gdriveVars
    <2>1. wk' = wk \/ \E x : Become(w, x)
      BY <1>1, WorkerStepShape
    <2> QED BY <1>1, <2>1, WorkerStepShape DEF Become, Typed, TypeOK
  <1>2. ASSUME NEW w \in Workers, Spawn(w)
        PROVE  /\ wk'[w] = AtQueue
               /\ \A v \in Workers \ {w} : wk'[v] = wk[v]
               /\ UNCHANGED gdriveVars
    BY <1>2 DEF Spawn, Return, Become, Typed, TypeOK
  <1>3. ASSUME \/ MgrRefresh \/ MgrReread \/ MgrDone \/ Start \/ CleanupZombies
               \/ \E d \in Drives : MgrFinalize(d)
               \/ \E t \in mgr.lists : MgrList(t)
               \/ \E d \in Drives : Enable(d) \/ SyncNow(d) \/ Register(d)
               \/ \E on \in BOOLEAN : SetPaused(on)
               \/ UNCHANGED vars
        PROVE  UNCHANGED <<wk, gdriveVars>>
    BY <1>3, Zenon DEF MgrRefresh, MgrReread, MgrDone, Start, CleanupZombies, MgrFinalize,
                       MgrList, Enable, SyncNow, Register, SetPaused, vars, workerVars
  <1>4. ASSUME UserEdits PROVE UNCHANGED wk /\ UNCHANGED <<dbVars, queueVars>>
    BY <1>4 DEF UserEdits, workerVars
  <1> QED BY <1>1, <1>2, <1>3, <1>4, CalmSteps, Zenon

\* Two workers that run are one.
LEMMA SameWorker ==
    ASSUME OneWorker, NEW v \in Workers, NEW w \in Workers,
           wk[v].pc # "off", wk[w].pc # "off"
    PROVE  v = w
  BY DEF OneWorker

\* A user's edit moves the last change of one file beyond every token.
LEMMA EditMoves ==
    ASSUME Typed, UserEdits
    PROVE  \E e \in Drives, g \in Files :
              /\ head[e] \in Nat
              /\ \A d \in Drives : head'[d] = IF d = e THEN head[d] + 1 ELSE head[d]
              /\ changed'[e][g] = head[e] + 1
              /\ \A d \in Drives, f \in Files :
                    d # e \/ f # g => /\ changed'[d][f] = changed[d][f]
                                      /\ f \in alive'[d] <=> f \in alive[d]
  <1>1. PICK e \in Drives, g \in Files : WriteFile(e, g) \/ TrashFile(e, g)
    BY DEF UserEdits
  <1>2. head \in [Drives -> Nat \ {0}] /\ changed \in [Drives -> [Files -> Nat]]
           /\ alive \in [Drives -> SUBSET Files]
    BY DEF Typed, TypeOK, GDriveTypeOK
  <1>3. LogChange(e, g)
    BY <1>1 DEF WriteFile, TrashFile
  <1>4. /\ head' = [head EXCEPT ![e] = @ + 1]
        /\ changed' = [changed EXCEPT ![e][g] = head[e] + 1]
    BY <1>3 DEF LogChange
  <1>5. alive' = [alive EXCEPT ![e] = @ \cup {g}] \/ alive' = [alive EXCEPT ![e] = @ \ {g}]
    BY <1>1 DEF WriteFile, TrashFile
  <1>6. changed'[e][g] = head[e] + 1
    BY <1>2, <1>4
  <1>7. \A d \in Drives, f \in Files : d # e \/ f # g => changed'[d][f] = changed[d][f]
    BY <1>2, <1>4
  <1>8. \A d \in Drives, f \in Files : d # e \/ f # g => (f \in alive'[d] <=> f \in alive[d])
    BY <1>2, <1>5
  <1>9. head[e] \in Nat
    BY <1>2
  <1>10. \A d \in Drives, f \in Files :
            d # e \/ f # g => changed'[d][f] = changed[d][f] /\ (f \in alive'[d] <=> f \in alive[d])
    BY <1>7, <1>8
  <1>11. \A d \in Drives : head'[d] = IF d = e THEN head[d] + 1 ELSE head[d]
    BY <1>2, <1>4
  <1> QED BY <1>6, <1>9, <1>10, <1>11

\* Tokens stay within the change log, and a delta listing's stays committed.
LEMMA TokensStep ==
    ASSUME Calm, Typed, OneWorker, NoCancels, Tokens, [Next]_vars
    PROVE  Tokens'
  <1>t. /\ \A d \in Drives : /\ reg[d].rotate \in Nat /\ reg[d].pending \in Nat
                             /\ reg'[d].rotate \in Nat /\ reg'[d].pending \in Nat
                             /\ head[d] \in Nat /\ head[d] > 0
                             /\ alive[d] \subseteq Files
                             /\ \A f \in Files : changed[d][f] \in Nat
        /\ \A w \in Workers : /\ wk[w].token \in Nat
                              /\ wk[w].pc \notin Away => MyDrive(w) \in Drives
    <2>1. Typed'
      BY NextTyped
    <2>2. RegistryTypeOK /\ RegistryTypeOK' /\ GDriveTypeOK
      BY <2>1 DEF Typed, TypeOK
    <2>3. \A w \in Workers : wk[w].token \in Nat /\ (wk[w].pc \notin Away => MyDrive(w) \in Drives)
      BY WorkerMoves DEF Typed
    <2> QED BY <2>2, <2>3 DEF RegistryTypeOK, GDriveTypeOK, Row
  <1>h. /\ \A d \in Drives : head'[d] \in Nat /\ head'[d] >= head[d]
        /\ \A d \in Drives : \A f \in Files : changed'[d][f] <= head'[d]
        /\ \A d \in Drives : \A f \in alive'[d] : f \in Files /\ changed'[d][f] > 0
    <2>1. CASE UNCHANGED gdriveVars
      BY <1>t, <2>1 DEF gdriveVars, Tokens
    <2>2. CASE UserEdits
      <3>1. PICK e \in Drives, g \in Files :
               /\ \A d \in Drives : head'[d] = IF d = e THEN head[d] + 1 ELSE head[d]
               /\ changed'[e][g] = head[e] + 1
               /\ \A d \in Drives, f \in Files :
                     d # e \/ f # g => /\ changed'[d][f] = changed[d][f]
                                       /\ f \in alive'[d] <=> f \in alive[d]
        BY <2>2, EditMoves
      <3>4. \A d \in Drives : alive'[d] \subseteq Files
        BY NextTyped DEF Typed, TypeOK, GDriveTypeOK
      <3> QED BY <1>t, <3>1, <3>4 DEF Tokens
    <2> QED BY <2>1, <2>2, OthersStay
  <1>r. \A d \in Drives : reg'[d].rotate <= head'[d] /\ reg'[d].pending <= head'[d]
    <2> SUFFICES ASSUME NEW d \in Drives
                 PROVE  reg'[d].rotate <= head'[d] /\ reg'[d].pending <= head'[d]
      OBVIOUS
    <2>1. RowMoves(d)
      BY RowsMove
    <2>2. reg'[d].rotate <= head[d]
      BY <1>t, <2>1 DEF RowMoves, Tokens
    <2>3. reg'[d].pending <= head[d]
      BY <1>t, <2>1 DEF RowMoves, Tokens, NoToken
    <2> QED BY <1>h, <1>t, <2>2, <2>3
  <1>k. ASSUME NEW w \in Workers, wk[w].pc \in {"open", "claim", "token", "files"}
        PROVE  reg'[MyDrive(w)].rotate = reg[MyDrive(w)].rotate
    <2>1. MyDrive(w) \in Drives
      BY <1>k, <1>t DEF Away
    <2>2. ~\E v \in Workers : wk[v].pc = "commit"
      BY <1>k, SameWorker
    <2> QED BY <2>1, <2>2, RowsMove DEF RowMoves
  <1>1. ASSUME NEW w \in Workers, wk'[w] = wk[w]
        PROVE  /\ wk'[w].pc \in {"files", "begin"} => wk'[w].token <= head'[wk'[w].task.drive]
               /\ wk'[w].pc \in {"claim", "token"}
                     => wk'[w].token = reg'[wk'[w].task.drive].rotate
               /\ wk'[w].pc = "files" /\ wk'[w].task.kind # "list_full"
                     => wk'[w].token = reg'[wk'[w].task.drive].rotate
    BY <1>1, <1>h, <1>k, <1>t DEF Tokens, MyDrive, Full, Away
  <1>2. ASSUME NEW w \in Workers, WorkerStep(w), UNCHANGED gdriveVars
        PROVE  /\ wk'[w].pc \in {"files", "begin"} => wk'[w].token <= head'[wk'[w].task.drive]
               /\ wk'[w].pc \in {"claim", "token"}
                     => wk'[w].token = reg'[wk'[w].task.drive].rotate
               /\ wk'[w].pc = "files" /\ wk'[w].task.kind # "list_full"
                     => wk'[w].token = reg'[wk'[w].task.drive].rotate
    <2>1. CASE wk'[w].pc = "claim"
      BY <1>2, <1>k, <2>1, Arrivals DEF MyDrive
    <2>2. CASE wk'[w].pc = "token"
      BY <1>2, <1>k, <2>2, Arrivals DEF MyDrive, Tokens
    <2>3. CASE wk'[w].pc = "files"
      <3>1. /\ wk[w].pc = "token"
            /\ \/ wk'[w].token = wk[w].token /\ wk'[w].task = wk[w].task
               \/ /\ wk'[w].token = head[MyDrive(w)]
                  /\ wk'[w].task = TaskFor("list_full", MyDrive(w))
        BY <1>2, <2>3, Arrivals
      <3>2. MyDrive(w) \in Drives
        BY <1>t, <3>1 DEF Away
      <3>3. wk[w].token = reg[MyDrive(w)].rotate
        BY <3>1 DEF Tokens
      <3>4. CASE wk'[w].token = wk[w].token /\ wk'[w].task = wk[w].task
        BY <1>k, <1>r, <2>3, <3>1, <3>2, <3>3, <3>4 DEF MyDrive
      <3>5. CASE wk'[w].token = head[MyDrive(w)] /\ wk'[w].task = TaskFor("list_full", MyDrive(w))
        BY <1>h, <1>t, <2>3, <3>2, <3>5 DEF TaskFor
      <3> QED BY <3>1, <3>4, <3>5
    <2>4. CASE wk'[w].pc = "begin"
      <3>1. /\ wk[w].pc = "files" /\ wk'[w].task = wk[w].task
            /\ wk'[w].token = wk[w].token \/ wk'[w].token = head[MyDrive(w)]
        BY <1>2, <2>4, Arrivals DEF ListFiles, At
      <3>2. MyDrive(w) \in Drives /\ wk[w].token <= head[MyDrive(w)]
        BY <1>t, <3>1 DEF Away, Tokens
      <3> QED BY <1>2, <1>t, <2>4, <3>1, <3>2 DEF MyDrive, gdriveVars
    <2> QED BY <2>1, <2>2, <2>3, <2>4
  <1>3. ASSUME NEW w \in Workers, wk'[w] = AtQueue
        PROVE  wk'[w].pc \notin {"claim", "token", "files", "begin"}
    BY <1>3 DEF AtQueue
  <1>4. \A w \in Workers :
           /\ wk'[w].pc \in {"files", "begin"} => wk'[w].token <= head'[wk'[w].task.drive]
           /\ wk'[w].pc \in {"claim", "token"}
                 => wk'[w].token = reg'[wk'[w].task.drive].rotate
           /\ wk'[w].pc = "files" /\ wk'[w].task.kind # "list_full"
                 => wk'[w].token = reg'[wk'[w].task.drive].rotate
    BY <1>1, <1>2, <1>3, OthersStay
  <1> QED BY <1>h, <1>r, <1>4 DEF Tokens, MyDrive, Full

-----------------------------------------------------------------------------
(* The changes a token covers. *)

\* Only a worker that lists the drive's files makes a token cover a change
\* that no token covered before.
LEMMA CoveredMoves ==
    ASSUME Calm, Typed, OneWorker, NoCancels, Tokens, [Next]_vars,
           NEW d \in Drives, NEW f \in alive'[d], Covered(d, f)'
    PROVE  /\ f \in alive[d] /\ changed'[d][f] = changed[d][f] /\ f \in Files
           /\ \/ Covered(d, f)
              \/ \E w \in Workers : ListFiles(w) /\ MyDrive(w) = d
  <1>t. /\ reg[d].rotate \in Nat /\ reg[d].pending \in Nat /\ head[d] \in Nat
        /\ changed[d][f] \in Nat /\ f \in Files
        /\ \A w \in Workers : wk[w].token \in Nat
    <2>1. Typed'
      BY NextTyped
    <2>2. f \in Files
      BY <2>1 DEF Typed, TypeOK, GDriveTypeOK
    <2>3. \A w \in Workers : wk[w].token \in Nat
      BY WorkerMoves DEF Typed
    <2> QED BY <2>2, <2>3 DEF Typed, TypeOK, RegistryTypeOK, GDriveTypeOK, Row
  <1>p. changed'[d][f] > 0
    BY TokensStep DEF Tokens
  <1>r. /\ reg'[d].rotate \in {reg[d].rotate, reg[d].pending}
        /\ \/ reg'[d].pending \in {reg[d].pending, 0}
           \/ \E w \in Workers : /\ wk[w].pc = "begin" /\ MyDrive(w) = d
                                 /\ reg'[d].pending = wk[w].token
    BY RowsMove DEF RowMoves, NoToken
  <1>1. CASE UserEdits
    <2>1. UNCHANGED <<reg, wk>>
      BY <1>1 DEF UserEdits, dbVars, workerVars
    <2>2. PICK e \in Drives, g \in Files :
             /\ \A c \in Drives : head'[c] = IF c = e THEN head[c] + 1 ELSE head[c]
             /\ changed'[e][g] = head[e] + 1
             /\ \A c \in Drives, h \in Files :
                   c # e \/ h # g => /\ changed'[c][h] = changed[c][h]
                                     /\ h \in alive'[c] <=> h \in alive[c]
      BY <1>1, EditMoves
    <2>3. CASE d = e /\ f = g
      <3>1. ASSUME NEW w \in Workers, wk[w].pc = "begin", MyDrive(w) = d
            PROVE  wk[w].token <= head[d]
        BY <3>1 DEF Tokens
      <3>2. reg[d].rotate <= head[d] /\ reg[d].pending <= head[d]
        BY DEF Tokens
      <3>3. changed'[d][f] = head[d] + 1
        BY <2>2, <2>3
      <3> QED BY <1>t, <2>1, <3>1, <3>2, <3>3 DEF Covered, MyDrive
    <2>4. CASE d # e \/ f # g
      BY <1>t, <2>1, <2>2, <2>4 DEF Covered, MyDrive
    <2> QED BY <2>3, <2>4
  <1>2. CASE UNCHANGED gdriveVars
    <2>1. f \in alive[d] /\ changed'[d][f] = changed[d][f]
      BY <1>2 DEF gdriveVars
    <2>2. CASE changed'[d][f] <= reg'[d].rotate
      BY <1>r, <1>t, <2>1, <2>2 DEF Covered
    <2>3. CASE changed'[d][f] <= reg'[d].pending
      BY <1>p, <1>r, <1>t, <2>1, <2>3 DEF Covered
    <2>4. ASSUME NEW w \in Workers, wk'[w].pc = "begin", wk'[w].task.drive = d,
                 changed'[d][f] <= wk'[w].token
          PROVE  Covered(d, f) \/ \E v \in Workers : ListFiles(v) /\ MyDrive(v) = d
      <3>1. CASE wk'[w] = wk[w]
        BY <1>t, <2>1, <2>4, <3>1 DEF Covered, MyDrive
      <3>2. CASE wk'[w] = AtQueue
        BY <2>4, <3>2 DEF AtQueue
      <3>3. CASE WorkerStep(w)
        <4>1. ListFiles(w) /\ wk'[w].task = wk[w].task
          BY <2>4, <3>3, Arrivals
        <4> QED BY <2>4, <4>1 DEF MyDrive
      <3> QED BY <3>1, <3>2, <3>3, <1>2, OthersStay
    <2> QED BY <1>t, <2>1, <2>2, <2>3, <2>4 DEF Covered, MyDrive
  <1> QED BY <1>1, <1>2, OthersStay

\* w keeps a task that will index f, and is not given one that removes it.
KeepsTasks(w, d, f) ==
    /\ Redone(d, f) \in wk[w].todo => Redone(d, f) \in wk'[w].todo
    /\ Undone(d, f) \in wk'[w].todo => Undone(d, f) \in wk[w].todo
    /\ wk[w].task = Redone(d, f) => wk'[w].task = Redone(d, f)
    /\ wk'[w].task = Undone(d, f) => wk[w].task = Undone(d, f)

\* A change stays settled while the tasks about the file stay where they are.
LEMMA SettledFrame ==
    ASSUME NEW d, NEW f, Settled(d, f),
           reg[d].failed \subseteq reg'[d].failed,
           docs'[d][f] = docs[d][f], changed'[d][f] = changed[d][f],
           \A i \in DOMAIN queue : i \in DOMAIN queue' /\ queue'[i] = queue[i],
           \A i \in DOMAIN queue' : i \in DOMAIN queue \/ queue'[i] # Undone(d, f),
           \A w \in Workers : KeepsTasks(w, d, f)
    PROVE  Settled(d, f)'
  <1> USE DEF KeepsTasks
  <1>1. CASE f \in reg[d].failed
    BY <1>1 DEF Settled
  <1>2. CASE WillIndex(d, f)
    <2>1. WillIndex(d, f)'
      <3>1. CASE \E w \in Workers : Redone(d, f) \in wk[w].todo
        BY <3>1 DEF WillIndex, Redone
      <3>2. CASE /\ \A w \in Workers : Undone(d, f) \notin wk[w].todo
                 /\ \E i \in DOMAIN queue :
                       /\ queue[i] = Redone(d, f)
                       /\ \A j \in DOMAIN queue : j > i => queue[j] # Undone(d, f)
        <4>1. PICK i \in DOMAIN queue :
                 /\ queue[i] = Redone(d, f)
                 /\ \A j \in DOMAIN queue : j > i => queue[j] # Undone(d, f)
          BY <3>2
        <4>2. \A j \in DOMAIN queue' : j > i => queue'[j] # Undone(d, f)
          BY <4>1
        <4>3. i \in DOMAIN queue' /\ queue'[i] = Redone(d, f)
          BY <4>1
        <4> QED BY <3>2, <4>2, <4>3 DEF WillIndex, Redone, Undone
      <3> QED BY <1>2, <3>1, <3>2 DEF WillIndex
    <2> QED BY <2>1 DEF Settled
  <1>3. CASE NowIndexed(d, f)
    <2>1. \A i \in DOMAIN queue' : queue'[i] # Undone(d, f)
      BY <1>3 DEF NowIndexed
    <2>2. \A w \in Workers : Undone(d, f) \notin wk'[w].todo
      BY <1>3 DEF NowIndexed
    <2>3. \/ \E w \in Workers : wk'[w].task = Redone(d, f)
          \/ docs'[d][f] = changed'[d][f] /\ \A w \in Workers : wk'[w].task # Undone(d, f)
      BY <1>3 DEF NowIndexed
    <2> QED BY <2>1, <2>2, <2>3 DEF Settled, NowIndexed, Redone, Undone
  <1> QED BY <1>1, <1>2, <1>3 DEF Settled

\* The tasks about one file, by their kind.
LEMMA TaskKinds ==
    /\ \A d, f : /\ Redone(d, f).kind = "file" /\ Undone(d, f).kind = "file_delete"
                 /\ Redone(d, f).file = f /\ Undone(d, f).file = f
                 /\ Redone(d, f) # Undone(d, f)
                 /\ Redone(d, f).drive = d /\ Undone(d, f).drive = d
    /\ \A t \in Task : /\ t.kind = "file" => t = Redone(t.drive, t.file)
                       /\ t.kind = "file_delete" => t = Undone(t.drive, t.file)
    /\ NoTask.kind = "none"
  <1>1. \A d, f : /\ Redone(d, f).kind = "file" /\ Undone(d, f).kind = "file_delete"
                  /\ Redone(d, f).file = f /\ Undone(d, f).file = f
                  /\ Redone(d, f).drive = d /\ Undone(d, f).drive = d
    BY DEF Redone, Undone, FileTask
  <1>2. ASSUME NEW t \in Task
        PROVE  /\ t.kind = "file" => t = Redone(t.drive, t.file)
               /\ t.kind = "file_delete" => t = Undone(t.drive, t.file)
    BY DEF Redone, Undone, FileTask, Task
  <1> QED BY <1>1, <1>2 DEF NoTask

\* While a worker runs, the others have no task.
LEMMA OthersIdle ==
    ASSUME OneWorker, LocalsOK, NEW w \in Workers, wk[w].pc # "off",
           NEW v \in Workers, v # w
    PROVE  wk[v].task.kind = "none" /\ wk[v].todo = {}
  <1>1. wk[v].pc = "off"
    BY SameWorker
  <1> QED BY <1>1 DEF LocalsOK, LocalOK, KindOf, ListPCs

\* Taking the first task of the queue keeps a change settled: the task goes
\* from the queue into the worker's hands.
LEMMA SettledTake ==
    ASSUME Typed, OneWorker, LocalsOK, NEW w \in Workers, Take(w),
           NEW d \in Drives, NEW f, WillIndex(d, f) \/ NowIndexed(d, f)
    PROVE  WillIndex(d, f)' \/ NowIndexed(d, f)'
  <1> DEFINE h == Head(queue)
  <1>1. /\ queue \in Seq(Task) /\ queue # <<>> /\ queue' = Tail(queue) /\ h \in Task
        /\ docs' = docs /\ changed' = changed
        /\ wk[w].pc = "idle"
    BY DEF Take, At, Typed, TypeOK, QueueTypeOK, dbVars, gdriveVars
  <1>2. \A v \in Workers \ {w} : wk'[v] = wk[v] /\ wk[v].task.kind = "none" /\ wk[v].todo = {}
    <2>1. \A v \in Workers \ {w} : wk'[v] = wk[v]
      BY DEF Take, Become, Typed, TypeOK
    <2> QED BY <1>1, <2>1, OthersIdle
  <1>3. wk[w].task.kind = "none" /\ wk[w].todo = {}
    BY <1>1 DEF LocalsOK, LocalOK, KindOf, ListPCs
  <1>4. /\ wk'[w].todo = {}
        /\ wk'[w].task = h \/ (wk'[w] = wk[w] /\ h.kind \in ListKinds)
    <2>1. \/ wk' = wk /\ h.kind \in ListKinds
          \/ Become(w, [AtQueue EXCEPT !.pc = EntryPC(h.kind), !.task = h])
      BY DEF Take
    <2>2. CASE wk' = wk /\ h.kind \in ListKinds
      BY <1>3, <2>2
    <2>3. CASE Become(w, [AtQueue EXCEPT !.pc = EntryPC(h.kind), !.task = h])
      <3>1. wk'[w] = [AtQueue EXCEPT !.pc = EntryPC(h.kind), !.task = h]
        BY <2>3 DEF Become, Typed, TypeOK
      <3> QED BY <3>1 DEF AtQueue
    <2> QED BY <2>1, <2>2, <2>3
  <1>5. \A v \in Workers : wk'[v].todo = {}
    BY <1>2, <1>4
  <1>6. /\ Len(queue) > 0 /\ h = queue[1]
        /\ DOMAIN queue = 1 .. Len(queue) /\ DOMAIN queue' = 1 .. (Len(queue) - 1)
        /\ \A i \in DOMAIN queue' : queue'[i] = queue[i + 1] /\ i + 1 \in DOMAIN queue
    BY <1>1
  <1>7. CASE WillIndex(d, f)
    <2>1. PICK i \in DOMAIN queue : /\ queue[i] = Redone(d, f)
                                    /\ \A j \in DOMAIN queue : j > i => queue[j] # Undone(d, f)
      BY <1>2, <1>3, <1>7 DEF WillIndex
    <2>2. CASE i = 1
      <3>1. wk'[w].task = Redone(d, f)
        BY <1>4, <1>6, <2>1, <2>2, TaskKinds DEF ListKinds
      <3>2. \A j \in DOMAIN queue' : queue'[j] # Undone(d, f)
        BY <1>6, <2>1, <2>2
      <3> QED BY <1>5, <3>1, <3>2 DEF NowIndexed, Redone, Undone
    <2>3. CASE i # 1
      <3>1. i - 1 \in DOMAIN queue' /\ queue'[i - 1] = Redone(d, f)
        <4>1. i \in 1 .. Len(queue) /\ Len(queue) \in Nat
          BY <1>1, <1>6
        <4>2. i - 1 \in DOMAIN queue' /\ (i - 1) + 1 = i
          BY <1>6, <2>3, <4>1
        <4>3. queue'[i - 1] = queue[(i - 1) + 1]
          BY <1>6, <4>2
        <4> QED BY <2>1, <4>2, <4>3
      <3>2. \A j \in DOMAIN queue' : j > i - 1 => queue'[j] # Undone(d, f)
        <4> SUFFICES ASSUME NEW j \in DOMAIN queue', j > i - 1 PROVE queue'[j] # Undone(d, f)
          OBVIOUS
        <4>1. queue'[j] = queue[j + 1] /\ j + 1 \in DOMAIN queue
          BY <1>6
        <4>2. j + 1 > i
          BY <1>6
        <4> QED BY <2>1, <4>1, <4>2
      <3> QED BY <1>5, <3>1, <3>2 DEF WillIndex, Redone, Undone
    <2> QED BY <2>2, <2>3
  <1>8. CASE NowIndexed(d, f)
    <2>1. \A j \in DOMAIN queue' : queue'[j] # Undone(d, f)
      BY <1>6, <1>8 DEF NowIndexed
    <2>2. \A v \in Workers : wk[v].task # Redone(d, f)
      BY <1>2, <1>3, TaskKinds
    <2>3. docs'[d][f] = changed'[d][f]
      BY <1>1, <1>8, <2>2 DEF NowIndexed
    <2>4. \A v \in Workers : wk'[v].task # Undone(d, f)
      <3>1. h # Undone(d, f)
        BY <1>6, <1>8 DEF NowIndexed
      <3> QED BY <1>2, <1>3, <1>4, <3>1, TaskKinds
    <2> QED BY <1>5, <2>1, <2>3, <2>4 DEF NowIndexed, Redone, Undone
  <1> QED BY <1>7, <1>8

\* Putting a listed task at the end of the queue keeps a change settled.
LEMMA SettledPut ==
    ASSUME Typed, OneWorker, NoCancels, LocalsOK, NEW w \in Workers, ListPut(w),
           NEW d \in Drives, NEW f, Settled(d, f)
    PROVE  Settled(d, f)'
  <1>d. MyDrive(w) \in Drives /\ wk[w].pc # "off"
    BY WorkerMoves DEF ListPut, At, Away, Typed
  <1>1. PICK t \in wk[w].todo : Enqueue(t) /\ Become(w, [wk[w] EXCEPT !.todo = @ \ {t}])
    BY <1>d DEF ListPut, NoCancels
  <1>2. /\ wk[w] \in Worker /\ LocalOK(wk[w]) /\ t \in Task /\ queue \in Seq(Task)
        /\ queue' = Append(queue, t)
        /\ UNCHANGED <<reg, docs, changed>>
    BY <1>1 DEF Typed, TypeOK, QueueTypeOK, LocalsOK, Worker, Enqueue, ListPut, dbVars, gdriveVars
  <1>3. /\ wk'[w] = [wk[w] EXCEPT !.todo = @ \ {t}]
        /\ \A v \in Workers \ {w} : wk'[v] = wk[v]
    BY <1>1 DEF Become, Typed, TypeOK
  <1>4. wk'[w].todo = wk[w].todo \ {t} /\ wk'[w].task = wk[w].task
    BY <1>2, <1>3 DEF Worker
  <1>5. \A v \in Workers \ {w} : wk[v].todo = {}
    BY <1>d, OthersIdle
  <1>q. /\ \A i \in DOMAIN queue : i \in DOMAIN queue' /\ queue'[i] = queue[i] /\ i \in Nat
        /\ \A i \in DOMAIN queue' : i \in DOMAIN queue \/ i = Len(queue) + 1
        /\ Len(queue) + 1 \in DOMAIN queue' /\ queue'[Len(queue) + 1] = t
        /\ \A i \in DOMAIN queue' : i <= Len(queue) + 1
    BY <1>2
  <1>6. CASE t # Redone(d, f) /\ t # Undone(d, f)
    <2>1. \A i \in DOMAIN queue' : i \in DOMAIN queue \/ queue'[i] # Undone(d, f)
      BY <1>6, <1>q
    <2>2. \A v \in Workers : KeepsTasks(v, d, f)
      <3>1. \A v \in Workers : wk'[v].task = wk[v].task
        BY <1>3, <1>4
      <3>2. \A v \in Workers : \A u : u # t => (u \in wk'[v].todo <=> u \in wk[v].todo)
        BY <1>3, <1>4
      <3> QED BY <1>6, <3>1, <3>2 DEF KeepsTasks
    <2> QED BY <1>2, <1>q, <2>1, <2>2, SettledFrame
  <1>7. CASE f \in reg[d].failed
    BY <1>2, <1>7 DEF Settled
  <1>8. CASE t = Redone(d, f)
    <2>1. Undone(d, f) \notin wk[w].todo
      BY <1>2, <1>8, TaskKinds DEF LocalOK
    <2>2. \A v \in Workers : Undone(d, f) \notin wk'[v].todo
      BY <1>3, <1>4, <1>5, <2>1
    <2>3. \A j \in DOMAIN queue' : ~(j > Len(queue) + 1)
      BY <1>q, <1>2
    <2>4. WillIndex(d, f)'
      BY <1>8, <1>q, <2>2, <2>3 DEF WillIndex, Redone, Undone
    <2> QED BY <2>4 DEF Settled
  <1>9. CASE t = Undone(d, f) /\ f \notin reg[d].failed
    <2>1. Redone(d, f) \notin wk[w].todo
      BY <1>2, <1>9, TaskKinds DEF LocalOK
    <2>2. \A v \in Workers : Redone(d, f) \notin wk[v].todo
      BY <1>5, <2>1
    <2> QED BY <1>9, <2>2 DEF Settled, WillIndex, NowIndexed
  <1> QED BY <1>6, <1>7, <1>8, <1>9

\* A worker that ends a file's task, or removes a file's chunks, leaves the
\* last version of the file in the index or the file among the failed ones.
LEMMA SettledFile ==
    ASSUME Calm, Typed, OneWorker, NoCancels, LocalsOK, VersionsFresh, [Next]_vars,
           NEW w \in Workers, FileUpsert(w) \/ FileFails(w) \/ DeleteChunks(w),
           NEW d \in Drives, NEW f \in alive[d], Covered(d, f), Settled(d, f)
    PROVE  Settled(d, f)'
  <1> DEFINE e == MyDrive(w)
             g == MyFile(w)
  <1>1. /\ wk[w].pc \in {"fetch", "upsert", "delete"} /\ Return(w)
        /\ UNCHANGED <<queue, changed, alive>>
    BY DEF FileUpsert, FileFails, DeleteChunks, At, queueVars, gdriveVars
  <1>2. /\ e \in Drives /\ g \in Files /\ wk[w].task \in Task /\ f \in Files
        /\ docs \in [Drives -> [Files -> Nat]] /\ reg \in [Drives -> Row] /\ wk[w].todo = {}
    <2>1. e \in Drives /\ g \in Files /\ wk[w].task \in Task
      BY <1>1, WorkerMoves DEF Typed, Away, WorkersOK, WorkerOK, FilePCs
    <2>2. wk[w].todo = {}
      BY <1>1 DEF LocalsOK, LocalOK
    <2> QED BY <2>1, <2>2 DEF Typed, TypeOK, RegistryTypeOK, GDriveTypeOK
  <1>3. /\ wk'[w] = AtQueue
        /\ \A v \in Workers \ {w} : /\ wk'[v] = wk[v]
                                    /\ wk[v].task.kind = "none" /\ wk[v].todo = {}
    <2>1. wk'[w] = AtQueue /\ \A v \in Workers \ {w} : wk'[v] = wk[v]
      BY <1>1 DEF Return, Become, Typed, TypeOK
    <2> QED BY <1>1, <2>1, OthersIdle
  <1>4. \A v \in Workers : wk'[v].todo = {} /\ wk'[v].task.kind = "none"
    BY <1>3 DEF AtQueue, NoTask
  <1>5. \A v \in Workers : wk'[v].task # Undone(d, f)
    BY <1>4, TaskKinds
  <1>6. reg[d].failed \subseteq reg'[d].failed
    BY RowsMove DEF RowMoves
  <1>7. AddFailedFile(e, g) => g \in reg'[e].failed
    <2>1. reg[e].exists /\ reg[e] \in Row
      BY <1>2 DEF NoCancels
    <2> QED BY <1>2, <2>1 DEF AddFailedFile, UpdateRow, Row
  <1>8. CASE f \in reg[d].failed
    BY <1>6, <1>8 DEF Settled
  <1>9. CASE WillIndex(d, f)
    <2>1. PICK i \in DOMAIN queue : /\ queue[i] = Redone(d, f)
                                    /\ \A j \in DOMAIN queue : j > i => queue[j] # Undone(d, f)
      BY <1>2, <1>3, <1>9 DEF WillIndex
    <2>2. WillIndex(d, f)'
      BY <1>1, <1>4, <2>1 DEF WillIndex, Redone, Undone
    <2> QED BY <2>2 DEF Settled
  <1>10. CASE NowIndexed(d, f)
    <2>1. \A j \in DOMAIN queue' : queue'[j] # Undone(d, f)
      BY <1>1, <1>10 DEF NowIndexed
    <2>2. ASSUME docs'[d][f] = changed'[d][f] PROVE Settled(d, f)'
      <3>1. NowIndexed(d, f)'
        BY <1>4, <1>5, <2>1, <2>2 DEF NowIndexed, Redone, Undone
      <3> QED BY <3>1 DEF Settled
    <2>3. CASE wk[w].task = Redone(d, f)
      <3>1. /\ e = d /\ g = f /\ wk[w].task.kind = "file" /\ ~DeleteChunks(w)
        <4>1. e = d /\ g = f /\ wk[w].task.kind = "file"
          BY <2>3, TaskKinds DEF MyDrive, MyFile
        <4>2. wk[w].pc # "delete"
          BY <4>1 DEF LocalsOK, LocalOK, KindOf, ListPCs
        <4> QED BY <4>1, <4>2 DEF DeleteChunks, At
      <3>2. CASE AddFailedFile(e, g)
        BY <1>7, <3>1, <3>2 DEF Settled
      <3>3. CASE FileUpsert(w) /\ schema[e]
        <4>1. wk[w].pc = "upsert" /\ docs' = [docs EXCEPT ![e][g] = wk[w].version]
          BY <3>3 DEF FileUpsert, At, UpsertChunks
        <4>2. wk[w].version = changed[d][f]
          BY <3>1, <4>1 DEF VersionsFresh
        <4>3. docs'[d][f] = changed'[d][f]
          BY <1>1, <1>2, <3>1, <4>1, <4>2
        <4> QED BY <2>2, <4>3
      <3> QED BY <3>1, <3>2, <3>3 DEF FileUpsert, FileFails
    <2>4. CASE wk[w].task # Redone(d, f)
      <3>1. /\ docs[d][f] = changed[d][f] /\ wk[w].task # Undone(d, f)
        <4>1. \A v \in Workers : wk[v].task # Redone(d, f)
          BY <1>3, <2>4, TaskKinds
        <4> QED BY <1>10, <4>1 DEF NowIndexed
      <3>2. e # d \/ g # f
        <4>1. wk[w].task.kind \in {"file", "file_delete"}
          BY <1>1 DEF LocalsOK, LocalOK, KindOf, ListPCs
        <4>2. wk[w].task = Redone(e, g) \/ wk[w].task = Undone(e, g)
          BY <1>2, <4>1, TaskKinds DEF MyDrive, MyFile
        <4> QED BY <2>4, <3>1, <4>2
      <3>3. \/ docs' = docs
            \/ \E v : docs' = [docs EXCEPT ![e][g] = v]
        BY DEF FileUpsert, FileFails, DeleteChunks, UpsertChunks, DeleteByFileId
      <3>4. docs'[d][f] = docs[d][f]
        BY <1>2, <3>2, <3>3
      <3> QED BY <1>1, <2>2, <3>1, <3>4
    <2> QED BY <2>3, <2>4
  <1> QED BY <1>8, <1>9, <1>10 DEF Settled

\* The other steps of a worker leave the tasks about an existing file alone.
LEMMA TasksKept ==
    ASSUME Calm, Typed, OneWorker, NoCancels, LocalsOK, NEW w \in Workers, WorkerStep(w),
           ~Take(w), ~ListPut(w), ~FileUpsert(w), ~FileFails(w), ~DeleteChunks(w),
           NEW d \in Drives, NEW f \in alive[d] \ Unsupported
    PROVE  KeepsTasks(w, d, f) /\ UNCHANGED <<queue, docs>>
  <1> DEFINE x == wk[w]
             y == wk'[w]
  <1>0. x \in Worker /\ LocalOK(x)
    BY DEF Typed, TypeOK, LocalsOK
  <1>1. UNCHANGED <<queue, docs>>
    BY Zenon DEF WorkerStep, GetTimeout, ListOpen, ListClaim, ListToken, ListFiles, ListApiFails,
                 ListBegin, ListSchema, ListDbFails, ListDone, FileStart, FileFetch, FileEmpty,
                 DeleteStart, FinalizeStart, FinalizeEnd, TaskFails, queueVars, dbVars
  <1>a. ASSUME y.task = x.task, y.todo = x.todo PROVE KeepsTasks(w, d, f)
    BY <1>a DEF KeepsTasks
  <1>g. ASSUME NEW p, Goto(w, p) PROVE KeepsTasks(w, d, f)
    <2>1. y = [x EXCEPT !.pc = p]
      BY <1>g DEF Goto, Become, Typed, TypeOK
    <2> QED BY <1>0, <1>a, <2>1 DEF Worker
  <1>b. ASSUME x.task.kind \notin FileKinds, x.todo = {},
               \/ y.task.kind \notin FileKinds /\ y.todo = {}
               \/ y = AtQueue
        PROVE  KeepsTasks(w, d, f)
    BY <1>b, TaskKinds DEF KeepsTasks, FileKinds, AtQueue
  <1>2. CASE GetTimeout(w)
    BY <1>1, <1>2, <1>a DEF GetTimeout
  <1>3. CASE ListBegin(w) \/ ListSchema(w)
    BY <1>1, <1>3, <1>g DEF ListBegin, ListSchema
  <1>4. CASE FileStart(w) \/ DeleteStart(w)
    <2>1. MyDrive(w) \in Drives
      BY <1>4, WorkerMoves DEF FileStart, DeleteStart, At, Away, Typed
    <2>2. ~reg[MyDrive(w)].cancel
      BY <2>1 DEF NoCancels
    <2> QED BY <1>1, <1>4, <1>g, <2>2 DEF FileStart, DeleteStart, Calm
  <1>5. CASE FileFetch(w)
    <2>1. y = [x EXCEPT !.pc = "upsert", !.version = changed[MyDrive(w)][MyFile(w)]]
      BY <1>5 DEF FileFetch, Become, Typed, TypeOK
    <2> QED BY <1>0, <1>1, <1>a, <2>1 DEF Worker
  <1>6. CASE \/ ListOpen(w) \/ ListClaim(w) \/ ListToken(w) \/ ListApiFails(w) \/ ListDone(w)
             \/ FinalizeStart(w) \/ FinalizeEnd(w)
    <2>1. x.pc \in {"open", "claim", "token", "files", "put", "zstart", "commit"} /\ x.todo = {}
      BY <1>0, <1>6 DEF ListOpen, ListClaim, ListToken, ListApiFails, ListDone, FinalizeStart,
                        FinalizeEnd, At, LocalOK
    <2>2. x.task.kind \notin FileKinds
      BY <1>0, <2>1 DEF LocalOK, KindOf, ListPCs, ListKinds, FileKinds
    <2>3. y = AtQueue \/ ~(Take(w) \/ ListFiles(w))
      <3>1. CASE ListApiFails(w)
        BY <3>1 DEF ListApiFails, Return, Become, Typed, TypeOK
      <3>2. CASE ~ListApiFails(w)
        <4>1. x.pc \in {"open", "claim", "token", "put", "zstart", "commit"}
          BY <1>6, <3>2 DEF ListOpen, ListClaim, ListToken, ListDone, FinalizeStart,
                            FinalizeEnd, At
        <4> QED BY <4>1 DEF Take, ListFiles, At
      <3> QED BY <3>1, <3>2
    <2>4. TaskFor("list_full", MyDrive(w)).kind \notin FileKinds /\ NoTask.kind \notin FileKinds
      BY DEF TaskFor, NoTask, FileKinds
    <2> QED BY <1>1, <1>b, <2>1, <2>2, <2>3, <2>4, TaskMoves
  <1>7. CASE ListFiles(w)
    <2>1. x.pc = "files" /\ x.todo = {}
      BY <1>0, <1>7 DEF ListFiles, At, LocalOK
    <2>2. y.task = x.task /\ y.pc = "begin"
      <3>1. \/ Become(w, [x EXCEPT !.pc = "begin", !.todo = FullListing(MyDrive(w))])
            \/ Become(w, [x EXCEPT !.pc = "begin", !.todo = DeltaListing(MyDrive(w), x.token),
                                   !.token = StartPageToken(MyDrive(w))])
        BY <1>7 DEF ListFiles
      <3>2. \/ y = [x EXCEPT !.pc = "begin", !.todo = FullListing(MyDrive(w))]
            \/ y = [x EXCEPT !.pc = "begin", !.todo = DeltaListing(MyDrive(w), x.token),
                             !.token = StartPageToken(MyDrive(w))]
        BY <3>1 DEF Become, Typed, TypeOK
      <3> QED BY <1>0, <3>2 DEF Worker
    <2>3. y.todo = FullListing(MyDrive(w)) \/ y.todo = DeltaListing(MyDrive(w), x.token)
      BY <2>2, Arrivals
    <2>4. Undone(d, f) \notin FullListing(MyDrive(w))
      BY DEF FullListing, Undone, FileTask
    <2>5. Undone(d, f) \notin DeltaListing(MyDrive(w), x.token)
      BY DEF DeltaListing, Undone, FileTask
    <2> QED BY <1>1, <2>1, <2>2, <2>3, <2>4, <2>5 DEF KeepsTasks
  <1>8. CASE ListDbFails(w) \/ TaskFails(w)
    BY <1>8 DEF ListDbFails, TaskFails, Calm
  <1>9. CASE FileEmpty(w)
    <2>1. x.pc = "fetch" /\ MyFile(w) \in Unsupported /\ y = AtQueue
      BY <1>9 DEF FileEmpty, Calm, At, Return, Become, Typed, TypeOK
    <2>2. x.todo = {} /\ x.task # Redone(d, f)
      BY <1>0, <2>1, TaskKinds DEF LocalOK, MyFile
    <2> QED BY <1>1, <2>1, <2>2, TaskKinds DEF KeepsTasks, AtQueue
  <1> QED BY <1>1, <1>2, <1>3, <1>4, <1>5, <1>6, <1>7, <1>8, <1>9 DEF WorkerStep

\* A covered change of an existing file stays settled through every step that
\* does not change the file again.
LEMMA SettledStep ==
    ASSUME Calm, Typed, OneWorker, NoCancels, ListsEnabled, LocalsOK, VersionsFresh, [Next]_vars,
           NEW d \in Drives, NEW f \in alive[d] \ Unsupported,
           changed'[d][f] = changed[d][f], Covered(d, f), Settled(d, f)
    PROVE  Settled(d, f)'
  <1>1. reg[d].failed \subseteq reg'[d].failed
    BY RowsMove DEF RowMoves
  <1>2. queue \in Seq(Task) /\ mgr \in Manager /\ \A v \in Workers : wk[v] \in Worker
    BY DEF Typed, TypeOK, QueueTypeOK
  <1>3. \A v \in Workers : wk'[v] = wk[v] => KeepsTasks(v, d, f)
    BY DEF KeepsTasks
  <1>a. ASSUME \A v \in Workers : KeepsTasks(v, d, f), docs' = docs,
               \/ queue' = queue
               \/ \E t : queue' = Append(queue, t) /\ t.kind \notin FileKinds
        PROVE  Settled(d, f)'
    <2>1. /\ \A i \in DOMAIN queue : i \in DOMAIN queue' /\ queue'[i] = queue[i]
          /\ \A i \in DOMAIN queue' : i \in DOMAIN queue \/ queue'[i].kind \notin FileKinds
      BY <1>2, <1>a
    <2>2. \A i \in DOMAIN queue' : i \in DOMAIN queue \/ queue'[i] # Undone(d, f)
      BY <2>1, TaskKinds DEF FileKinds
    <2> QED BY <1>1, <1>a, <2>1, <2>2, SettledFrame
  <1>4. ASSUME NEW w \in Workers, WorkerStep(w) PROVE Settled(d, f)'
    <2>1. CASE Take(w)
      <3>1. UNCHANGED reg
        BY <2>1 DEF Take, dbVars
      <3> QED BY <2>1, <3>1, SettledTake DEF Settled
    <2>2. CASE ListPut(w)
      BY <2>2, SettledPut
    <2>3. CASE FileUpsert(w) \/ FileFails(w) \/ DeleteChunks(w)
      BY <2>3, SettledFile
    <2>4. CASE ~(Take(w) \/ ListPut(w) \/ FileUpsert(w) \/ FileFails(w) \/ DeleteChunks(w))
      <3>1. KeepsTasks(w, d, f) /\ UNCHANGED <<queue, docs>>
        BY <1>4, <2>4, TasksKept
      <3>2. \A v \in Workers \ {w} : wk'[v] = wk[v]
        <4>1. wk' = wk \/ \E x : Become(w, x)
          BY <1>4, WorkerStepShape
        <4> QED BY <4>1 DEF Become, Typed, TypeOK
      <3> QED BY <1>3, <1>a, <3>1, <3>2
    <2> QED BY <2>1, <2>2, <2>3, <2>4
  <1>5. ASSUME NEW w \in Workers, Spawn(w) PROVE Settled(d, f)'
    <2>1. /\ wk'[w] = AtQueue /\ \A v \in Workers \ {w} : wk'[v] = wk[v]
          /\ wk[w].pc = "off" /\ UNCHANGED <<queue, docs>>
      BY <1>5 DEF Spawn, At, Return, Become, Typed, TypeOK, queueVars, dbVars
    <2>2. wk[w].task.kind = "none" /\ wk[w].todo = {}
      BY <2>1 DEF LocalsOK, LocalOK, KindOf, ListPCs
    <2>3. KeepsTasks(w, d, f)
      BY <2>1, <2>2, TaskKinds DEF KeepsTasks, AtQueue
    <2> QED BY <1>3, <1>a, <2>1, <2>3
  <1>6. ASSUME NEW t \in mgr.lists, MgrList(t) PROVE Settled(d, f)'
    <2>1. /\ queue' = Append(queue, t) \/ queue' = queue
          /\ UNCHANGED <<wk, docs>>
      BY <1>6 DEF MgrList, Enqueue, workerVars, dbVars
    <2>2. t.kind \notin FileKinds
      BY DEF ListsEnabled, ListKinds, FileKinds
    <2> QED BY <1>3, <1>a, <2>1, <2>2
  <1>7. ASSUME NEW e \in Drives, MgrFinalize(e) PROVE Settled(d, f)'
    <2>1. /\ queue' = Append(queue, TaskFor("finalize", e)) \/ queue' = queue
          /\ UNCHANGED <<wk, docs>>
      BY <1>7 DEF MgrFinalize, Enqueue, workerVars, dbVars
    <2>2. TaskFor("finalize", e).kind \notin FileKinds
      BY DEF TaskFor, FileKinds
    <2> QED BY <1>3, <1>a, <2>1, <2>2
  <1>8. ASSUME \/ MgrRefresh \/ MgrReread \/ MgrDone \/ Start \/ CleanupZombies
               \/ \E e \in Drives : Enable(e) \/ SyncNow(e) \/ Register(e)
               \/ \E on \in BOOLEAN : SetPaused(on)
               \/ UserEdits \/ UNCHANGED vars
        PROVE  Settled(d, f)'
    <2>1. UNCHANGED <<wk, docs, queue>>
      BY <1>8, Zenon DEF MgrRefresh, MgrReread, MgrDone, Start, CleanupZombies, Enable, SyncNow,
                         Register, SetPaused, UserEdits, vars, workerVars, queueVars, dbVars
    <2> QED BY <1>3, <1>a, <2>1
  <1> QED BY <1>4, <1>5, <1>6, <1>7, <1>8, CalmSteps

\* Every step settles the changes it makes a token cover.
LEMMA CoveredStep ==
    ASSUME Calm, Typed, LossInv, [Next]_vars
    PROVE  CoveredSettled'
  <1> USE DEF LossInv
  <1> SUFFICES ASSUME NEW d \in Drives, NEW f \in alive'[d] \ Unsupported,
                      Covered(d, f)'
               PROVE  Settled(d, f)'
    BY DEF CoveredSettled
  <1>1. /\ f \in alive[d] /\ changed'[d][f] = changed[d][f] /\ f \in Files
        /\ \/ Covered(d, f)
           \/ \E w \in Workers : ListFiles(w) /\ MyDrive(w) = d
    BY CoveredMoves
  <1>2. CASE Covered(d, f)
    BY <1>1, <1>2, SettledStep DEF CoveredSettled
  <1>3. ASSUME NEW w \in Workers, ListFiles(w), MyDrive(w) = d, ~Covered(d, f)
        PROVE  Settled(d, f)'
    <2>1. wk[w].pc = "files" /\ wk'[w].pc = "begin"
      <3>1. \E x : Become(w, x) /\ x.pc = "begin"
        <4>1. \A s, t : /\ [wk[w] EXCEPT !.pc = "begin", !.todo = s].pc = "begin"
                        /\ [wk[w] EXCEPT !.pc = "begin", !.todo = s, !.token = t].pc = "begin"
          BY DEF Typed, TypeOK, Worker
        <4> QED BY <1>3, <4>1 DEF ListFiles
      <3> QED BY <1>3, <3>1 DEF ListFiles, At, Become, Typed, TypeOK
    <2>2. \/ Full(w) /\ wk'[w].todo = FullListing(d)
          \/ ~Full(w) /\ wk'[w].todo = DeltaListing(d, wk[w].token)
      BY <1>3, <2>1, Arrivals DEF WorkerStep
    <2>3. Redone(d, f) \in wk'[w].todo
      <3>1. CASE Full(w)
        BY <1>1, <2>2, <3>1 DEF FullListing, Redone, ListedFiles
      <3>2. CASE ~Full(w)
        <4>1. wk[w].token = reg[d].rotate
          BY <1>3, <2>1, <3>2 DEF Tokens
        <4>2. f \in ChangedSince(d, wk[w].token)
          <5>1. changed[d][f] \in Nat /\ reg[d].rotate \in Nat
            BY <1>1 DEF Typed, TypeOK, GDriveTypeOK, RegistryTypeOK, Row
          <5> QED BY <1>1, <1>3, <4>1, <5>1 DEF ChangedSince, Covered
        <4> QED BY <1>1, <2>2, <3>2, <4>2 DEF DeltaListing, Redone
      <3> QED BY <3>1, <3>2
    <2> QED BY <2>3 DEF Settled, WillIndex, Redone
  <1> QED BY <1>1, <1>2, <1>3

\* What a worker is about to store stays the last version, as long as a token
\* covers it: an edit takes the file's change out of every token's reach.
LEMMA VersionsStep ==
    ASSUME Calm, Typed, OneWorker, NoCancels, Tokens, VersionsFresh, [Next]_vars
    PROVE  VersionsFresh'
  <1> SUFFICES ASSUME NEW w \in Workers, wk'[w].pc = "upsert",
                      wk'[w].task.file \in alive'[wk'[w].task.drive],
                      Covered(MyDrive(w), MyFile(w))'
               PROVE  wk'[w].version = changed'[wk'[w].task.drive][wk'[w].task.file]
    BY DEF VersionsFresh, MyDrive, MyFile
  <1>1. wk'[w].task.drive \in Drives
    <2>1. WorkersOK'
      BY NextTyped DEF Typed
    <2> QED BY <2>1 DEF WorkersOK, WorkerOK, Away, Task
  <1>2. CASE wk'[w] = wk[w]
    <2>1. \/ changed'[MyDrive(w)][MyFile(w)] <= reg'[MyDrive(w)].rotate
          \/ changed'[MyDrive(w)][MyFile(w)] <= reg'[MyDrive(w)].pending
          \/ \E v \in Workers : /\ wk'[v].pc = "begin" /\ wk'[v].task.drive = MyDrive(w)
                                /\ changed'[MyDrive(w)][MyFile(w)] <= wk'[v].token
      BY <1>2 DEF Covered, MyDrive, MyFile
    <2> DEFINE d == MyDrive(w)
               f == MyFile(w)
    <2>2. /\ f \in alive[d] /\ changed'[d][f] = changed[d][f]
          /\ Covered(d, f) \/ \E v \in Workers : ListFiles(v) /\ MyDrive(v) = d
      <3>1. ASSUME NEW e \in Drives, NEW g \in alive'[e], Covered(e, g)'
            PROVE  /\ g \in alive[e] /\ changed'[e][g] = changed[e][g]
                   /\ Covered(e, g) \/ \E v \in Workers : ListFiles(v) /\ MyDrive(v) = e
        BY <3>1, CoveredMoves
      <3>2. PICK e \in Drives : e = d
        BY <1>1, <1>2 DEF MyDrive
      <3>3. PICK g \in alive'[e] : g = f
        BY <1>2, <3>2 DEF MyDrive, MyFile
      <3>4. Covered(e, g)'
        BY <2>1, <3>2, <3>3 DEF Covered, MyDrive
      <3> QED BY <3>1, <3>2, <3>3, <3>4
    <2>3. \A v \in Workers : ~ListFiles(v)
      BY <1>2, SameWorker DEF ListFiles, At
    <2> QED BY <1>2, <2>2, <2>3 DEF VersionsFresh, MyDrive, MyFile
  <1>3. CASE wk'[w] = AtQueue
    BY <1>3 DEF AtQueue
  <1>4. CASE WorkerStep(w) /\ UNCHANGED gdriveVars
    BY <1>4, Arrivals DEF gdriveVars, MyDrive, MyFile
  <1> QED BY <1>2, <1>3, <1>4, OthersStay

-----------------------------------------------------------------------------
(* The theorem. *)

\* LossInv holds in the initial states.
LEMMA LossInit ==
    ASSUME Calm, Init
    PROVE  LossInv
  <1>1. /\ \A d \in Drives : /\ reg[d].exists /\ reg[d].cancel = FALSE /\ reg[d].state # "building"
                             /\ reg[d].rotate = 0 /\ reg[d].pending = 0
        /\ queue = <<>> /\ keep = <<>> /\ pool = {} /\ api = NoRequest
        /\ \A w \in Workers : wk[w] = Off /\ beat[w] = IdleBeat
        /\ mgr.cancels = {} /\ mgr.lists = {} /\ mgr.pc = "down"
    <2>1. \A d \in Drives : reg[d] \in {NewRow, Enabled(NewRow, TRUE)}
      BY DEF Init
    <2>2. /\ NewRow.exists /\ NewRow.cancel = FALSE /\ NewRow.state = "idle"
          /\ NewRow.rotate = 0 /\ NewRow.pending = 0
      BY DEF NewRow, NoToken
    <2>3. Enabled(NewRow, TRUE) = [NewRow EXCEPT !.enabled = TRUE, !.state = "idle"]
      BY <2>2 DEF Enabled, NewRow
    <2>4. LET r == Enabled(NewRow, TRUE)
          IN  r.exists /\ r.cancel = FALSE /\ r.state = "idle" /\ r.rotate = 0 /\ r.pending = 0
      BY <2>3 DEF NewRow, NoToken
    <2>5. Down.cancels = {} /\ Down.lists = {} /\ Down.pc = "down"
      BY DEF Down, AtTop
    <2> QED BY <2>1, <2>2, <2>4, <2>5 DEF Init
  <1>2. /\ Off.pc = "off" /\ Off.task = NoTask /\ Off.todo = {} /\ ~Off.cancel
        /\ IdleBeat.age = 0 /\ NoTask.kind = "none"
    BY DEF Off, AtQueue, IdleBeat, NoTask
  <1>3. /\ \A d \in Drives : /\ head[d] = 1 /\ alive[d] \subseteq Files
                             /\ \A f \in Files : changed[d][f] = IF f \in alive[d] THEN 1 ELSE 0
    BY DEF Init, GDriveInit
  <1>4. OneWorker
    BY <1>1, <1>2 DEF OneWorker
  <1>5. NoCancels
    BY <1>1 DEF NoCancels
  <1>6. ListsEnabled
    BY <1>1, <1>2 DEF ListsEnabled, ListKinds
  <1>7. LocalsOK
    BY <1>1, <1>2 DEF LocalsOK, LocalOK, KindOf, ListPCs
  <1>8. Tokens
    BY <1>1, <1>2, <1>3 DEF Tokens
  <1>9. CoveredSettled
    BY <1>1, <1>2, <1>3 DEF CoveredSettled, Covered
  <1>10. VersionsFresh
    BY <1>1, <1>2 DEF VersionsFresh
  <1> QED BY <1>4, <1>5, <1>6, <1>7, <1>8, <1>9, <1>10 DEF LossInv

\* LossInv is inductive.
LEMMA LossStep ==
    ASSUME Calm, Typed, LossInv, [Next]_vars
    PROVE  LossInv'
  BY OneWorkerStep, NoCancelsStep, ListsEnabledStep, LocalsStep, TokensStep, CoveredStep,
     VersionsStep
     DEF LossInv

\* A change that is settled is indexed or tracked.
LEMMA LossImplies == LossInv => NoChangeLost
  <1> SUFFICES ASSUME LossInv, NEW d \in Drives, NEW f \in alive[d] \ Unsupported,
                      changed[d][f] <= reg[d].rotate
               PROVE  docs[d][f] = changed[d][f] \/ Tracked(d, f)
    BY DEF NoChangeLost
  <1>1. Settled(d, f)
    BY DEF LossInv, CoveredSettled, Covered
  <1>2. Redone(d, f).drive = d /\ Redone(d, f).file = f
    BY TaskKinds
  <1>3. CASE f \in reg[d].failed
    BY <1>3 DEF Tracked
  <1>4. CASE WillIndex(d, f)
    BY <1>2, <1>4 DEF WillIndex, Tracked
  <1>5. CASE NowIndexed(d, f)
    BY <1>2, <1>5 DEF NowIndexed, Tracked, MyDrive, MyFile
  <1> QED BY <1>1, <1>3, <1>4, <1>5 DEF Settled

\* In calm circumstances no change is lost: whatever drives and files there
\* are, and however the worker, the manager, the control API, the users' edits
\* and the failures of the Drive API or of single files interleave, a change
\* that the committed rotate_token has passed is indexed, on its way to the
\* index, or recorded in failed_files, if the file's type is supported.
THEOREM NothingLost ==
    ASSUME Calm
    PROVE  Spec => []NoChangeLost
  <1>1. Init => LossInv
    BY LossInit
  <1>2. Typed /\ LossInv /\ [Next]_vars => LossInv'
    BY LossStep
  <1>3. LossInv => NoChangeLost
    BY LossImplies
  <1> QED BY <1>1, <1>2, <1>3, TypedAlways, PTL DEF Spec

=============================================================================
