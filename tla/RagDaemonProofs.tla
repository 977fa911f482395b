--------------------------- MODULE RagDaemonProofs ---------------------------
(***************************************************************************)
(* Type correctness of RagDaemon, and who holds the advisory locks and what *)
(* the counters of queued tasks say, for every value of its constants.      *)
(* TypeOK is not inductive by itself: a worker that is in a handler has the *)
(* task the handler needs, which is what WorkersOK adds.                    *)
(***************************************************************************)
EXTENDS RagDaemon, FiniteSetTheorems, TLAPS

(* The operators of Registry and TaskQueue. *)

\* Each transaction on a row of fd_registry leaves a table of well-formed
\* rows (upsert_fd, set_enabled, set_state, begin_build, commit_build,
\* abort_build, request_cancel, set_rotate_token, add_failed_file).
LEMMA RowOps ==
    ASSUME RegistryTypeOK, NEW d \in Drives
    PROVE  /\ UpsertFd(d) \/ DeleteRow(d) => reg' \in [Drives -> Row]
           /\ \A on \in BOOLEAN : SetEnabled(d, on) => reg' \in [Drives -> Row]
           /\ SetError(d) \/ RequestCancel(d) \/ ClearRotate(d) => reg' \in [Drives -> Row]
           /\ \A t \in Nat : BeginBuild(d, t) => reg' \in [Drives -> Row]
           /\ CommitBuild(d) => reg' \in [Drives -> Row]
           /\ AbortBuild(d) => reg' \in [Drives -> Row]
           /\ \A f \in Files : AddFailedFile(d, f) => reg' \in [Drives -> Row]
  <1> USE DEF RegistryTypeOK
  <1>0. ASSUME NEW row \in Row, UpdateRow(d, row) PROVE reg' \in [Drives -> Row]
    BY <1>0 DEF UpdateRow
  <1>1. UpsertFd(d) \/ DeleteRow(d) => reg' \in [Drives -> Row]
    <2>1. NewRow \in Row
      BY DEF NewRow, Row, States, NoToken
    <2>2. NoRow \in Row
      BY <2>1 DEF NoRow, Row
    <2> QED BY <2>1, <2>2 DEF UpsertFd, DeleteRow
  <1>2. ASSUME NEW on \in BOOLEAN, SetEnabled(d, on) PROVE reg' \in [Drives -> Row]
    <2>1. Enabled(reg[d], on) \in Row
      BY reg[d] \in Row DEF Enabled, Row, States
    <2> QED BY <1>0, <1>2, <2>1 DEF SetEnabled
  <1>3. SetError(d) \/ RequestCancel(d) \/ ClearRotate(d) => reg' \in [Drives -> Row]
    <2>1. [reg[d] EXCEPT !.state = "error"] \in Row
      BY reg[d] \in Row, ZenonT(60) DEF Row, States
    <2>2. [reg[d] EXCEPT !.cancel = TRUE] \in Row
      BY reg[d] \in Row, ZenonT(60) DEF Row
    <2>3. [reg[d] EXCEPT !.rotate = NoToken] \in Row
      BY reg[d] \in Row, ZenonT(60) DEF Row, NoToken
    <2> QED BY <1>0, <2>1, <2>2, <2>3 DEF SetError, RequestCancel, ClearRotate
  <1>4. ASSUME NEW t \in Nat, BeginBuild(d, t) PROVE reg' \in [Drives -> Row]
    <2>1. [reg[d] EXCEPT !.state = "building", !.pending = t, !.cancel = FALSE] \in Row
      BY reg[d] \in Row, ZenonT(60) DEF Row, States
    <2> QED BY <1>0, <1>4, <2>1 DEF BeginBuild
  <1>5. ASSUME CommitBuild(d) PROVE reg' \in [Drives -> Row]
    <2>1. [reg[d] EXCEPT !.rotate = IF reg[d].pending # NoToken THEN reg[d].pending ELSE @,
                         !.pending = NoToken, !.cancel = FALSE, !.state = "idle"] \in Row
      BY reg[d] \in Row, ZenonT(60) DEF Row, States, NoToken
    <2> QED BY <1>0, <1>5, <2>1 DEF CommitBuild
  <1>6. ASSUME AbortBuild(d) PROVE reg' \in [Drives -> Row]
    <2>1. [reg[d] EXCEPT !.pending = NoToken, !.cancel = FALSE, !.state = "idle"] \in Row
      BY reg[d] \in Row, ZenonT(60) DEF Row, States, NoToken
    <2> QED BY <1>0, <1>6, <2>1 DEF AbortBuild
  <1>7. ASSUME NEW f \in Files, AddFailedFile(d, f) PROVE reg' \in [Drives -> Row]
    <2>1. [reg[d] EXCEPT !.failed = @ \cup {f}] \in Row
      BY reg[d] \in Row, ZenonT(60) DEF Row
    <2> QED BY <1>0, <1>7, <2>1 DEF AddFailedFile
  <1> QED BY <1>1, <1>2, <1>3, <1>4, <1>5, <1>6, <1>7

\* The queue operations leave sequences of tasks and a counter per drive
\* that is never negative (_enqueue, _mark_consumed, the drain loop).
LEMMA QueueOps ==
    ASSUME QueueTypeOK
    PROVE  /\ \A t \in Task : Enqueue(t) => queue' \in Seq(Task) /\ cnt' \in [Drives -> Nat]
           /\ \A t \in Task : MarkConsumed(t) => cnt' \in [Drives -> Nat]
           /\ queue # <<>> => Head(queue) \in Task /\ Tail(queue) \in Seq(Task)
           /\ \A d : queue # <<>> /\ DrainOne(d) => QueueTypeOK'
           /\ PutBack => QueueTypeOK'
  <1> USE DEF QueueTypeOK
  <1>1. ASSUME NEW t \in Task, Enqueue(t) PROVE queue' \in Seq(Task) /\ cnt' \in [Drives -> Nat]
    BY <1>1 DEF Enqueue, Task
  <1>2. ASSUME NEW t \in Task, MarkConsumed(t) PROVE cnt' \in [Drives -> Nat]
    BY <1>2 DEF MarkConsumed, Task
  <1>3. queue # <<>> => Head(queue) \in Task /\ Tail(queue) \in Seq(Task)
    OBVIOUS
  <1>4. ASSUME NEW d, queue # <<>>, DrainOne(d) PROVE QueueTypeOK'
    <2>1. Head(queue) \in Task /\ Tail(queue) \in Seq(Task)
      BY <1>3, <1>4
    <2>2. CASE Counted(Head(queue)) /\ Head(queue).drive = d
      BY <1>2, <1>4, <2>1, <2>2 DEF DrainOne
    <2>3. CASE ~(Counted(Head(queue)) /\ Head(queue).drive = d)
      <3>1. queue' = Tail(queue) /\ keep' = Append(keep, Head(queue)) /\ UNCHANGED cnt
        BY <1>4, <2>3, Zenon DEF DrainOne
      <3> QED BY <2>1, <3>1
    <2> QED BY <2>2, <2>3
  <1>5. PutBack => QueueTypeOK'
    BY DEF PutBack
  <1> QED BY <1>1, <1>2, <1>3, <1>4, <1>5

-----------------------------------------------------------------------------

(* The strengthening: a busy worker has a task, a file handler has a file. *)

Away == {"off", "idle", "dead"}
FilePCs == {"fstart", "fetch", "upsert", "dstart", "delete"}

WorkerOK(x) ==
    /\ x \in Worker
    /\ x.pc \notin Away => x.task \in Task
    /\ x.pc \in FilePCs => x.task.file \in Files

WorkersOK == /\ wk \in [Workers -> Worker]
             /\ \A w \in Workers : WorkerOK(wk[w])

\* The local states a worker starts a task in, or rests in, are well formed.
LEMMA WorkerRecords ==
    /\ WorkerOK(AtQueue) /\ WorkerOK(Off) /\ WorkerOK(Dead)
    /\ \A t \in Task : WorkerOK([AtQueue EXCEPT !.pc = EntryPC(t.kind), !.task = t])
  <1>1. AtQueue \in Worker
    BY DEF AtQueue, Worker, PCs, ListPCs, NoTask
  <1>2. AtQueue.pc = "idle"
    BY DEF AtQueue
  <1>3. \A p \in {"off", "dead"} : WorkerOK([AtQueue EXCEPT !.pc = p])
    BY <1>1 DEF Worker, WorkerOK, PCs, Away, FilePCs
  <1>4. ASSUME NEW t \in Task
        PROVE  WorkerOK([AtQueue EXCEPT !.pc = EntryPC(t.kind), !.task = t])
    <2> DEFINE x == [AtQueue EXCEPT !.pc = EntryPC(t.kind), !.task = t]
    <2>0. t.kind = "list_full" \/ t.kind = "list_delta" \/ t.kind = "file"
            \/ t.kind = "file_delete" \/ t.kind = "finalize"
      BY DEF Task, Kinds, ListKinds, FileKinds
    <2>5. /\ t.kind = "file" => EntryPC(t.kind) = "fstart"
          /\ t.kind = "file_delete" => EntryPC(t.kind) = "dstart"
          /\ t.kind = "finalize" => EntryPC(t.kind) = "zstart"
          /\ t.kind = "list_full" \/ t.kind = "list_delta" => EntryPC(t.kind) = "open"
      BY DEF EntryPC, ListKinds
    <2>1. EntryPC(t.kind) \in PCs
      BY <2>0, <2>5 DEF PCs
    <2>2. EntryPC(t.kind) \in FilePCs => t.file \in Files
      BY <2>0, <2>5 DEF FilePCs, Task, FileKinds, Kinds, ListKinds
    <2>3. x \in Worker
      BY <1>1, <2>1 DEF Worker
    <2>4. x.task = t /\ x.pc = EntryPC(t.kind)
      BY <1>1 DEF Worker
    <2> QED BY <2>2, <2>3, <2>4 DEF WorkerOK
  <1> QED BY <1>1, <1>2, <1>3, <1>4 DEF WorkerOK, Off, Dead, Away, FilePCs

\* What a step of one worker needs to know of it: a new local state that is
\* well formed leaves all workers well formed, a busy worker has a drive,
\* and one in a file handler has a file.
LEMMA WorkerMoves ==
    ASSUME WorkersOK, NEW w \in Workers
    PROVE  /\ \A x : WorkerOK(x) /\ Become(w, x) => WorkersOK'
           /\ wk[w].token \in Nat /\ wk[w].version \in Nat
           /\ wk[w].todo \subseteq Task
           /\ wk[w].pc \notin Away =>
                 /\ wk[w].task \in Task /\ MyDrive(w) \in Drives
                 /\ \A p \in PCs \ FilePCs : WorkerOK([wk[w] EXCEPT !.pc = p])
           /\ wk[w].pc \in FilePCs =>
                 /\ MyFile(w) \in Files
                 /\ \A p \in PCs : WorkerOK([wk[w] EXCEPT !.pc = p])
  <1> DEFINE x == wk[w]
  <1>0. WorkerOK(x)
    BY DEF WorkersOK
  <1>1. \A y : WorkerOK(y) /\ Become(w, y) => WorkersOK'
    BY DEF WorkersOK, WorkerOK, Become
  <1>2. x.token \in Nat /\ x.version \in Nat /\ x.todo \subseteq Task
    BY <1>0 DEF WorkerOK, Worker
  <1>3. ASSUME x.pc \notin Away PROVE x.task \in Task /\ MyDrive(w) \in Drives
    BY <1>0, <1>3 DEF WorkerOK, MyDrive, Task
  <1>4. ASSUME x.pc \notin Away, NEW p \in PCs \ FilePCs PROVE WorkerOK([x EXCEPT !.pc = p])
    BY <1>0, <1>4 DEF WorkerOK, Worker
  <1>5. ASSUME x.pc \in FilePCs PROVE MyFile(w) \in Files
    BY <1>0, <1>5 DEF WorkerOK, MyFile
  <1>6. ASSUME x.pc \in FilePCs, NEW p \in PCs PROVE WorkerOK([x EXCEPT !.pc = p])
    <2>1. x.pc \notin Away
      BY <1>6 DEF FilePCs, Away
    <2> QED BY <1>0, <1>6, <2>1 DEF WorkerOK, Worker
  <1> QED BY <1>1, <1>2, <1>3, <1>4, <1>5, <1>6

-----------------------------------------------------------------------------

(* The steps. *)

\* Storing or deleting the chunks of a file (UpsertChunks, DeleteByFileId).
LEMMA DocsOps ==
    ASSUME docs \in [Drives -> [Files -> Nat]], NEW d \in Drives, NEW f \in Files
    PROVE  /\ \A v \in Nat : UpsertChunks(d, f, v) => docs' \in [Drives -> [Files -> Nat]]
           /\ DeleteByFileId(d, f) => docs' \in [Drives -> [Files -> Nat]]
  BY DEF UpsertChunks, DeleteByFileId

\* A heartbeat for a drive is a well-formed row (heartbeat_worker).
LEMMA BeatOps ==
    ASSUME beat \in [Workers -> Beat], NEW w \in Workers, NEW d \in Drives, HeartBeat(w, d)
    PROVE  beat' \in [Workers -> Beat]
  <1>1. [drive |-> d, age |-> 0] \in Beat
    BY DEF Beat
  <1> QED BY <1>1 DEF HeartBeat

\* Every step of a worker's handlers preserves the types (_worker_loop,
\* _handle_list, _handle_file, _handle_file_delete, _handle_finalize).
LEMMA WorkerTyped ==
    ASSUME TypeOK, WorkersOK, NEW w \in Workers, WorkerStep(w)
    PROVE  TypeOK' /\ WorkersOK'
  <1>w. WorkerOK(wk[w])
    BY DEF WorkersOK
  <1>a. WorkersOK' => wk' \in [Workers -> Worker]
    BY DEF WorkersOK
  <1>b. ASSUME wk' = wk PROVE WorkersOK'
    BY <1>b DEF WorkersOK
  <1>c. RegistryTypeOK /\ QueueTypeOK
    BY DEF TypeOK
  <1> USE DEF At, gdriveVars, dbVars, queueVars, lockVars, flagVars, workerVars
  <1>1. CASE Take(w)
    <2>1. Head(queue) \in Task /\ Tail(queue) \in Seq(Task) /\ cnt' \in [Drives -> Nat]
      BY <1>1, <1>c, QueueOps DEF Take
    <2>2. WorkersOK'
      BY <1>1, <1>b, <2>1, WorkerRecords, WorkerMoves DEF Take
    <2> QED BY <1>1, <1>a, <2>1, <2>2
               DEF Take, TypeOK, QueueTypeOK, GDriveTypeOK, RegistryTypeOK
  <1>2. CASE GetTimeout(w)
    <2>1. IdleBeat \in Beat
      BY DEF IdleBeat, Beat
    <2>2. WorkersOK'
      BY <1>2, <1>b DEF GetTimeout
    <2> QED BY <1>2, <1>a, <2>1, <2>2
               DEF GetTimeout, TypeOK, QueueTypeOK, GDriveTypeOK, RegistryTypeOK
  <1>3. CASE ListOpen(w)
    <2>1. MyDrive(w) \in Drives
      BY <1>3, WorkerMoves DEF ListOpen, Away
    <2>2. reg[MyDrive(w)].rotate \in Nat
      BY <1>c, <2>1 DEF RegistryTypeOK, Row
    <2>3. WorkerOK([wk[w] EXCEPT !.pc = "claim", !.token = reg[MyDrive(w)].rotate])
      BY <1>3, <1>w, <2>2 DEF ListOpen, WorkerOK, Worker, PCs, Away, FilePCs
    <2>4. WorkersOK'
      BY <1>3, <2>3, WorkerRecords, WorkerMoves DEF ListOpen, Return
    <2>5. reg' \in [Drives -> Row]
      BY <1>3, <1>c, <2>1, RowOps DEF ListOpen, RegistryTypeOK
    <2> QED BY <1>3, <1>a, <2>4, <2>5
               DEF ListOpen, TypeOK, QueueTypeOK, GDriveTypeOK, RegistryTypeOK
  <1>4. CASE ListClaim(w)
    <2>1. MyDrive(w) \in Drives
      BY <1>4, WorkerMoves DEF ListClaim, Away
    <2>2. beat' \in [Workers -> Beat]
      BY <1>4, <2>1, BeatOps DEF ListClaim, TypeOK
    <2>3. WorkersOK'
      BY <1>4, WorkerRecords, WorkerMoves DEF ListClaim, Return, Goto, Away, PCs, ListPCs, FilePCs
    <2>4. lock' \in [Drives -> Workers \cup {NoWorker}]
      BY <1>4, <2>1 DEF ListClaim, TypeOK
    <2> QED BY <1>4, <1>a, <2>2, <2>3, <2>4
               DEF ListClaim, TypeOK, QueueTypeOK, GDriveTypeOK, RegistryTypeOK
  <1>5. CASE ListToken(w)
    <2>1. MyDrive(w) \in Drives
      BY <1>5, WorkerMoves DEF ListToken, Away
    <2>2. TaskFor("list_full", MyDrive(w)) \in Task /\ head[MyDrive(w)] \in Nat
      BY <2>1 DEF TaskFor, Task, Kinds, ListKinds, FileKinds, TypeOK, GDriveTypeOK
    <2>3. WorkerOK([wk[w] EXCEPT !.pc = "files", !.token = StartPageToken(MyDrive(w)),
                                !.task = TaskFor("list_full", MyDrive(w))])
      BY <1>w, <2>2 DEF StartPageToken, WorkerOK, Worker, PCs, ListPCs, Away, FilePCs
    <2>4. WorkersOK'
      BY <1>5, <2>3, WorkerMoves DEF ListToken, Goto, Away, PCs, ListPCs, FilePCs
    <2> QED BY <1>5, <1>a, <2>4
               DEF ListToken, TypeOK, QueueTypeOK, GDriveTypeOK, RegistryTypeOK
  <1>6. CASE ListFiles(w)
    <2>1. MyDrive(w) \in Drives /\ wk[w].task \in Task
      BY <1>6, WorkerMoves DEF ListFiles, Away
    <2>2. FullListing(MyDrive(w)) \subseteq Task
      BY <2>1 DEF FullListing, ListedFiles, FileTask, Task, Kinds, FileKinds, TypeOK, GDriveTypeOK
    <2>3. DeltaListing(MyDrive(w), wk[w].token) \subseteq Task
      BY <2>1 DEF DeltaListing, ChangedSince, FileTask, Task, Kinds, FileKinds
    <2>4. StartPageToken(MyDrive(w)) \in Nat
      BY <2>1 DEF StartPageToken, TypeOK, GDriveTypeOK
    <2>5. WorkerOK([wk[w] EXCEPT !.pc = "begin", !.todo = FullListing(MyDrive(w))])
      BY <1>w, <2>1, <2>2 DEF WorkerOK, Worker, PCs, ListPCs, Away, FilePCs
    <2>6. WorkerOK([wk[w] EXCEPT !.pc = "begin", !.todo = DeltaListing(MyDrive(w), wk[w].token),
                                !.token = StartPageToken(MyDrive(w))])
      BY <1>w, <2>1, <2>3, <2>4 DEF WorkerOK, Worker, PCs, ListPCs, Away, FilePCs
    <2>7. WorkersOK'
      BY <1>6, <2>5, <2>6, WorkerMoves DEF ListFiles
    <2> QED BY <1>6, <1>a, <2>7
               DEF ListFiles, TypeOK, QueueTypeOK, GDriveTypeOK, RegistryTypeOK
  <1>7. CASE ListApiFails(w)
    <2>1. MyDrive(w) \in Drives
      BY <1>7, WorkerMoves DEF ListApiFails, Away
    <2>2. WorkersOK'
      BY <1>7, WorkerRecords, WorkerMoves
         DEF ListApiFails, Return, Goto, Away, PCs, ListPCs, FilePCs
    <2>3. reg' \in [Drives -> Row]
      BY <1>7, <1>c, <2>1, RowOps DEF ListApiFails, RegistryTypeOK
    <2>4. lock' \in [Drives -> Workers \cup {NoWorker}] /\ stuck' \subseteq Drives
      BY <1>7, <2>1 DEF ListApiFails, Release, TypeOK
    <2> QED BY <1>7, <1>a, <2>2, <2>3, <2>4
               DEF ListApiFails, TypeOK, QueueTypeOK, GDriveTypeOK, RegistryTypeOK
  <1>8. CASE ListBegin(w)
    <2>1. MyDrive(w) \in Drives
      BY <1>8, WorkerMoves DEF ListBegin, Away
    <2>2. WorkersOK'
      BY <1>8, WorkerRecords, WorkerMoves DEF ListBegin, Return, Goto, Away, PCs, ListPCs, FilePCs
    <2>3. reg' \in [Drives -> Row]
      BY <1>8, <1>c, <2>1, RowOps, WorkerMoves DEF ListBegin, RegistryTypeOK
    <2> QED BY <1>8, <1>a, <2>2, <2>3
               DEF ListBegin, TypeOK, QueueTypeOK, GDriveTypeOK, RegistryTypeOK
  <1>9. CASE ListSchema(w)
    <2>1. MyDrive(w) \in Drives
      BY <1>9, WorkerMoves DEF ListSchema, Away
    <2>2. WorkersOK'
      BY <1>9, WorkerRecords, WorkerMoves DEF ListSchema, Return, Goto, Away, PCs, ListPCs, FilePCs
    <2>3. schema' \in [Drives -> BOOLEAN]
      BY <1>9, <2>1 DEF ListSchema, EnsureSchema, TypeOK, RegistryTypeOK
    <2> QED BY <1>9, <1>a, <2>2, <2>3
               DEF ListSchema, TypeOK, QueueTypeOK, GDriveTypeOK, RegistryTypeOK
  <1>10. CASE ListDbFails(w)
    <2>1. MyDrive(w) \in Drives
      BY <1>10, WorkerMoves DEF ListDbFails, Away
    <2>2. WorkersOK'
      BY <1>10, WorkerRecords, WorkerMoves
         DEF ListDbFails, Return, Goto, Away, PCs, ListPCs, FilePCs
    <2>3. lock' \in [Drives -> Workers \cup {NoWorker}] /\ stuck' \subseteq Drives
      BY <1>10, <2>1 DEF ListDbFails, Release, TypeOK
    <2> QED BY <1>10, <1>a, <2>2, <2>3
               DEF ListDbFails, TypeOK, QueueTypeOK, GDriveTypeOK, RegistryTypeOK
  <1>11. CASE ListPut(w)
    <2>1. wk[w].todo \subseteq Task
      BY WorkerMoves
    <2>2. \A todo \in SUBSET Task : WorkerOK([wk[w] EXCEPT !.todo = todo])
      BY <1>w DEF WorkerOK, Worker
    <2>3. WorkersOK'
      BY <1>11, <2>1, <2>2, WorkerMoves DEF ListPut
    <2>4. queue' \in Seq(Task) /\ cnt' \in [Drives -> Nat]
      BY <1>11, <1>c, <2>1, QueueOps DEF ListPut, QueueTypeOK
    <2> QED BY <1>11, <1>a, <2>3, <2>4
               DEF ListPut, TypeOK, QueueTypeOK, GDriveTypeOK, RegistryTypeOK
  <1>12. CASE ListDone(w)
    <2>1. MyDrive(w) \in Drives
      BY <1>12, WorkerMoves DEF ListDone, Away
    <2>2. WorkersOK'
      BY <1>12, WorkerRecords, WorkerMoves DEF ListDone, Return, Goto, Away, PCs, ListPCs, FilePCs
    <2>3. beat' \in [Workers -> Beat]
      BY <1>12, <2>1, BeatOps DEF ListDone, TypeOK
    <2>4. lock' \in [Drives -> Workers \cup {NoWorker}] /\ stuck' \subseteq Drives
      BY <1>12, <2>1 DEF ListDone, Release, TypeOK
    <2> QED BY <1>12, <1>a, <2>2, <2>3, <2>4
               DEF ListDone, TypeOK, QueueTypeOK, GDriveTypeOK, RegistryTypeOK
  <1>13. CASE FileStart(w)
    <2>1. MyDrive(w) \in Drives
      BY <1>13, WorkerMoves DEF FileStart, Away
    <2>2. WorkersOK'
      BY <1>13, WorkerRecords, WorkerMoves DEF FileStart, Return, Goto, Away, PCs, ListPCs, FilePCs
    <2>3. beat' \in [Workers -> Beat]
      BY <1>13, <2>1, BeatOps DEF FileStart, TypeOK
    <2>4. reg' \in [Drives -> Row]
      BY <1>13, <1>c, <2>1, RowOps DEF FileStart, RegistryTypeOK
    <2> QED BY <1>13, <1>a, <2>2, <2>3, <2>4
               DEF FileStart, TypeOK, QueueTypeOK, GDriveTypeOK, RegistryTypeOK
  <1>14. CASE FileFetch(w)
    <2>1. MyDrive(w) \in Drives /\ MyFile(w) \in Files
      BY <1>14, WorkerMoves DEF FileFetch, Away, FilePCs
    <2>2. changed[MyDrive(w)][MyFile(w)] \in Nat
      BY <2>1 DEF TypeOK, GDriveTypeOK
    <2>3. WorkerOK([wk[w] EXCEPT !.pc = "upsert", !.version = changed[MyDrive(w)][MyFile(w)]])
      BY <1>14, <1>w, <2>2 DEF FileFetch, WorkerOK, Worker, PCs, Away, FilePCs
    <2>4. WorkersOK'
      BY <1>14, <2>3, WorkerMoves DEF FileFetch
    <2>5. schema' \in [Drives -> BOOLEAN]
      BY <1>14, <2>1 DEF FileFetch, EnsureSchema, TypeOK, RegistryTypeOK
    <2> QED BY <1>14, <1>a, <2>4, <2>5
               DEF FileFetch, TypeOK, QueueTypeOK, GDriveTypeOK, RegistryTypeOK
  <1>15. CASE FileUpsert(w)
    <2>1. MyDrive(w) \in Drives /\ MyFile(w) \in Files /\ wk[w].version \in Nat
      BY <1>15, WorkerMoves DEF FileUpsert, Away, FilePCs
    <2>2. WorkersOK'
      BY <1>15, WorkerRecords, WorkerMoves DEF FileUpsert, Return, Goto, Away, PCs, ListPCs, FilePCs
    <2>3. beat' \in [Workers -> Beat]
      BY <1>15, <2>1, BeatOps DEF FileUpsert, TypeOK
    <2>4. reg' \in [Drives -> Row]
      BY <1>15, <1>c, <2>1, RowOps DEF FileUpsert, RegistryTypeOK
    <2>5. docs' \in [Drives -> [Files -> Nat]]
      BY <1>15, <2>1, DocsOps DEF FileUpsert, TypeOK, RegistryTypeOK
    <2> QED BY <1>15, <1>a, <2>2, <2>3, <2>4, <2>5
               DEF FileUpsert, TypeOK, QueueTypeOK, GDriveTypeOK, RegistryTypeOK
  <1>16. CASE FileFails(w)
    <2>1. MyDrive(w) \in Drives /\ MyFile(w) \in Files
      BY <1>16, WorkerMoves DEF FileFails, Away, FilePCs
    <2>2. WorkersOK'
      BY <1>16, WorkerRecords, WorkerMoves DEF FileFails, Return, Goto, Away, PCs, ListPCs, FilePCs
    <2>3. reg' \in [Drives -> Row]
      BY <1>16, <1>c, <2>1, RowOps DEF FileFails, RegistryTypeOK
    <2> QED BY <1>16, <1>a, <2>2, <2>3
               DEF FileFails, TypeOK, QueueTypeOK, GDriveTypeOK, RegistryTypeOK
  <1>17. CASE DeleteStart(w)
    <2>1. MyDrive(w) \in Drives
      BY <1>17, WorkerMoves DEF DeleteStart, Away
    <2>2. WorkersOK'
      BY <1>17, WorkerRecords, WorkerMoves
         DEF DeleteStart, Return, Goto, Away, PCs, ListPCs, FilePCs
    <2>3. beat' \in [Workers -> Beat]
      BY <1>17, <2>1, BeatOps DEF DeleteStart, TypeOK
    <2> QED BY <1>17, <1>a, <2>2, <2>3
               DEF DeleteStart, TypeOK, QueueTypeOK, GDriveTypeOK, RegistryTypeOK
  <1>18. CASE DeleteChunks(w)
    <2>1. MyDrive(w) \in Drives /\ MyFile(w) \in Files
      BY <1>18, WorkerMoves DEF DeleteChunks, Away, FilePCs
    <2>2. WorkersOK'
      BY <1>18, WorkerRecords, WorkerMoves
         DEF DeleteChunks, Return, Goto, Away, PCs, ListPCs, FilePCs
    <2>3. schema' \in [Drives -> BOOLEAN]
      BY <1>18, <2>1 DEF DeleteChunks, EnsureSchema, TypeOK, RegistryTypeOK
    <2>4. docs' \in [Drives -> [Files -> Nat]]
      BY <1>18, <2>1, DocsOps DEF DeleteChunks, TypeOK, RegistryTypeOK
    <2> QED BY <1>18, <1>a, <2>2, <2>3, <2>4
               DEF DeleteChunks, TypeOK, QueueTypeOK, GDriveTypeOK, RegistryTypeOK
  <1>19. CASE FinalizeStart(w)
    <2>1. MyDrive(w) \in Drives
      BY <1>19, WorkerMoves DEF FinalizeStart, Away
    <2>2. reg[MyDrive(w)].cancel \in BOOLEAN
      BY <1>c, <2>1 DEF RegistryTypeOK, Row
    <2>3. WorkerOK([wk[w] EXCEPT !.pc = "commit", !.cancel = reg[MyDrive(w)].cancel])
      BY <1>19, <1>w, <2>2 DEF FinalizeStart, WorkerOK, Worker, PCs, Away, FilePCs
    <2>4. WorkersOK'
      BY <1>19, <2>3, WorkerRecords, WorkerMoves DEF FinalizeStart, Return
    <2>5. beat' \in [Workers -> Beat]
      BY <1>19, <2>1, BeatOps DEF FinalizeStart, TypeOK
    <2> QED BY <1>19, <1>a, <2>4, <2>5
               DEF FinalizeStart, TypeOK, QueueTypeOK, GDriveTypeOK, RegistryTypeOK
  <1>20. CASE FinalizeEnd(w)
    <2>1. MyDrive(w) \in Drives
      BY <1>20, WorkerMoves DEF FinalizeEnd, Away
    <2>2. WorkersOK'
      BY <1>20, WorkerRecords, WorkerMoves
         DEF FinalizeEnd, Return, Goto, Away, PCs, ListPCs, FilePCs
    <2>3. reg' \in [Drives -> Row]
      BY <1>20, <1>c, <2>1, RowOps DEF FinalizeEnd, RegistryTypeOK
    <2> QED BY <1>20, <1>a, <2>2, <2>3
               DEF FinalizeEnd, TypeOK, QueueTypeOK, GDriveTypeOK, RegistryTypeOK
  <1>21. CASE FileEmpty(w)
    <2>1. MyDrive(w) \in Drives
      BY <1>21, WorkerMoves DEF FileEmpty, Away
    <2>2. WorkersOK'
      BY <1>21, WorkerRecords, WorkerMoves DEF FileEmpty, Return, Goto, Away, PCs, ListPCs, FilePCs
    <2>3. beat' \in [Workers -> Beat]
      BY <1>21, <2>1, BeatOps DEF FileEmpty, TypeOK
    <2>4. schema' \in [Drives -> BOOLEAN]
      BY <1>21, <2>1 DEF FileEmpty, EnsureSchema, TypeOK, RegistryTypeOK
    <2> QED BY <1>21, <1>a, <2>2, <2>3, <2>4
               DEF FileEmpty, TypeOK, QueueTypeOK, GDriveTypeOK, RegistryTypeOK
  <1>22. CASE TaskFails(w)
    <2>1. WorkersOK'
      BY <1>22, WorkerRecords, WorkerMoves DEF TaskFails, Return, Away
    <2> QED BY <1>22, <1>a, <2>1
               DEF TaskFails, TypeOK, QueueTypeOK, GDriveTypeOK, RegistryTypeOK
  <1> QED BY <1>1, <1>2, <1>3, <1>4, <1>5, <1>6, <1>7, <1>8, <1>9, <1>10, <1>11, <1>12, <1>13,
             <1>14, <1>15, <1>16, <1>17, <1>18, <1>19, <1>20, <1>21, <1>22 DEF WorkerStep

\* Every step of the manager preserves the types (_manager_iter,
\* _drain_queue_for_drive, _spawn_worker and the start in main).
LEMMA ManagerTyped ==
    ASSUME TypeOK, WorkersOK, ManagerStep
    PROVE  TypeOK' /\ WorkersOK'
  <1>a. WorkersOK' => wk' \in [Workers -> Worker]
    BY DEF WorkersOK
  <1>b. ASSUME wk' = wk PROVE WorkersOK'
    BY <1>b DEF WorkersOK
  <1>c. RegistryTypeOK /\ QueueTypeOK /\ mgr \in Manager /\ beat \in [Workers -> Beat]
    BY DEF TypeOK
  <1>d. /\ mgr.cancels \subseteq Drives
        /\ mgr.lists \subseteq Task /\ mgr.finals \subseteq Drives
        /\ mgr.drive \in Drives \cup {NoDrive}
    BY <1>c DEF Manager
  <1>e. AtTop \in Manager /\ Down \in Manager /\ IdleBeat \in Beat
    BY DEF AtTop, Down, Manager, IdleBeat, Beat
  <1> USE DEF gdriveVars, dbVars, queueVars, lockVars, flagVars, workerVars
  <1>1. CASE MgrRefresh
    <2>1. ToCancel \subseteq Drives
      BY DEF ToCancel
    <2>2. mgr' \in Manager
      BY <1>1, <1>c, <2>1 DEF MgrRefresh, Manager
    <2> QED BY <1>1, <1>a, <1>b, <2>2
               DEF MgrRefresh, TypeOK, QueueTypeOK, GDriveTypeOK, RegistryTypeOK
  <1>2. CASE MgrDrain
    <2>1. CASE queue = <<>> /\ PutBack /\ mgr' = [mgr EXCEPT !.pc = "cancel", !.drive = NoDrive]
      <3>1. mgr' \in Manager
        BY <1>c, <1>d, <2>1 DEF Manager
      <3>2. QueueTypeOK'
        BY <1>c, <2>1, QueueOps
      <3> QED BY <1>2, <1>a, <1>b, <3>1, <3>2
                 DEF MgrDrain, TypeOK, GDriveTypeOK, RegistryTypeOK
    <2>2. CASE queue # <<>> /\ DrainOne(mgr.drive) /\ UNCHANGED mgr
      <3>1. QueueTypeOK'
        BY <1>c, <2>2, QueueOps
      <3> QED BY <1>2, <1>a, <1>b, <2>2, <3>1
                 DEF MgrDrain, TypeOK, GDriveTypeOK, RegistryTypeOK
    <2> QED BY <1>2, <2>1, <2>2 DEF MgrDrain
  <1>3. CASE MgrReread
    <2>1. Building \subseteq Drives
      BY DEF Building
    <2>2. ListWork \subseteq Task
      BY DEF ListWork, TaskFor, Task, Kinds, ListKinds, FileKinds
    <2>3. mgr' \in Manager
      BY <1>3, <1>c, <2>1, <2>2 DEF MgrReread, Manager
    <2> QED BY <1>3, <1>a, <1>b, <2>3
               DEF MgrReread, TypeOK, QueueTypeOK, GDriveTypeOK, RegistryTypeOK
  <1>4. CASE MgrDone
    BY <1>4, <1>a, <1>b, <1>e DEF MgrDone, TypeOK, QueueTypeOK, GDriveTypeOK, RegistryTypeOK
  <1>5. CASE Start
    BY <1>5, <1>a, <1>b, <1>e DEF Start, TypeOK, QueueTypeOK, GDriveTypeOK, RegistryTypeOK
  <1>6. ASSUME NEW d \in Drives, MgrCancel(d) PROVE TypeOK' /\ WorkersOK'
    <2>1. mgr' \in Manager
      BY <1>6, <1>c, <1>d DEF MgrCancel, Manager
    <2>2. reg' \in [Drives -> Row]
      BY <1>6, <1>c, RowOps DEF MgrCancel, RegistryTypeOK
    <2> QED BY <1>6, <1>a, <1>b, <2>1, <2>2
               DEF MgrCancel, TypeOK, QueueTypeOK, GDriveTypeOK, RegistryTypeOK
  <1>7. ASSUME NEW d \in Drives, MgrFinalize(d) PROVE TypeOK' /\ WorkersOK'
    <2>1. mgr' \in Manager
      BY <1>7, <1>c, <1>d DEF MgrFinalize, Manager
    <2>2. TaskFor("finalize", d) \in Task
      BY DEF TaskFor, Task, Kinds, FileKinds, ListKinds
    <2>3. queue' \in Seq(Task) /\ cnt' \in [Drives -> Nat]
      BY <1>7, <1>c, <2>2, QueueOps DEF MgrFinalize, QueueTypeOK
    <2> QED BY <1>7, <1>a, <1>b, <2>1, <2>3
               DEF MgrFinalize, TypeOK, QueueTypeOK, GDriveTypeOK, RegistryTypeOK
  <1>8. ASSUME NEW t \in mgr.lists, MgrList(t) PROVE TypeOK' /\ WorkersOK'
    <2>1. mgr' \in Manager
      BY <1>8, <1>c, <1>d DEF MgrList, Manager
    <2>3. queue' \in Seq(Task) /\ cnt' \in [Drives -> Nat]
      BY <1>8, <1>c, <1>d, QueueOps DEF MgrList, QueueTypeOK
    <2> QED BY <1>8, <1>a, <1>b, <2>1, <2>3
               DEF MgrList, TypeOK, QueueTypeOK, GDriveTypeOK, RegistryTypeOK
  <1>9. ASSUME NEW w \in Workers, Spawn(w) PROVE TypeOK' /\ WorkersOK'
    <2>1. WorkersOK'
      BY <1>9, WorkerRecords, WorkerMoves DEF Spawn, Return
    <2> QED BY <1>9, <1>a, <1>c, <1>e, <2>1
               DEF Spawn, TypeOK, QueueTypeOK, GDriveTypeOK, RegistryTypeOK
  <1> QED BY <1>1, <1>2, <1>3, <1>4, <1>5, <1>6, <1>7, <1>8, <1>9 DEF ManagerStep

\* So do the faults, the sweep of zombies, the control API's requests and
\* the users of the drives.
LEMMA OthersTyped ==
    ASSUME TypeOK, WorkersOK,
           \/ \E w \in Workers : GoStale(w) \/ Die(w)
           \/ MgrFails \/ CleanupZombies \/ DiskCheck \/ Crash
           \/ \E d \in Drives : Enable(d) \/ Disable(d) \/ SyncNow(d) \/ Register(d)
                                \/ Rebuild(d) \/ Delete(d)
           \/ ApiNext
           \/ \E on \in BOOLEAN : SetPaused(on)
           \/ UserEdits
    PROVE  TypeOK' /\ WorkersOK'
  <1>a. WorkersOK' => wk' \in [Workers -> Worker]
    BY DEF WorkersOK
  <1>b. ASSUME wk' = wk PROVE WorkersOK'
    BY <1>b DEF WorkersOK
  <1>c. RegistryTypeOK /\ QueueTypeOK /\ mgr \in Manager /\ beat \in [Workers -> Beat]
    BY DEF TypeOK
  <1>e. AtTop \in Manager /\ Down \in Manager /\ IdleBeat \in Beat
    BY DEF AtTop, Down, Manager, IdleBeat, Beat
  <1> USE DEF gdriveVars, dbVars, queueVars, lockVars, flagVars, workerVars
  <1>1. ASSUME NEW w \in Workers, GoStale(w) PROVE TypeOK' /\ WorkersOK'
    <2>1. [beat[w] EXCEPT !.age = @ + 1] \in Beat
      <3>1. beat[w] \in Beat /\ beat[w].age \in 0 .. 1
        BY <1>1, <1>c DEF GoStale, Beat
      <3> QED BY <3>1 DEF Beat
    <2>2. beat' \in [Workers -> Beat]
      BY <1>1, <1>c, <2>1 DEF GoStale
    <2> QED BY <1>1, <1>a, <1>b, <2>2
               DEF GoStale, TypeOK, QueueTypeOK, GDriveTypeOK, RegistryTypeOK
  <1>2. ASSUME NEW w \in Workers, Die(w) PROVE TypeOK' /\ WorkersOK'
    <2>1. WorkersOK'
      BY <1>2, WorkerRecords, WorkerMoves DEF Die
    <2> QED BY <1>2, <1>a, <2>1
               DEF Die, TypeOK, QueueTypeOK, GDriveTypeOK, RegistryTypeOK
  <1>3. CASE CleanupZombies
    <2>1. beat' \in [Workers -> Beat]
      BY <1>3, <1>c, <1>e DEF CleanupZombies
    <2>2. \A row \in Row : [row EXCEPT !.state = "idle"] \in Row
      BY DEF Row, States
    <2>3. PICK reset : reg' = [d \in Drives |-> IF d \in reset
                                  THEN [reg[d] EXCEPT !.state = "idle"] ELSE reg[d]]
      BY <1>3 DEF CleanupZombies
    <2>4. reg' \in [Drives -> Row]
      <3>1. \A d \in Drives : reg[d] \in Row
        BY <1>c DEF RegistryTypeOK
      <3> QED BY <2>2, <2>3, <3>1
    <2> QED BY <1>3, <1>a, <1>b, <2>1, <2>4
               DEF CleanupZombies, TypeOK, QueueTypeOK, GDriveTypeOK, RegistryTypeOK
  <1>4. CASE DiskCheck
    BY <1>4, <1>a, <1>b DEF DiskCheck, TypeOK, QueueTypeOK, GDriveTypeOK, RegistryTypeOK
  <1>5. CASE Crash
    <2>1. WorkersOK'
      <3>1. WorkerOK(Off) /\ Off \in Worker
        BY WorkerRecords DEF WorkerOK
      <3>2. \A w \in Workers : wk'[w] = Off
        BY <1>5 DEF Crash
      <3>3. wk' \in [Workers -> Worker]
        BY <1>5, <3>1 DEF Crash
      <3> QED BY <3>1, <3>2, <3>3, Zenon DEF WorkersOK
    <2>2. beat' = beat /\ mgr' \in Manager /\ lock' \in [Drives -> Workers \cup {NoWorker}]
      BY <1>5, <1>e DEF Crash
    <2>3. QueueTypeOK'
      BY <1>5 DEF Crash, QueueTypeOK
    <2> QED BY <1>5, <1>a, <1>c, <2>1, <2>2, <2>3
               DEF Crash, TypeOK, GDriveTypeOK, RegistryTypeOK
  <1>6. ASSUME NEW d \in Drives, Enable(d) \/ Disable(d) \/ SyncNow(d) \/ Register(d)
        PROVE  TypeOK' /\ WorkersOK'
    <2>1. reg' \in [Drives -> Row]
      BY <1>6, <1>c, RowOps DEF Enable, Disable, SyncNow, Register
    <2> QED BY <1>6, <1>a, <1>b, <2>1
               DEF Enable, Disable, SyncNow, Register,
                   TypeOK, QueueTypeOK, GDriveTypeOK, RegistryTypeOK
  <1>7. ASSUME NEW d \in Drives, Rebuild(d) \/ Delete(d) PROVE TypeOK' /\ WorkersOK'
    <2>1. \E next \in {"rotate", "row"} :
             /\ DropSchema(d) /\ api' = [step |-> next, drive |-> d]
             /\ UNCHANGED <<gdriveVars, reg, queueVars, workerVars, flagVars, mgr>>
      BY <1>7, Zenon DEF Rebuild, Delete, DropFirst
    <2>2. docs' \in [Drives -> [Files -> Nat]] /\ schema' \in [Drives -> BOOLEAN]
      BY <1>c, <2>1 DEF DropSchema, RegistryTypeOK
    <2> QED BY <1>a, <1>b, <2>1, <2>2
               DEF TypeOK, QueueTypeOK, GDriveTypeOK, RegistryTypeOK
  <1>8. CASE ApiNext
    <2>1. api.drive \in Drives /\ api' \in {NoRequest, [step |-> "abort", drive |-> api.drive]}
      BY <1>8 DEF ApiNext, TypeOK, NoRequest
    <2>2. reg' \in [Drives -> Row]
      BY <1>8, <1>c, <2>1, RowOps DEF ApiNext
    <2> QED BY <1>8, <1>a, <1>b, <2>1, <2>2
               DEF ApiNext, TypeOK, QueueTypeOK, GDriveTypeOK, RegistryTypeOK
  <1>9. ASSUME NEW on \in BOOLEAN, SetPaused(on) PROVE TypeOK' /\ WorkersOK'
    BY <1>9, <1>a, <1>b DEF SetPaused, TypeOK, QueueTypeOK, GDriveTypeOK, RegistryTypeOK
  <1>10. CASE UserEdits
    <2>1. GDriveTypeOK'
      <3>1. PICK d \in Drives, f \in Files : WriteFile(d, f) \/ TrashFile(d, f)
        BY <1>10 DEF UserEdits
      <3>2. head[d] + 1 \in Nat \ {0} /\ GDriveTypeOK
        BY DEF TypeOK, GDriveTypeOK
      <3>a. changed[d] \in [Files -> Nat]
        BY <3>2 DEF GDriveTypeOK
      <3>b. /\ head' = [head EXCEPT ![d] = @ + 1]
            /\ changed' = [changed EXCEPT ![d][f] = head[d] + 1]
        BY <3>1 DEF WriteFile, TrashFile, LogChange
      <3>3. head' \in [Drives -> Nat \ {0}] /\ changed' \in [Drives -> [Files -> Nat]]
        BY <3>2, <3>a, <3>b DEF GDriveTypeOK
      <3>4. alive' \in [Drives -> SUBSET Files]
        BY <3>1, <3>2 DEF WriteFile, TrashFile, GDriveTypeOK
      <3> QED BY <3>3, <3>4 DEF GDriveTypeOK
    <2> QED BY <1>10, <1>a, <1>b, <2>1
               DEF UserEdits, TypeOK, QueueTypeOK, RegistryTypeOK
  <1>11. CASE MgrFails
    BY <1>11, <1>a, <1>b, <1>e
       DEF MgrFails, TypeOK, QueueTypeOK, GDriveTypeOK, RegistryTypeOK
  <1> QED BY <1>1, <1>2, <1>3, <1>4, <1>5, <1>6, <1>7, <1>8, <1>9, <1>10, <1>11

-----------------------------------------------------------------------------

\* The inductive invariant.
Typed == TypeOK /\ WorkersOK

\* The daemon starts in a well-typed state.
LEMMA InitTyped == Init => Typed
  <1> SUFFICES ASSUME Init PROVE Typed
    OBVIOUS
  <1>1. GDriveTypeOK
    BY DEF Init, GDriveInit, GDriveTypeOK
  <1>2. RegistryTypeOK
    <2>1. NewRow \in Row /\ Enabled(NewRow, TRUE) \in Row
      BY DEF NewRow, Enabled, Row, States, NoToken
    <2> QED BY <2>1 DEF Init, RegistryTypeOK
  <1>3. QueueTypeOK
    BY DEF Init, QueueTypeOK
  <1>4. WorkersOK
    <2>1. WorkerOK(Off) /\ Off \in Worker
      BY WorkerRecords DEF WorkerOK
    <2>2. wk = [w \in Workers |-> Off]
      BY DEF Init
    <2> QED BY <2>1, <2>2 DEF WorkersOK
  <1>5. mgr \in Manager /\ IdleBeat \in Beat
    BY DEF Init, Down, AtTop, Manager, IdleBeat, Beat
  <1> QED BY <1>1, <1>2, <1>3, <1>4, <1>5 DEF Init, Typed, TypeOK, WorkersOK

\* The typing is inductive once every worker's local state is well formed.
LEMMA NextTyped == Typed /\ [Next]_vars => Typed'
  <1> SUFFICES ASSUME Typed, [Next]_vars PROVE Typed'
    OBVIOUS
  <1> USE DEF Typed
  <1>1. CASE UNCHANGED vars
    BY <1>1 DEF vars, gdriveVars, dbVars, queueVars, lockVars, flagVars, workerVars,
                TypeOK, GDriveTypeOK, RegistryTypeOK, QueueTypeOK, WorkersOK
  <1>2. ASSUME NEW w \in Workers, WorkerStep(w) PROVE Typed'
    BY <1>2, WorkerTyped
  <1>3. CASE ManagerStep
    BY <1>3, ManagerTyped
  <1> QED BY <1>1, <1>2, <1>3, OthersTyped DEF Next

\* The strengthened typing invariant, cited by the other proofs.
THEOREM TypedAlways == Spec => []Typed
  BY InitTyped, NextTyped, PTL DEF Spec

\* The type invariant of the runs: whatever the workers, the manager, the
\* control API and the faults interleave to, every row of fd_registry, every
\* task and every worker's local state stays in its domain, and no counter of
\* _queue_counts becomes negative.
THEOREM TypeCorrect == Spec => []TypeOK
  <1>1. Typed => TypeOK
    BY DEF Typed
  <1> QED BY <1>1, TypedAlways, PTL

\* A step within a listing leaves the worker in the listing of the same drive.
LEMMA ListingGoesOn ==
    ASSUME Typed, NEW w \in Workers,
           ListToken(w) \/ ListFiles(w) \/ ListBegin(w) \/ ListSchema(w) \/ ListPut(w)
    PROVE  \E x : Become(w, x) /\ x.pc \in ListPCs /\ x.task.drive = MyDrive(w)
  <1>c. wk[w] \in Worker
    BY DEF Typed, TypeOK
  <1>2. ASSUME NEW p \in ListPCs, Goto(w, p)
        PROVE  \E x : Become(w, x) /\ x.pc \in ListPCs /\ x.task.drive = MyDrive(w)
    <2>1. [wk[w] EXCEPT !.pc = p].task = wk[w].task /\ [wk[w] EXCEPT !.pc = p].pc = p
      BY <1>c DEF Worker
    <2> QED BY <1>2, <2>1 DEF Goto, MyDrive
  <1>3. CASE ListBegin(w) \/ ListSchema(w)
    BY <1>2, <1>3 DEF ListBegin, ListSchema, ListPCs
  <1>4. CASE ListToken(w)
    <2> DEFINE y == [wk[w] EXCEPT !.pc = "files", !.token = StartPageToken(MyDrive(w)),
                                  !.task = TaskFor("list_full", MyDrive(w))]
    <2>1. y.task = TaskFor("list_full", MyDrive(w)) /\ y.pc \in ListPCs
      BY <1>c DEF Worker, ListPCs
    <2>2. Goto(w, "files") \/ Become(w, y)
      BY <1>4 DEF ListToken
    <2>3. TaskFor("list_full", MyDrive(w)).drive = MyDrive(w)
      BY DEF TaskFor
    <2> QED BY <1>2, <2>1, <2>2, <2>3 DEF ListPCs
  <1>5. CASE ListFiles(w)
    <2> DEFINE d == MyDrive(w)
               y == [wk[w] EXCEPT !.pc = "begin", !.todo = FullListing(d)]
               z == [wk[w] EXCEPT !.pc = "begin", !.todo = DeltaListing(d, wk[w].token),
                                  !.token = StartPageToken(d)]
    <2>1. /\ y.task = wk[w].task /\ z.task = wk[w].task
          /\ y.pc \in ListPCs /\ z.pc \in ListPCs
      BY <1>c DEF Worker, ListPCs
    <2>2. Become(w, y) \/ Become(w, z)
      BY <1>5 DEF ListFiles
    <2> QED BY <2>1, <2>2 DEF MyDrive
  <1>6. CASE ListPut(w)
    <2>1. PICK s : Become(w, [wk[w] EXCEPT !.todo = s])
      BY <1>6 DEF ListPut
    <2>2. /\ [wk[w] EXCEPT !.todo = s].task = wk[w].task
          /\ [wk[w] EXCEPT !.todo = s].pc \in ListPCs
      BY <1>c, <1>6 DEF Worker, ListPut, At, ListPCs
    <2> QED BY <2>1, <2>2 DEF MyDrive
  <1> QED BY <1>3, <1>4, <1>5, <1>6

-----------------------------------------------------------------------------

(* At most one lister of a drive. *)

\* One worker moves, and changes no lock but free ones and its own: the
\* others keep theirs.
LEMMA OneMoves ==
    ASSUME Typed, ListExclusive, NEW w \in Workers, NEW x, Become(w, x),
           \A d \in Drives : lock'[d] = lock[d] \/ lock[d] \in {NoWorker, w},
           x.pc \in ListPCs => lock'[x.task.drive] = w
    PROVE  ListExclusive'
  <1>1. wk' = [wk EXCEPT ![w] = x] /\ wk \in [Workers -> Worker]
    BY DEF Become, Typed, TypeOK
  <1>2. ASSUME NEW v \in Workers, v # w, wk'[v].pc \in ListPCs PROVE lock'[wk'[v].task.drive] = v
    <2>1. wk'[v] = wk[v]
      BY <1>1, <1>2
    <2>2. wk[v].pc \notin Away
      BY <1>2, <2>1 DEF ListPCs, Away
    <2>3. lock[MyDrive(v)] = v /\ MyDrive(v) \in Drives
      BY <1>2, <2>1, <2>2, WorkerMoves DEF ListExclusive, Typed
    <2> QED BY <1>2, <2>1, <2>3, RagDaemonAssumption DEF MyDrive
  <1>3. wk'[w] = x
    BY <1>1
  <1> QED BY <1>2, <1>3 DEF ListExclusive, MyDrive

\* No step, of whoever, lets a second worker into the listing of a drive.
LEMMA ListExclusiveStep == Typed /\ ListExclusive /\ [Next]_vars => ListExclusive'
  <1> SUFFICES ASSUME Typed, ListExclusive, [Next]_vars PROVE ListExclusive'
    OBVIOUS
  <1>a. ASSUME UNCHANGED <<wk, lock>> PROVE ListExclusive'
    BY <1>a DEF ListExclusive, MyDrive
  <1>b. /\ AtQueue \in Worker /\ AtQueue.pc \notin ListPCs
        /\ Off.pc \notin ListPCs /\ Dead.pc \notin ListPCs
    BY WorkerRecords DEF AtQueue, Off, Dead, WorkerOK, ListPCs
  <1>c. \A w \in Workers : wk[w] \in Worker
    BY DEF Typed, TypeOK
  <1>d. lock \in [Drives -> Workers \cup {NoWorker}]
    BY DEF Typed, TypeOK
  <1>1. ASSUME NEW w \in Workers, WorkerStep(w) PROVE ListExclusive'
    <2>a. ASSUME NEW x, Become(w, x), x.pc \notin ListPCs, lock' = lock PROVE ListExclusive'
      BY <2>a, OneMoves
    <2>b. ASSUME Return(w), Release(w),
                 At(w, "token") \/ At(w, "files") \/ At(w, "schema") \/ At(w, "put")
          PROVE  ListExclusive'
      <3>1. lock[MyDrive(w)] = w
        BY <2>b DEF At, ListExclusive, ListPCs
      <3>2. \A d \in Drives : lock'[d] = lock[d] \/ lock[d] \in {NoWorker, w}
        BY <1>d, <2>b, <3>1 DEF Release
      <3> QED BY <1>b, <2>b, <3>2, OneMoves DEF Return
    <2>1. CASE Take(w)
      <3>1. \A t \in Task : EntryPC(t.kind) \notin ListPCs
        <4> SUFFICES ASSUME NEW t \in Task PROVE EntryPC(t.kind) \notin ListPCs
          OBVIOUS
        <4>0. t.kind = "list_full" \/ t.kind = "list_delta" \/ t.kind = "file"
                \/ t.kind = "file_delete" \/ t.kind = "finalize"
          BY DEF Task, Kinds, ListKinds, FileKinds
        <4> QED BY <4>0 DEF EntryPC, ListKinds, ListPCs
      <3>2. Head(queue) \in Task
        BY <2>1, QueueOps DEF Take, Typed, TypeOK
      <3>x. [AtQueue EXCEPT !.pc = EntryPC(Head(queue).kind), !.task = Head(queue)].pc
                = EntryPC(Head(queue).kind)
        BY <1>b DEF Worker
      <3>3. wk' = wk \/ \E x : Become(w, x) /\ x.pc \notin ListPCs
        BY <2>1, <3>1, <3>2, <3>x DEF Take
      <3> QED BY <1>a, <2>1, <2>a, <3>3 DEF Take, lockVars
    <2>2. CASE GetTimeout(w)
      BY <1>a, <2>2 DEF GetTimeout, lockVars
    <2>3. CASE ListOpen(w)
      <3>x. [wk[w] EXCEPT !.pc = "claim", !.token = reg[MyDrive(w)].rotate].pc \notin ListPCs
        BY <1>c DEF Worker, ListPCs
      <3>1. \E x : Become(w, x) /\ x.pc \notin ListPCs
        BY <1>b, <2>3, <3>x DEF ListOpen, Return
      <3> QED BY <2>3, <2>a, <3>1 DEF ListOpen, lockVars
    <2>4. CASE ListClaim(w)
      <3>1. CASE Return(w) /\ lock' = lock
        BY <1>b, <2>a, <3>1 DEF Return
      <3>2. CASE /\ lock[MyDrive(w)] \in {NoWorker, w}
                 /\ lock' = [lock EXCEPT ![MyDrive(w)] = w] /\ Goto(w, "token")
        <4>1. \A d \in Drives : lock'[d] = lock[d] \/ lock[d] \in {NoWorker, w}
          BY <1>d, <3>2
        <4>2. MyDrive(w) \in Drives
          BY <2>4, WorkerMoves DEF ListClaim, At, Away, Typed
        <4>3. lock'[MyDrive(w)] = w
          BY <1>d, <3>2, <4>2
        <4>4. [wk[w] EXCEPT !.pc = "token"].task = wk[w].task
          BY <1>c DEF Worker
        <4> QED BY <3>2, <4>1, <4>3, <4>4, OneMoves DEF Goto, MyDrive
      <3> QED BY <2>4, <3>1, <3>2 DEF ListClaim
    <2>5. CASE ListToken(w) \/ ListFiles(w) \/ ListBegin(w) \/ ListSchema(w) \/ ListPut(w)
      <3>1. lock[MyDrive(w)] = w /\ lock' = lock
        BY <2>5 DEF ListToken, ListFiles, ListBegin, ListSchema, ListPut, At, ListExclusive,
                    ListPCs, lockVars
      <3>2. \E x : Become(w, x) /\ x.task.drive = MyDrive(w)
        BY <2>5, ListingGoesOn
      <3> QED BY <3>1, <3>2, OneMoves
    <2>6. CASE ListApiFails(w) \/ ListDone(w)
      BY <2>6, <2>b DEF ListApiFails, ListDone
    <2>7. CASE ListDbFails(w)
      <3>1. CASE UNCHANGED lock
        BY <1>b, <2>7, <2>a, <3>1 DEF ListDbFails, Return
      <3>2. CASE At(w, "schema") /\ Release(w)
        BY <2>7, <2>b, <3>2 DEF ListDbFails
      <3> QED BY <2>7, <3>1, <3>2 DEF ListDbFails
    <2>8. CASE \/ FileStart(w) \/ FileFetch(w) \/ FileUpsert(w) \/ FileFails(w)
               \/ FileEmpty(w) \/ DeleteStart(w) \/ DeleteChunks(w) \/ TaskFails(w)
      <3>1. \E x : Become(w, x) /\ x.pc \notin ListPCs
        <4>1. "fetch" \notin ListPCs /\ "upsert" \notin ListPCs /\ "delete" \notin ListPCs
          BY DEF ListPCs
        <4>2. \/ Return(w) \/ Goto(w, "fetch") \/ Goto(w, "delete")
              \/ \E v : Become(w, [wk[w] EXCEPT !.pc = "upsert", !.version = v])
          BY <2>8, Zenon DEF FileStart, FileFetch, FileUpsert, FileFails, FileEmpty,
                             DeleteStart, DeleteChunks, TaskFails
        <4>3. CASE Return(w)
          BY <1>b, <4>3 DEF Return
        <4>4. ASSUME NEW p, p \notin ListPCs, Goto(w, p)
              PROVE  \E x : Become(w, x) /\ x.pc \notin ListPCs
          <5>1. [wk[w] EXCEPT !.pc = p].pc = p
            BY <1>c DEF Worker
          <5> QED BY <4>4, <5>1 DEF Goto
        <4>5. CASE \E v : Become(w, [wk[w] EXCEPT !.pc = "upsert", !.version = v])
          <5>1. PICK v : Become(w, [wk[w] EXCEPT !.pc = "upsert", !.version = v])
            BY <4>5
          <5>2. [wk[w] EXCEPT !.pc = "upsert", !.version = v].pc = "upsert"
            BY <1>c DEF Worker
          <5> QED BY <4>1, <5>1, <5>2
        <4> QED BY <4>1, <4>2, <4>3, <4>4, <4>5
      <3> QED BY <2>8, <2>a, <3>1
                 DEF FileStart, FileFetch, FileUpsert, FileFails, FileEmpty, DeleteStart,
                     DeleteChunks, TaskFails, lockVars
    <2>9. CASE FinalizeStart(w) \/ FinalizeEnd(w)
      <3>x. [wk[w] EXCEPT !.pc = "commit", !.cancel = reg[MyDrive(w)].cancel].pc = "commit"
        BY <1>c DEF Worker
      <3>1. \E x : Become(w, x) /\ x.pc \notin ListPCs
        BY <1>b, <2>9, <3>x DEF FinalizeStart, FinalizeEnd, Return, ListPCs
      <3> QED BY <2>9, <2>a, <3>1 DEF FinalizeStart, FinalizeEnd, lockVars
    <2> QED BY <1>1, <2>1, <2>2, <2>3, <2>4, <2>5, <2>6, <2>7, <2>8, <2>9 DEF WorkerStep
  <1>2. ASSUME NEW w \in Workers, Die(w) PROVE ListExclusive'
    <2>1. \A d \in Drives : lock'[d] = lock[d] \/ lock[d] \in {NoWorker, w}
      BY <1>2 DEF Die, HeldBy
    <2> QED BY <1>2, <1>b, <2>1, OneMoves DEF Die
  <1>3. ASSUME NEW w \in Workers, Spawn(w) PROVE ListExclusive'
    BY <1>3, <1>b, OneMoves DEF Spawn, Return, lockVars
  <1>4. CASE Crash
    BY <1>4, <1>b DEF Crash, ListExclusive
  <1>5. CASE ManagerStep
    BY <1>5, <1>3, <1>a
       DEF ManagerStep, MgrRefresh, MgrDrain, MgrReread, MgrDone, Start, MgrCancel, MgrFinalize,
           MgrList, workerVars, lockVars
  <1>6. ASSUME \/ \E w \in Workers : GoStale(w)
               \/ MgrFails \/ CleanupZombies \/ DiskCheck \/ ApiNext \/ UserEdits \/ UNCHANGED vars
               \/ \E d \in Drives : Enable(d) \/ Disable(d) \/ SyncNow(d) \/ Register(d)
                                    \/ Rebuild(d) \/ Delete(d)
               \/ \E on \in BOOLEAN : SetPaused(on)
        PROVE  ListExclusive'
    <2>1. UNCHANGED <<wk, lock>>
      BY <1>6 DEF GoStale, MgrFails, CleanupZombies, DiskCheck, ApiNext, UserEdits, vars, Enable, Disable,
                  SyncNow, Register, Rebuild, Delete, DropFirst, SetPaused, workerVars, lockVars
    <2> QED BY <1>a, <2>1
  <1> QED BY <1>1, <1>2, <1>4, <1>5, <1>6 DEF Next

\* At most one worker lists a drive at any time, and it is the one that
\* holds the advisory lock (_handle_list's try_claim_drive), for any number
\* of workers, also when cleanup_zombies forgets a thread that is still
\* running, when locks leak, when workers die and when the daemon restarts.
THEOREM Exclusive == Spec => []ListExclusive
  <1>1. Init => ListExclusive
    BY DEF Init, ListExclusive, Off, AtQueue, ListPCs
  <1> QED BY <1>1, ListExclusiveStep, TypedAlways, PTL DEF Spec

-----------------------------------------------------------------------------

(* Who holds the advisory locks. *)

\* A drive's lock is held by the worker that lists the drive, or its holder
\* cannot release it any more.
LockOwned ==
    \A w \in Workers, d \in Drives :
        lock[d] = w => \/ wk[w].pc \in ListPCs /\ MyDrive(w) = d
                       \/ d \in stuck

\* A step of one worker keeps the locks owned when it answers for its own.
LEMMA OwnerMoves ==
    ASSUME Typed, LockOwned, NEW w \in Workers, NEW x, Become(w, x),
           \A d \in Drives : lock'[d] \in {lock[d], w, NoWorker},
           \A d \in Drives : lock'[d] = w => \/ x.pc \in ListPCs /\ x.task.drive = d
                                             \/ d \in stuck',
           \A d \in stuck : d \in stuck' \/ lock'[d] = NoWorker
    PROVE  LockOwned'
  <1>1. wk' = [wk EXCEPT ![w] = x] /\ wk \in [Workers -> Worker]
    BY DEF Become, Typed, TypeOK
  <1>2. ASSUME NEW v \in Workers, v # w, NEW d \in Drives, lock'[d] = v
        PROVE  (wk'[v].pc \in ListPCs /\ wk'[v].task.drive = d) \/ d \in stuck'
    <2>1. lock[d] = v
      BY <1>2, RagDaemonAssumption
    <2>2. wk'[v] = wk[v]
      BY <1>1, <1>2
    <2> QED BY <1>2, <2>1, <2>2, RagDaemonAssumption DEF LockOwned, MyDrive
  <1>3. wk'[w] = x
    BY <1>1
  <1> QED BY <1>2, <1>3 DEF LockOwned, MyDrive

\* No step, of whoever, leaves a lock that can be released with a worker that
\* does not list the drive.
LEMMA LockOwnedStep == Typed /\ LockOwned /\ [Next]_vars => LockOwned'
  <1> SUFFICES ASSUME Typed, LockOwned, [Next]_vars PROVE LockOwned'
    OBVIOUS
  <1>a. ASSUME UNCHANGED <<wk, lock, stuck>> PROVE LockOwned'
    BY <1>a DEF LockOwned, MyDrive
  <1>c. \A w \in Workers : wk[w] \in Worker
    BY DEF Typed, TypeOK
  <1>d. lock \in [Drives -> Workers \cup {NoWorker}] /\ stuck \subseteq Drives
    BY DEF Typed, TypeOK
  <1>1. ASSUME NEW w \in Workers, WorkerStep(w) PROVE LockOwned'
    <2>a. ASSUME NEW x, Become(w, x), wk[w].pc \notin ListPCs, UNCHANGED <<lock, stuck>>
          PROVE  LockOwned'
      <3>1. \A d \in Drives : lock[d] = w => d \in stuck
        BY <2>a DEF LockOwned
      <3> QED BY <2>a, <3>1, OwnerMoves
    <2>b. ASSUME Return(w), Release(w), wk[w].pc \in ListPCs PROVE LockOwned'
      <3>1. MyDrive(w) \in Drives
        BY <2>b, WorkerMoves DEF Typed, ListPCs, Away
      <3>2. \A d \in Drives : lock'[d] \in {lock[d], NoWorker}
        BY <1>d, <2>b DEF Release
      <3>3. lock'[MyDrive(w)] = NoWorker \/ MyDrive(w) \in stuck
        BY <1>d, <2>b, <3>1 DEF Release
      <3>4. stuck' = stuck
        BY <2>b DEF Release
      <3>5. \A d \in Drives : lock'[d] = w => d \in stuck'
        BY <3>2, <3>3, <3>4, RagDaemonAssumption DEF LockOwned
      <3> QED BY <2>b, <3>2, <3>4, <3>5, OwnerMoves DEF Return
    <2>c. ASSUME NEW x, Become(w, x), wk[w].pc \in ListPCs, UNCHANGED <<lock, stuck>>,
                 x.pc \in ListPCs, x.task.drive = MyDrive(w)
          PROVE  LockOwned'
      <3>1. \A d \in Drives : lock[d] = w => d = MyDrive(w) \/ d \in stuck
        BY DEF LockOwned
      <3> QED BY <2>c, <3>1, OwnerMoves
    <2>1. CASE Take(w)
      <3>1. wk' = wk \/ \E x : Become(w, x)
        BY <2>1 DEF Take
      <3> QED BY <1>a, <2>1, <2>a, <3>1 DEF Take, At, ListPCs, lockVars
    <2>2. CASE GetTimeout(w)
      BY <1>a, <2>2 DEF GetTimeout, lockVars
    <2>3. CASE \/ ListOpen(w) \/ FileStart(w) \/ FileFetch(w) \/ FileUpsert(w) \/ FileFails(w)
               \/ FileEmpty(w) \/ DeleteStart(w) \/ DeleteChunks(w)
               \/ FinalizeStart(w) \/ FinalizeEnd(w) \/ TaskFails(w)
      <3>1. wk[w].pc \notin ListPCs
        BY <2>3 DEF ListOpen, FileStart, FileFetch, FileUpsert, FileFails, FileEmpty, DeleteStart,
                    DeleteChunks, FinalizeStart, FinalizeEnd, TaskFails, At, ListPCs
      <3>2. \E x : Become(w, x)
        BY <2>3, Zenon DEF ListOpen, FileStart, FileFetch, FileUpsert, FileFails, FileEmpty,
                           DeleteStart, DeleteChunks, FinalizeStart, FinalizeEnd, TaskFails,
                           Return, Goto
      <3>3. UNCHANGED <<lock, stuck>>
        BY <2>3, Zenon DEF ListOpen, FileStart, FileFetch, FileUpsert, FileFails, FileEmpty,
                    DeleteStart, DeleteChunks, FinalizeStart, FinalizeEnd, TaskFails, lockVars
      <3> QED BY <2>a, <3>1, <3>2, <3>3
    <2>4. CASE ListClaim(w)
      <3>0. wk[w].pc \notin ListPCs /\ MyDrive(w) \in Drives
        BY <2>4, WorkerMoves DEF ListClaim, At, ListPCs, Away, Typed
      <3>1. CASE Return(w) /\ UNCHANGED lock
        BY <2>4, <2>a, <3>0, <3>1 DEF ListClaim, Return
      <3>2. CASE lock' = [lock EXCEPT ![MyDrive(w)] = w] /\ Goto(w, "token")
        <4> DEFINE x == [wk[w] EXCEPT !.pc = "token"]
        <4>1. x.pc \in ListPCs /\ x.task = wk[w].task
          BY <1>c DEF Worker, ListPCs
        <4>2. \A d \in Drives : lock'[d] \in {lock[d], w}
          BY <1>d, <3>2
        <4>3. \A d \in Drives : lock'[d] = w => d = MyDrive(w) \/ d \in stuck
          BY <1>d, <3>0, <3>2 DEF LockOwned
        <4>4. stuck' = stuck
          BY <2>4 DEF ListClaim
        <4> HIDE DEF x
        <4>5. Become(w, x)
          BY <3>2 DEF Goto, x
        <4> QED BY <4>1, <4>2, <4>3, <4>4, <4>5, OwnerMoves DEF MyDrive
      <3> QED BY <2>4, <3>1, <3>2 DEF ListClaim
    <2>5. CASE ListToken(w) \/ ListFiles(w) \/ ListBegin(w) \/ ListSchema(w) \/ ListPut(w)
      <3>0. wk[w].pc \in ListPCs /\ UNCHANGED <<lock, stuck>>
        BY <2>5, Zenon
           DEF ListToken, ListFiles, ListBegin, ListSchema, ListPut, At, ListPCs, lockVars
      <3>1. \E x : Become(w, x) /\ x.pc \in ListPCs /\ x.task.drive = MyDrive(w)
        BY <2>5, ListingGoesOn DEF Typed
      <3> QED BY <2>c, <3>0, <3>1
    <2>6. CASE ListApiFails(w) \/ ListDone(w)
      <3>1. wk[w].pc \in ListPCs /\ Return(w) /\ Release(w)
        BY <2>6, Zenon DEF ListApiFails, ListDone, At, ListPCs
      <3> QED BY <2>b, <3>1
    <2>7. CASE ListDbFails(w)
      <3>0. wk[w].pc \in ListPCs /\ Return(w)
        BY <2>7 DEF ListDbFails, At, ListPCs
      <3>1. CASE stuck' = stuck \cup {MyDrive(w)} /\ UNCHANGED lock
        <4>1. \A d \in Drives : lock[d] = w => d \in stuck'
          BY <3>1 DEF LockOwned
        <4> QED BY <3>0, <3>1, <4>1, OwnerMoves DEF Return
      <3>2. CASE Release(w)
        BY <2>b, <3>0, <3>2
      <3> QED BY <2>7, <3>1, <3>2 DEF ListDbFails
    <2> QED BY <1>1, <2>1, <2>2, <2>3, <2>4, <2>5, <2>6, <2>7 DEF WorkerStep
  <1>2. ASSUME NEW w \in Workers, Die(w) PROVE LockOwned'
    <2>1. \A d \in Drives : lock'[d] \in {lock[d], NoWorker} /\ lock'[d] # w
      BY <1>2, <1>d, RagDaemonAssumption DEF Die, HeldBy
    <2>2. \A d \in stuck : d \in stuck' \/ lock'[d] = NoWorker
      BY <1>2, <1>d DEF Die, HeldBy
    <2> QED BY <1>2, <2>1, <2>2, OwnerMoves DEF Die
  <1>3. ASSUME NEW w \in Workers, Spawn(w) PROVE LockOwned'
    <2>1. \A d \in Drives : lock[d] = w => d \in stuck
      BY <1>3 DEF Spawn, At, LockOwned, ListPCs
    <2> QED BY <1>3, <2>1, OwnerMoves DEF Spawn, Return, lockVars
  <1>4. CASE Crash
    <2>1. \A d \in Drives : lock'[d] = NoWorker
      BY <1>4 DEF Crash
    <2> QED BY <2>1, RagDaemonAssumption DEF LockOwned
  <1>5. CASE ManagerStep
    BY <1>5, <1>3, <1>a
       DEF ManagerStep, MgrRefresh, MgrDrain, MgrReread, MgrDone, Start, MgrCancel, MgrFinalize,
           MgrList, workerVars, lockVars
  <1>6. ASSUME \/ \E w \in Workers : GoStale(w)
               \/ MgrFails \/ CleanupZombies \/ DiskCheck \/ ApiNext \/ UserEdits \/ UNCHANGED vars
               \/ \E d \in Drives : Enable(d) \/ Disable(d) \/ SyncNow(d) \/ Register(d)
                                    \/ Rebuild(d) \/ Delete(d)
               \/ \E on \in BOOLEAN : SetPaused(on)
        PROVE  LockOwned'
    <2>1. UNCHANGED <<wk, lock, stuck>>
      BY <1>6 DEF GoStale, MgrFails, CleanupZombies, DiskCheck, ApiNext, UserEdits, vars, Enable, Disable,
                  SyncNow, Register, Rebuild, Delete, DropFirst, SetPaused, workerVars, lockVars
    <2> QED BY <1>a, <2>1
  <1> QED BY <1>1, <1>2, <1>4, <1>5, <1>6 DEF Next

\* Whoever holds a drive's advisory lock lists that drive, but for the locks
\* a database error made impossible to release (_handle_list, release_drive).
THEOREM LocksOwned == Spec => []LockOwned
  <1>1. Init => LockOwned
    BY RagDaemonAssumption DEF Init, LockOwned
  <1> QED BY <1>1, LockOwnedStep, TypedAlways, PTL DEF Spec

\* Without database errors in a listing, a worker between two tasks holds no
\* lock, however the Drive API fails, the builds are cancelled, the workers
\* die and the daemon restarts (_handle_list's finally clause).
THEOREM IdleFree == ASSUME "db" \notin Faults PROVE Spec => []IdleHoldsNoLock
  <1> DEFINE NoneStuck == stuck = {}
  <1>1. Init => NoneStuck
    BY DEF Init
  <1>2. Typed /\ NoneStuck /\ [Next]_vars => NoneStuck'
    <2> SUFFICES ASSUME Typed, NoneStuck, [Next]_vars PROVE NoneStuck'
      OBVIOUS
    <2>1. ASSUME NEW w \in Workers, WorkerStep(w) PROVE UNCHANGED stuck
      BY <2>1, Zenon
         DEF WorkerStep, Take, GetTimeout, ListOpen, ListClaim, ListToken, ListFiles, ListApiFails,
             ListBegin, ListSchema, ListDbFails, ListPut, ListDone, FileStart, FileFetch,
             FileUpsert, FileFails, FileEmpty, DeleteStart, DeleteChunks, FinalizeStart,
             FinalizeEnd, TaskFails, Release, lockVars
    <2>2. ASSUME NEW w \in Workers, Die(w) PROVE NoneStuck'
      BY <2>2 DEF Die
    <2>3. CASE ManagerStep
      BY <2>3, Zenon
         DEF ManagerStep, MgrRefresh, MgrDrain, MgrReread, MgrDone, Start, MgrCancel, MgrFinalize,
             MgrList, Spawn, workerVars, lockVars
    <2>4. CASE Crash
      BY <2>4 DEF Crash
    <2>5. ASSUME \/ \E w \in Workers : GoStale(w)
                 \/ MgrFails \/ CleanupZombies \/ DiskCheck \/ ApiNext \/ UserEdits \/ UNCHANGED vars
                 \/ \E d \in Drives : Enable(d) \/ Disable(d) \/ SyncNow(d) \/ Register(d)
                                      \/ Rebuild(d) \/ Delete(d)
                 \/ \E on \in BOOLEAN : SetPaused(on)
          PROVE  UNCHANGED stuck
      BY <2>5, Zenon
         DEF GoStale, MgrFails, CleanupZombies, DiskCheck, ApiNext, UserEdits, vars, Enable, Disable,
             SyncNow, Register, Rebuild, Delete, DropFirst, SetPaused, workerVars, lockVars
    <2> QED BY <2>1, <2>2, <2>3, <2>4, <2>5 DEF Next
  <1>3. LockOwned /\ NoneStuck => IdleHoldsNoLock
    BY DEF LockOwned, IdleHoldsNoLock, ListPCs
  <1> QED BY <1>1, <1>2, <1>3, LocksOwned, TypedAlways, PTL DEF Spec

-----------------------------------------------------------------------------

(* The counters of queued file tasks. *)

\* Where the file tasks of d stand in a sequence of tasks.
FileTasksAt(s, d) == {i \in DOMAIN s : Counted(s[i]) /\ s[i].drive = d}

FileTasks(s, d) == Cardinality(FileTasksAt(s, d))

\* A queue holds finitely many of them.
LEMMA FileTasksType ==
    ASSUME NEW s \in Seq(Task), NEW d
    PROVE  /\ IsFiniteSet(FileTasksAt(s, d)) /\ FileTasks(s, d) \in Nat
           /\ FileTasks(s, d) > 0 <=> FileTasksAt(s, d) # {}
  <1>1. IsFiniteSet(DOMAIN s)
    BY FS_Interval
  <1>2. IsFiniteSet(FileTasksAt(s, d))
    BY <1>1, FS_Subset DEF FileTasksAt
  <1> QED BY <1>2, FS_CardinalityType, FS_EmptySet DEF FileTasks

\* An empty queue holds none.
LEMMA FileTasksNone == \A d : FileTasks(<<>>, d) = 0
  <1>1. \A d : FileTasksAt(<<>>, d) = {}
    BY DEF FileTasksAt
  <1> QED BY <1>1, FS_EmptySet DEF FileTasks

\* Putting a task at the end counts it, if it is a file task of d.
LEMMA FileTasksAppend ==
    ASSUME NEW s \in Seq(Task), NEW t \in Task, NEW d
    PROVE  FileTasks(Append(s, t), d)
              = FileTasks(s, d) + (IF Counted(t) /\ t.drive = d THEN 1 ELSE 0)
  <1> DEFINE n == Len(s) + 1
  <1>1. n \notin FileTasksAt(s, d)
    BY DEF FileTasksAt
  <1>2. FileTasksAt(Append(s, t), d)
           = FileTasksAt(s, d) \cup (IF Counted(t) /\ t.drive = d THEN {n} ELSE {})
    BY DEF FileTasksAt
  <1>3. CASE Counted(t) /\ t.drive = d
    <2>1. FileTasksAt(Append(s, t), d) = FileTasksAt(s, d) \cup {n}
      BY <1>2, <1>3
    <2>2. IsFiniteSet(FileTasksAt(s, d))
      BY FileTasksType
    <2>3. Cardinality(FileTasksAt(s, d) \cup {n}) = Cardinality(FileTasksAt(s, d)) + 1
      BY <1>1, <2>2, FS_AddElement
    <2> QED BY <1>3, <2>1, <2>3 DEF FileTasks
  <1>4. CASE ~(Counted(t) /\ t.drive = d)
    <2>1. FileTasksAt(Append(s, t), d) = FileTasksAt(s, d)
      BY <1>2, <1>4
    <2> QED BY <1>4, <2>1, FileTasksType DEF FileTasks
  <1> QED BY <1>3, <1>4

\* Taking the first task leaves the count of the others.
LEMMA FileTasksTail ==
    ASSUME NEW s \in Seq(Task), s # <<>>, NEW d
    PROVE  FileTasks(s, d) = FileTasks(Tail(s), d)
                             + (IF Counted(Head(s)) /\ Head(s).drive = d THEN 1 ELSE 0)
  <1> DEFINE h == Counted(Head(s)) /\ Head(s).drive = d
             A == FileTasksAt(s, d)
             B == FileTasksAt(Tail(s), d)
             f == [i \in B |-> i + 1]
  <1>1. Tail(s) \in Seq(Task) /\ Len(Tail(s)) = Len(s) - 1 /\ Len(s) > 0
    OBVIOUS
  <1>2. \A i \in 1 .. Len(Tail(s)) : Tail(s)[i] = s[i + 1]
    BY <1>1
  <1>3. f \in Bijection(B, A \ {1})
    <2>1. \A i \in B : i + 1 \in A \ {1}
      BY <1>1, <1>2 DEF FileTasksAt
    <2>2. ASSUME NEW i \in A \ {1} PROVE i - 1 \in B /\ i = f[i - 1]
      <3>1. i \in 1 .. Len(s) /\ i # 1 /\ Counted(s[i]) /\ s[i].drive = d
        BY DEF FileTasksAt
      <3>2. i - 1 \in 1 .. Len(Tail(s))
        BY <1>1, <3>1
      <3>3. Tail(s)[i - 1] = s[i]
        BY <1>2, <3>1, <3>2
      <3>4. i - 1 \in B
        BY <3>1, <3>2, <3>3 DEF FileTasksAt
      <3> QED BY <3>1, <3>4
    <2>3. \A i, j \in B : f[i] = f[j] => i = j
      BY DEF FileTasksAt
    <2> QED BY <2>1, <2>2, <2>3 DEF Bijection, Injection, Surjection, IsInjective
  <1>4. FileTasks(Tail(s), d) = Cardinality(A \ {1})
    <2>1. IsFiniteSet(B)
      BY <1>1, FileTasksType
    <2>2. ExistsBijection(B, A \ {1})
      BY <1>3 DEF ExistsBijection
    <2> HIDE DEF A, B, f
    <2>3. Cardinality(A \ {1}) = Cardinality(B)
      BY <2>1, <2>2, FS_Bijection
    <2> QED BY <2>3 DEF FileTasks, B
  <1>5. 1 \in A <=> h
    BY <1>1 DEF FileTasksAt
  <1>6. FileTasks(s, d) \in Nat /\ IsFiniteSet(A)
    BY FileTasksType
  <1> HIDE DEF A, B, f
  <1>7. Cardinality(A \ {1}) = IF 1 \in A THEN Cardinality(A) - 1 ELSE Cardinality(A)
    BY <1>6, FS_RemoveElement
  <1> QED BY <1>4, <1>5, <1>6, <1>7 DEF FileTasks, A
\* The counters, told in terms of those counts.
LEMMA PendingExactCounts ==
    /\ PendingExact <=> \A d \in Drives : cnt[d] = FileTasks(queue, d) + FileTasks(keep, d)
    /\ PendingExact' <=> \A d \in Drives : cnt'[d] = FileTasks(queue', d) + FileTasks(keep', d)
  BY DEF PendingExact, Waiting, HowMany, FileTasks, FileTasksAt

\* Putting a task in the queue and taking the first one out keep the counters
\* exact (_enqueue; queue.get with _mark_consumed).
LEMMA CountersFollow ==
    ASSUME QueueTypeOK, PendingExact
    PROVE  /\ \A t \in Task : Enqueue(t) /\ UNCHANGED keep => PendingExact'
           /\ queue # <<>> /\ queue' = Tail(queue) /\ MarkConsumed(Head(queue))
                 /\ UNCHANGED keep => PendingExact'
  <1> USE DEF QueueTypeOK
  <1>0. \A d \in Drives : /\ cnt[d] = FileTasks(queue, d) + FileTasks(keep, d)
                          /\ FileTasks(queue, d) \in Nat /\ FileTasks(keep, d) \in Nat
    BY PendingExactCounts, FileTasksType
  <1>1. ASSUME NEW t \in Task, Enqueue(t), UNCHANGED keep PROVE PendingExact'
    <2>1. SUFFICES ASSUME NEW d \in Drives
                   PROVE  cnt'[d] = FileTasks(queue', d) + FileTasks(keep', d)
      BY PendingExactCounts
    <2>2. FileTasks(queue', d)
             = FileTasks(queue, d) + (IF Counted(t) /\ t.drive = d THEN 1 ELSE 0)
      BY <1>1, FileTasksAppend DEF Enqueue
    <2>3. cnt'[d] = cnt[d] + (IF Counted(t) /\ t.drive = d THEN 1 ELSE 0)
      BY <1>1 DEF Enqueue
    <2> QED BY <1>0, <1>1, <2>2, <2>3
  <1>2. ASSUME queue # <<>>, queue' = Tail(queue), MarkConsumed(Head(queue)), UNCHANGED keep
        PROVE  PendingExact'
    <2>1. SUFFICES ASSUME NEW d \in Drives
                   PROVE  cnt'[d] = FileTasks(queue', d) + FileTasks(keep', d)
      BY PendingExactCounts
    <2> DEFINE t == Head(queue)
               one == IF Counted(t) /\ t.drive = d THEN 1 ELSE 0
    <2>2. FileTasks(queue, d) = FileTasks(queue', d) + one
      BY <1>2, FileTasksTail
    <2>3. FileTasks(queue', d) \in Nat
      <3>1. Tail(queue) \in Seq(Task)
        BY <1>2
      <3> QED BY <1>2, <3>1, FileTasksType
    <2>4. cnt'[d] = cnt[d] - one
      <3>1. cnt[d] >= one
        BY <1>0, <2>2, <2>3
      <3> QED BY <1>2, <3>1 DEF MarkConsumed
    <2> QED BY <1>0, <1>2, <2>2, <2>3, <2>4
  <1> QED BY <1>1, <1>2

\* One round of the drain, and its end, keep the counters exact
\* (_drain_queue_for_drive).
LEMMA CountersDrain ==
    ASSUME QueueTypeOK, PendingExact
    PROVE  /\ \A d : queue # <<>> /\ DrainOne(d) => PendingExact'
           /\ queue = <<>> /\ PutBack => PendingExact'
  <1> USE DEF QueueTypeOK
  <1>0. \A d \in Drives : /\ cnt[d] = FileTasks(queue, d) + FileTasks(keep, d)
                          /\ FileTasks(queue, d) \in Nat /\ FileTasks(keep, d) \in Nat
    BY PendingExactCounts, FileTasksType
  <1>1. ASSUME NEW e, queue # <<>>, DrainOne(e) PROVE PendingExact'
    <2>1. CASE Counted(Head(queue)) /\ Head(queue).drive = e
      BY <1>1, <2>1, CountersFollow DEF DrainOne
    <2>2. CASE ~(Counted(Head(queue)) /\ Head(queue).drive = e)
      <3>1. /\ queue' = Tail(queue) /\ keep' = Append(keep, Head(queue)) /\ UNCHANGED cnt
            /\ Head(queue) \in Task /\ Tail(queue) \in Seq(Task)
        BY <1>1, <2>2, QueueOps, Zenon DEF DrainOne
      <3>2. SUFFICES ASSUME NEW d \in Drives
                     PROVE  cnt'[d] = FileTasks(queue', d) + FileTasks(keep', d)
        BY PendingExactCounts
      <3> DEFINE one == IF Counted(Head(queue)) /\ Head(queue).drive = d THEN 1 ELSE 0
      <3>3. FileTasks(queue, d) = FileTasks(queue', d) + one
        BY <1>1, <3>1, FileTasksTail
      <3>4. FileTasks(keep', d) = FileTasks(keep, d) + one
        BY <3>1, FileTasksAppend
      <3>5. FileTasks(queue', d) \in Nat /\ FileTasks(keep, d) \in Nat
        BY <3>1, FileTasksType
      <3> QED BY <1>0, <3>1, <3>3, <3>4, <3>5
    <2> QED BY <2>1, <2>2
  <1>2. ASSUME queue = <<>>, PutBack PROVE PendingExact'
    <2>1. queue' = keep /\ keep' = queue /\ UNCHANGED cnt
      BY <1>2 DEF PutBack
    <2> QED BY <1>0, <2>1, PendingExactCounts
  <1> QED BY <1>1, <1>2

\* No step, of whoever, makes a counter disagree with the queue.
LEMMA PendingExactStep == Typed /\ PendingExact /\ [Next]_vars => PendingExact'
  <1> SUFFICES ASSUME Typed, PendingExact, [Next]_vars PROVE PendingExact'
    OBVIOUS
  <1>a. ASSUME UNCHANGED queueVars PROVE PendingExact'
    BY <1>a, PendingExactCounts DEF queueVars
  <1>b. QueueTypeOK
    BY DEF Typed, TypeOK
  <1>1. ASSUME NEW w \in Workers, WorkerStep(w) PROVE PendingExact'
    <2>1. CASE Take(w)
      BY <1>b, <2>1, CountersFollow DEF Take
    <2>2. CASE ListPut(w)
      <3>1. CASE UNCHANGED <<queue, cnt, keep>>
        BY <1>a, <3>1 DEF queueVars
      <3>2. ASSUME NEW t \in wk[w].todo, Enqueue(t), UNCHANGED keep PROVE PendingExact'
        <4>1. t \in Task
          BY <3>2, WorkerMoves DEF Typed
        <4> QED BY <1>b, <3>2, <4>1, CountersFollow
      <3> QED BY <2>2, <3>1, <3>2 DEF ListPut
    <2>3. ASSUME ~Take(w), ~ListPut(w) PROVE UNCHANGED queueVars
      BY <1>1, <2>3, Zenon
         DEF WorkerStep, GetTimeout, ListOpen, ListClaim, ListToken, ListFiles, ListApiFails,
             ListBegin, ListSchema, ListDbFails, ListDone, FileStart, FileFetch, FileUpsert,
             FileFails, FileEmpty, DeleteStart, DeleteChunks, FinalizeStart, FinalizeEnd,
             TaskFails, queueVars, dbVars
    <2> QED BY <1>a, <2>1, <2>2, <2>3
  <1>2. CASE MgrDrain
    BY <1>b, <1>2, CountersDrain DEF MgrDrain
  <1>3. ASSUME NEW t \in mgr.lists, MgrList(t) PROVE PendingExact'
    <2>1. t \in Task
      BY <1>3 DEF Typed, TypeOK, Manager
    <2>2. CASE Enqueue(t)
      BY <1>b, <1>3, <2>1, <2>2, CountersFollow DEF MgrList
    <2>3. CASE UNCHANGED <<queue, cnt>>
      BY <1>a, <1>3, <2>3 DEF MgrList, queueVars
    <2> QED BY <1>3, <2>2, <2>3 DEF MgrList
  <1>4. ASSUME NEW d \in Drives, MgrFinalize(d) PROVE PendingExact'
    <2>1. TaskFor("finalize", d) \in Task
      BY DEF TaskFor, Task, Kinds, ListKinds, FileKinds
    <2>2. CASE Enqueue(TaskFor("finalize", d))
      BY <1>b, <1>4, <2>1, <2>2, CountersFollow DEF MgrFinalize
    <2>3. CASE UNCHANGED <<queue, cnt>>
      BY <1>a, <1>4, <2>3 DEF MgrFinalize, queueVars
    <2> QED BY <1>4, <2>2, <2>3 DEF MgrFinalize
  <1>5. CASE Crash
    BY <1>5, FileTasksNone, PendingExactCounts DEF Crash
  <1>6. CASE ManagerStep
    <2>1. ASSUME MgrRefresh \/ MgrReread \/ MgrDone \/ Start \/ (\E d \in Drives : MgrCancel(d))
                 \/ \E w \in Workers : Spawn(w)
          PROVE  UNCHANGED queueVars
      BY <2>1, Zenon DEF MgrRefresh, MgrReread, MgrDone, Start, MgrCancel, Spawn
    <2> QED BY <1>6, <1>a, <1>2, <1>3, <1>4, <2>1 DEF ManagerStep
  <1>7. ASSUME \/ \E w \in Workers : GoStale(w) \/ Die(w)
               \/ MgrFails \/ CleanupZombies \/ DiskCheck \/ ApiNext \/ UserEdits \/ UNCHANGED vars
               \/ \E d \in Drives : Enable(d) \/ Disable(d) \/ SyncNow(d) \/ Register(d)
                                    \/ Rebuild(d) \/ Delete(d)
               \/ \E on \in BOOLEAN : SetPaused(on)
        PROVE  UNCHANGED queueVars
    BY <1>7, Zenon DEF GoStale, Die, MgrFails, CleanupZombies, DiskCheck, ApiNext, UserEdits, vars, Enable,
                       Disable, SyncNow, Register, Rebuild, Delete, DropFirst, SetPaused
  <1> QED BY <1>1, <1>5, <1>6, <1>7, <1>a DEF Next

\* The counters that completion detection reads never disagree with the tasks
\* queued, for any number of drives, files and workers, whatever the manager
\* drains meanwhile and wherever a crash falls (_enqueue, _mark_consumed,
\* _drain_queue_for_drive): no build is finalized over queued file tasks, and
\* none is kept open by tasks that are gone.
THEOREM CountersExact == Spec => []PendingExact
  <1>1. Init => PendingExact
    BY FileTasksNone, PendingExactCounts DEF Init
  <1> QED BY <1>1, PendingExactStep, TypedAlways, PTL DEF Spec

=============================================================================
