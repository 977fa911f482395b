---------------------------- MODULE CursorProofs -----------------------------
(***************************************************************************)
(* RagDaemon implements ChangeCursor, for every value of the constants.     *)
(* What a step does to the tokens is classified first; the inductive        *)
(* invariant and the refinement are then shown class by class.              *)
(***************************************************************************)
EXTENDS RagDaemonProofs

\* No token is ahead of the change log, and none staged behind the cursor.
CursorOrder ==
    \A d \in Drives :
        /\ reg[d].rotate <= head[d] /\ reg[d].pending <= head[d]
        /\ reg[d].pending # NoToken => reg[d].rotate <= reg[d].pending

\* A listing whose token is the one it will stage.
HoldsToken(x) == x.pc = "begin" \/ (x.pc = "files" /\ x.task.kind = "list_full")

\* Such a token is not behind the cursor nor behind what is staged.
Fresh(x) ==
    LET d == x.task.drive
    IN  /\ x.token \in 1 .. head[d]
        /\ reg[d].rotate <= x.token /\ reg[d].pending <= x.token

TokenFresh == \A w \in Workers : HoldsToken(wk[w]) => Fresh(wk[w])

\* The inductive invariant.
CursorInv == Typed /\ ListExclusive /\ CursorOrder /\ TokenFresh

(* What a step does to the two tokens of every row, and to the change logs. *)

Moves(d, rotate, pending) ==
    /\ head' = head
    /\ reg'[d].rotate = rotate /\ reg'[d].pending = pending
    /\ \A e \in Drives \ {d} :
          reg'[e].rotate = reg[e].rotate /\ reg'[e].pending = reg[e].pending

Still ==
    /\ head' = head
    /\ \A e \in Drives : reg'[e].rotate = reg[e].rotate /\ reg'[e].pending = reg[e].pending

\* The tokens of a drive are cleared, discarded or committed.
Lowers ==
    \E d \in Drives :
        \/ Moves(d, reg[d].rotate, NoToken)
        \/ Moves(d, NoToken, reg[d].pending)
        \/ Moves(d, NoToken, NoToken)
        \/ reg[d].pending # NoToken /\ Moves(d, reg[d].pending, NoToken)

\* A user's change is logged.
Grows == \E d \in Drives : head' = [head EXCEPT ![d] = @ + 1] /\ reg' = reg

\* An UPDATE of d's row sets d's tokens to those of the new row, or does
\* nothing.
LEMMA UpdateFields ==
    ASSUME RegistryTypeOK, NEW d \in Drives, NEW row, UpdateRow(d, row), head' = head
    PROVE  Still \/ Moves(d, row.rotate, row.pending)
  BY DEF RegistryTypeOK, UpdateRow, Still, Moves

\* Which transactions on fd_registry touch the tokens, and how.
LEMMA TokenOps ==
    ASSUME RegistryTypeOK, NEW d \in Drives, head' = head
    PROVE  /\ \A on \in BOOLEAN : SetEnabled(d, on) => Still
           /\ SetError(d) \/ RequestCancel(d) => Still
           /\ \A f \in Files : AddFailedFile(d, f) => Still
           /\ UpsertFd(d) \/ DeleteRow(d) \/ ClearRotate(d) \/ AbortBuild(d)
                \/ CommitBuild(d) => Still \/ Lowers
           /\ \A t : BeginBuild(d, t) => Still \/ Moves(d, reg[d].rotate, t)
  <1>0. reg[d] \in Row
    BY DEF RegistryTypeOK
  <1>a. Moves(d, reg[d].rotate, reg[d].pending) => Still
    BY DEF Moves, Still
  <1>1. ASSUME NEW on \in BOOLEAN, SetEnabled(d, on) PROVE Still
    <2> DEFINE row == Enabled(reg[d], on)
    <2>1. row.rotate = reg[d].rotate /\ row.pending = reg[d].pending
      BY <1>0 DEF Enabled, Row
    <2>2. UpdateRow(d, row)
      BY <1>1 DEF SetEnabled
    <2> HIDE DEF row
    <2> QED BY <1>a, <2>1, <2>2, UpdateFields
  <1>2. ASSUME SetError(d) PROVE Still
    <2> DEFINE row == [reg[d] EXCEPT !.state = "error"]
    <2>1. row.rotate = reg[d].rotate /\ row.pending = reg[d].pending
      BY <1>0 DEF Row
    <2>2. UpdateRow(d, row)
      BY <1>2 DEF SetError
    <2> HIDE DEF row
    <2> QED BY <1>a, <2>1, <2>2, UpdateFields
  <1>3. ASSUME RequestCancel(d) PROVE Still
    <2> DEFINE row == [reg[d] EXCEPT !.cancel = TRUE]
    <2>1. row.rotate = reg[d].rotate /\ row.pending = reg[d].pending
      BY <1>0 DEF Row
    <2>2. UpdateRow(d, row)
      BY <1>3 DEF RequestCancel
    <2> HIDE DEF row
    <2> QED BY <1>a, <2>1, <2>2, UpdateFields
  <1>4. ASSUME NEW f \in Files, AddFailedFile(d, f) PROVE Still
    <2> DEFINE row == [reg[d] EXCEPT !.failed = @ \cup {f}]
    <2>1. row.rotate = reg[d].rotate /\ row.pending = reg[d].pending
      BY <1>0 DEF Row
    <2>2. UpdateRow(d, row)
      BY <1>4 DEF AddFailedFile
    <2> HIDE DEF row
    <2> QED BY <1>a, <2>1, <2>2, UpdateFields
  <1>5. ASSUME NEW t, BeginBuild(d, t) PROVE Still \/ Moves(d, reg[d].rotate, t)
    <2> DEFINE row == [reg[d] EXCEPT !.state = "building", !.pending = t, !.cancel = FALSE]
    <2>1. row.rotate = reg[d].rotate /\ row.pending = t
      BY <1>0 DEF Row
    <2>2. UpdateRow(d, row)
      BY <1>5 DEF BeginBuild
    <2> HIDE DEF row
    <2> QED BY <2>1, <2>2, UpdateFields
  <1>6. ASSUME ClearRotate(d) PROVE Still \/ Lowers
    <2> DEFINE row == [reg[d] EXCEPT !.rotate = NoToken]
    <2>1. row.rotate = NoToken /\ row.pending = reg[d].pending
      BY <1>0 DEF Row
    <2>2. UpdateRow(d, row)
      BY <1>6 DEF ClearRotate
    <2> HIDE DEF row
    <2> QED BY <2>1, <2>2, UpdateFields DEF Lowers
  <1>7. ASSUME AbortBuild(d) PROVE Still \/ Lowers
    <2> DEFINE row == [reg[d] EXCEPT !.pending = NoToken, !.cancel = FALSE, !.state = "idle"]
    <2>1. row.rotate = reg[d].rotate /\ row.pending = NoToken
      BY <1>0 DEF Row
    <2>2. UpdateRow(d, row)
      BY <1>7 DEF AbortBuild
    <2> HIDE DEF row
    <2> QED BY <2>1, <2>2, UpdateFields DEF Lowers
  <1>8. ASSUME CommitBuild(d) PROVE Still \/ Lowers
    <2> DEFINE row == [reg[d] EXCEPT !.rotate = IF reg[d].pending # NoToken
                                                THEN reg[d].pending ELSE @,
                                     !.pending = NoToken, !.cancel = FALSE, !.state = "idle"]
    <2>1. /\ row.rotate = IF reg[d].pending # NoToken THEN reg[d].pending ELSE reg[d].rotate
          /\ row.pending = NoToken
      BY <1>0 DEF Row
    <2>2. UpdateRow(d, row) \/ UNCHANGED reg
      BY <1>8 DEF CommitBuild
    <2> HIDE DEF row
    <2>3. UNCHANGED reg => Still
      BY DEF Still
    <2> QED BY <2>1, <2>2, <2>3, UpdateFields DEF Lowers
  <1>9. ASSUME UpsertFd(d) \/ DeleteRow(d) PROVE Still \/ Lowers
    <2>1. NewRow.rotate = NoToken /\ NewRow.pending = NoToken
      BY DEF NewRow
    <2>2. NoRow.rotate = NoToken /\ NoRow.pending = NoToken
      BY <2>1 DEF NoRow, NewRow
    <2>3. reg' = reg \/ reg' = [reg EXCEPT ![d] = NewRow] \/ reg' = [reg EXCEPT ![d] = NoRow]
      BY <1>9 DEF UpsertFd, DeleteRow
    <2>4. Still \/ Moves(d, NoToken, NoToken)
      BY <2>1, <2>2, <2>3 DEF RegistryTypeOK, Still, Moves
    <2> QED BY <2>4 DEF Lowers
  <1> QED BY <1>1, <1>2, <1>3, <1>4, <1>5, <1>6, <1>7, <1>8, <1>9

-----------------------------------------------------------------------------

\* A listing stages its token.
Begins ==
    \E w \in Workers : /\ At(w, "begin") /\ Goto(w, "schema")
                       /\ Moves(MyDrive(w), reg[MyDrive(w)].rotate, wk[w].token)

\* A worker's step leaves the tokens alone, lowers them (abort_build,
\* commit_build) or stages its own (begin_build).
LEMMA WorkerKinds ==
    ASSUME Typed, NEW w \in Workers, WorkerStep(w)
    PROVE  Still \/ Lowers \/ Begins
  <1> USE DEF gdriveVars, dbVars
  <1>a. reg' = reg /\ head' = head => Still
    BY DEF Still
  <1>c. RegistryTypeOK
    BY DEF Typed, TypeOK
  <1>d. wk[w].pc \notin Away => MyDrive(w) \in Drives
    BY WorkerMoves DEF Typed
  <1>f. wk[w].pc \in FilePCs => MyFile(w) \in Files
    BY WorkerMoves DEF Typed
  <1>1. CASE \/ Take(w) \/ GetTimeout(w) \/ ListClaim(w) \/ ListToken(w) \/ ListFiles(w)
             \/ ListSchema(w) \/ ListDbFails(w) \/ ListPut(w) \/ ListDone(w) \/ FileFetch(w)
             \/ FileEmpty(w) \/ DeleteStart(w) \/ DeleteChunks(w) \/ FinalizeStart(w)
             \/ TaskFails(w)
    BY <1>1, <1>a DEF Take, GetTimeout, ListClaim, ListToken, ListFiles, ListSchema, ListDbFails,
                      ListPut, ListDone, FileFetch, FileEmpty, DeleteStart, DeleteChunks,
                      FinalizeStart, TaskFails
  <1>2. CASE ListOpen(w)
    <2>1. MyDrive(w) \in Drives
      BY <1>d, <1>2 DEF ListOpen, At, Away
    <2> QED BY <1>2, <1>a, <1>c, <2>1, TokenOps DEF ListOpen
  <1>3. CASE ListApiFails(w)
    <2>1. MyDrive(w) \in Drives
      BY <1>d, <1>3 DEF ListApiFails, At, Away
    <2> QED BY <1>3, <1>c, <2>1, TokenOps DEF ListApiFails
  <1>4. CASE ListBegin(w)
    <2>1. MyDrive(w) \in Drives
      BY <1>d, <1>4 DEF ListBegin, At, Away
    <2> QED BY <1>4, <1>c, <2>1, TokenOps DEF ListBegin, Begins
  <1>5. CASE FileStart(w)
    <2>1. MyDrive(w) \in Drives
      BY <1>d, <1>5 DEF FileStart, At, Away
    <2> QED BY <1>5, <1>a, <1>c, <2>1, TokenOps DEF FileStart
  <1>6. CASE FileUpsert(w) \/ FileFails(w)
    <2>1. MyDrive(w) \in Drives /\ MyFile(w) \in Files
      BY <1>d, <1>f, <1>6 DEF FileUpsert, FileFails, At, Away, FilePCs
    <2> QED BY <1>6, <1>a, <1>c, <2>1, TokenOps DEF FileUpsert, FileFails
  <1>7. CASE FinalizeEnd(w)
    <2>1. MyDrive(w) \in Drives
      BY <1>d, <1>7 DEF FinalizeEnd, At, Away
    <2> QED BY <1>7, <1>c, <2>1, TokenOps DEF FinalizeEnd
  <1> QED BY <1>1, <1>2, <1>3, <1>4, <1>5, <1>6, <1>7 DEF WorkerStep

\* So does any step, or it is a user's change.
LEMMA StepKinds ==
    ASSUME Typed, [Next]_vars
    PROVE  Still \/ Lowers \/ Begins \/ Grows
  <1> USE DEF gdriveVars, dbVars
  <1>a. reg' = reg /\ head' = head => Still
    BY DEF Still
  <1>c. RegistryTypeOK
    BY DEF Typed, TypeOK
  <1>1. ASSUME NEW w \in Workers, WorkerStep(w) \/ GoStale(w) \/ Die(w) PROVE Still \/ Lowers \/ Begins
    BY <1>1, <1>a, WorkerKinds DEF GoStale, Die
  <1>2. CASE ManagerStep
    <2>1. ASSUME NEW d \in Drives, MgrCancel(d) PROVE Still
      BY <1>a, <1>c, <2>1, TokenOps DEF MgrCancel
    <2> QED BY <1>2, <1>a, <2>1
               DEF ManagerStep, MgrRefresh, MgrDrain, MgrReread, MgrDone, Start, MgrFinalize,
                   MgrList, Spawn
  <1>3. CASE CleanupZombies
    <2>1. PICK reset : reg' = [d \in Drives |-> IF d \in reset
                                  THEN [reg[d] EXCEPT !.state = "idle"] ELSE reg[d]]
      BY <1>3 DEF CleanupZombies
    <2>2. \A row \in Row : /\ [row EXCEPT !.state = "idle"].rotate = row.rotate
                           /\ [row EXCEPT !.state = "idle"].pending = row.pending
      BY DEF Row
    <2>3. \A d \in Drives : reg[d] \in Row
      BY <1>c DEF RegistryTypeOK
    <2>4. \A d \in Drives : reg'[d].rotate = reg[d].rotate /\ reg'[d].pending = reg[d].pending
      BY <2>1, <2>2, <2>3
    <2> QED BY <1>3, <2>4 DEF CleanupZombies, Still
  <1>4. ASSUME NEW d \in Drives, \/ Enable(d) \/ Disable(d) \/ SyncNow(d) \/ Register(d)
                                 \/ Rebuild(d) \/ Delete(d)
        PROVE  Still \/ Lowers
    BY <1>4, <1>a, <1>c, TokenOps
       DEF Enable, Disable, SyncNow, Register, Rebuild, Delete, DropFirst
  <1>5. CASE ApiNext
    <2>1. api.drive \in Drives
      BY <1>5 DEF ApiNext, Typed, TypeOK, NoRequest
    <2> QED BY <1>5, <1>c, <2>1, TokenOps DEF ApiNext
  <1>6. CASE UserEdits
    BY <1>6 DEF UserEdits, WriteFile, TrashFile, LogChange, Grows
  <1>7. CASE \/ MgrFails \/ DiskCheck \/ Crash \/ UNCHANGED vars
             \/ \E on \in BOOLEAN : SetPaused(on)
    BY <1>7, <1>a DEF MgrFails, DiskCheck, Crash, vars, SetPaused
  <1> QED BY <1>1, <1>2, <1>3, <1>4, <1>5, <1>6, <1>7 DEF Next

-----------------------------------------------------------------------------

(* How a worker comes to hold a token: it held it before, or it has just   *)
(* asked for the start page token.                                         *)

Same(x, y) == /\ HoldsToken(x) /\ y.token = x.token /\ y.task.drive = x.task.drive
New(y) == y.task.drive \in Drives /\ y.token = head[y.task.drive]

\* A worker that holds a token after a step held it before, or the step gave
\* it the present end of the change log (get_start_page_token).
LEMMA TokenKinds ==
    ASSUME Typed, [Next]_vars, NEW w \in Workers, HoldsToken(wk'[w])
    PROVE  wk'[w] = wk[w] \/ (Still /\ (Same(wk[w], wk'[w]) \/ New(wk'[w])))
  <1> USE DEF gdriveVars, dbVars, workerVars
  <1>a. wk \in [Workers -> Worker]
    BY DEF Typed, TypeOK
  <1>b. ~HoldsToken(AtQueue) /\ ~HoldsToken(Off) /\ ~HoldsToken(Dead)
    BY WorkerRecords DEF AtQueue, Off, Dead, HoldsToken
  <1>d. \A v \in Workers : wk[v].pc \notin Away => MyDrive(v) \in Drives
    BY WorkerMoves DEF Typed
  <1>e. ASSUME NEW v \in Workers, NEW x, Become(v, x) PROVE wk'[v] = x /\ (v # w => wk'[w] = wk[w])
    BY <1>a, <1>e DEF Become
  <1>1. ASSUME NEW v \in Workers, WorkerStep(v) PROVE wk'[w] = wk[w] \/ (v = w /\ ~UNCHANGED wk)
    <2>1. \/ UNCHANGED wk
          \/ \E x : Become(v, x)
      BY <1>1 DEF WorkerStep, Take, GetTimeout, ListOpen, ListClaim, ListToken, ListFiles,
                  ListApiFails, ListBegin, ListSchema, ListDbFails, ListPut, ListDone, FileStart,
                  FileFetch, FileUpsert, FileFails, FileEmpty, DeleteStart, DeleteChunks,
                  FinalizeStart, FinalizeEnd, TaskFails, Goto, Return
    <2> QED BY <1>e, <2>1
  <1>2. ASSUME WorkerStep(w), ~UNCHANGED wk
        PROVE  Still /\ (Same(wk[w], wk'[w]) \/ New(wk'[w]))
    <2>a. ~Return(w)
      BY <1>b, <1>e DEF Return
    <2>b. ASSUME NEW p, Goto(w, p), p # "files" PROVE p = "begin"
      <3>1. [wk[w] EXCEPT !.pc = p].pc = p
        BY <1>a DEF Worker
      <3> QED BY <1>e, <2>b, <3>1 DEF Goto, HoldsToken
    <2>1. CASE ListToken(w)
      <3> DEFINE y == [wk[w] EXCEPT !.pc = "files", !.token = StartPageToken(MyDrive(w)),
                                    !.task = TaskFor("list_full", MyDrive(w))]
      <3>1. y.task = TaskFor("list_full", MyDrive(w)) /\ y.token = head[MyDrive(w)]
        BY <1>a DEF Worker, StartPageToken
      <3>2. TaskFor("list_full", MyDrive(w)).drive = MyDrive(w)
        BY DEF TaskFor
      <3>3. MyDrive(w) \in Drives
        BY <1>d, <2>1 DEF ListToken, At, Away
      <3>4. CASE Become(w, y)
        BY <1>e, <2>1, <3>1, <3>2, <3>3, <3>4 DEF New, ListToken, Still
      <3>5. CASE ~Full(w) /\ Goto(w, "files")
        <4>1. wk'[w].task = wk[w].task /\ wk'[w].pc = "files"
          BY <1>a, <3>5 DEF Goto, Become, Worker
        <4> QED BY <3>5, <4>1 DEF Full, HoldsToken
      <3> QED BY <2>1, <3>4, <3>5 DEF ListToken
    <2>2. CASE ListFiles(w)
      <3> DEFINE d == MyDrive(w)
                 y == [wk[w] EXCEPT !.pc = "begin", !.todo = FullListing(d)]
                 z == [wk[w] EXCEPT !.pc = "begin", !.todo = DeltaListing(d, wk[w].token),
                                    !.token = StartPageToken(d)]
      <3>1. y.task = wk[w].task /\ y.token = wk[w].token
        BY <1>a DEF Worker
      <3>2. z.task = wk[w].task /\ z.token = head[d]
        BY <1>a DEF Worker, StartPageToken
      <3>3. d \in Drives
        BY <1>d, <2>2 DEF ListFiles, At, Away
      <3>4. Still
        BY <2>2 DEF ListFiles, Still
      <3>5. CASE Full(w) /\ Become(w, y)
        BY <1>e, <2>2, <3>1, <3>4, <3>5 DEF Same, ListFiles, At, Full, HoldsToken
      <3>6. CASE Become(w, z)
        BY <1>e, <3>2, <3>3, <3>4, <3>6 DEF New, MyDrive
      <3> QED BY <2>2, <3>5, <3>6 DEF ListFiles
    <2>3. CASE ListPut(w)
      <3>1. PICK s : Become(w, [wk[w] EXCEPT !.todo = s])
        BY <2>3 DEF ListPut
      <3>2. [wk[w] EXCEPT !.todo = s].pc = "put"
        BY <1>a, <2>3 DEF Worker, ListPut, At
      <3> QED BY <1>e, <3>1, <3>2 DEF HoldsToken
    <2>4. CASE Take(w)
      <3>1. Become(w, [AtQueue EXCEPT !.pc = EntryPC(Head(queue).kind), !.task = Head(queue)])
        BY <1>2, <2>4 DEF Take
      <3>2. [AtQueue EXCEPT !.pc = EntryPC(Head(queue).kind), !.task = Head(queue)].pc
                = EntryPC(Head(queue).kind)
        BY DEF AtQueue
      <3>3. Head(queue) \in Task
        BY <2>4, QueueOps DEF Take, Typed, TypeOK
      <3>4. \A t \in Task : EntryPC(t.kind) \notin {"begin", "files"}
        <4> SUFFICES ASSUME NEW t \in Task PROVE EntryPC(t.kind) \notin {"begin", "files"}
          OBVIOUS
        <4>0. t.kind = "list_full" \/ t.kind = "list_delta" \/ t.kind = "file"
                \/ t.kind = "file_delete" \/ t.kind = "finalize"
          BY DEF Task, Kinds, ListKinds, FileKinds
        <4> QED BY <4>0 DEF EntryPC, ListKinds
      <3> QED BY <1>e, <3>1, <3>2, <3>3, <3>4 DEF HoldsToken
    <2>5. CASE ListOpen(w)
      <3>1. [wk[w] EXCEPT !.pc = "claim", !.token = reg[MyDrive(w)].rotate].pc = "claim"
        BY <1>a DEF Worker
      <3> QED BY <1>e, <2>5, <2>a, <3>1 DEF ListOpen, HoldsToken
    <2>6. CASE FileFetch(w)
      <3>1. [wk[w] EXCEPT !.pc = "upsert", !.version = changed[MyDrive(w)][MyFile(w)]].pc = "upsert"
        BY <1>a DEF Worker
      <3> QED BY <1>e, <2>6, <3>1 DEF FileFetch, HoldsToken
    <2>7. CASE FinalizeStart(w)
      <3>1. [wk[w] EXCEPT !.pc = "commit", !.cancel = reg[MyDrive(w)].cancel].pc = "commit"
        BY <1>a DEF Worker
      <3> QED BY <1>e, <2>7, <2>a, <3>1 DEF FinalizeStart, HoldsToken
    <2>8. CASE \/ GetTimeout(w) \/ ListClaim(w) \/ ListApiFails(w) \/ ListBegin(w) \/ ListSchema(w)
               \/ ListDbFails(w) \/ ListDone(w) \/ FileStart(w) \/ FileUpsert(w) \/ FileFails(w)
               \/ FileEmpty(w) \/ DeleteStart(w) \/ DeleteChunks(w) \/ FinalizeEnd(w)
               \/ TaskFails(w)
      BY <1>2, <2>8, <2>a, <2>b
         DEF GetTimeout, ListClaim, ListApiFails, ListBegin, ListSchema, ListDbFails, ListDone,
             FileStart, FileUpsert, FileFails, FileEmpty, DeleteStart, DeleteChunks,
             FinalizeEnd, TaskFails
    <2> QED BY <1>2, <2>1, <2>2, <2>3, <2>4, <2>5, <2>6, <2>7, <2>8 DEF WorkerStep
  <1>3. ASSUME NEW v \in Workers, GoStale(v) \/ Die(v) PROVE wk'[w] = wk[w]
    <2>1. UNCHANGED wk \/ Become(v, Dead)
      BY <1>3 DEF GoStale, Die
    <2> QED BY <1>b, <1>e, <2>1
  <1>4. ASSUME NEW v \in Workers, Spawn(v) PROVE wk'[w] = wk[w]
    BY <1>4, <1>b, <1>e DEF Spawn, Return
  <1>5. CASE Crash
    BY <1>5, <1>b DEF Crash
  <1>6. CASE ManagerStep
    BY <1>6, <1>4
       DEF ManagerStep, MgrRefresh, MgrDrain, MgrReread, MgrDone, Start, MgrCancel, MgrFinalize,
           MgrList
  <1>7. ASSUME \/ MgrFails \/ CleanupZombies \/ DiskCheck \/ ApiNext \/ UserEdits \/ UNCHANGED vars
               \/ \E d \in Drives : Enable(d) \/ Disable(d) \/ SyncNow(d) \/ Register(d)
                                    \/ Rebuild(d) \/ Delete(d)
               \/ \E on \in BOOLEAN : SetPaused(on)
        PROVE  wk'[w] = wk[w]
    BY <1>7 DEF MgrFails, CleanupZombies, DiskCheck, ApiNext, UserEdits, vars, Enable, Disable,
                SyncNow, Register, Rebuild, Delete, DropFirst, SetPaused
  <1> QED BY <1>1, <1>2, <1>3, <1>5, <1>6, <1>7 DEF Next

-----------------------------------------------------------------------------

\* No step breaks the order of the tokens: begin_build stages a token that
\* is still fresh because the advisory lock kept other listings away since
\* the token was taken.
LEMMA CursorStep == CursorInv /\ [Next]_vars => CursorInv'
  <1> SUFFICES ASSUME CursorInv, [Next]_vars PROVE CursorInv'
    OBVIOUS
  <1>1. Typed' /\ ListExclusive'
    BY NextTyped, ListExclusiveStep DEF CursorInv
  <1>2. Still \/ Lowers \/ Begins \/ Grows
    BY StepKinds DEF CursorInv
  <1>3. /\ \A d \in Drives : reg[d].rotate \in Nat /\ reg[d].pending \in Nat
        /\ head \in [Drives -> Nat \ {0}]
        /\ wk \in [Workers -> Worker]
    BY DEF CursorInv, Typed, TypeOK, GDriveTypeOK, RegistryTypeOK, Row
  <1>4. ASSUME NEW w \in Workers, At(w, "begin")
        PROVE  /\ MyDrive(w) \in Drives /\ lock[MyDrive(w)] = w
               /\ wk[w].token \in Nat /\ wk[w].token <= head[MyDrive(w)]
               /\ reg[MyDrive(w)].rotate <= wk[w].token
               /\ reg[MyDrive(w)].pending <= wk[w].token
    <2>1. MyDrive(w) \in Drives
      BY <1>4, WorkerMoves DEF CursorInv, Typed, At, Away
    <2>2. lock[MyDrive(w)] = w
      BY <1>4 DEF CursorInv, ListExclusive, ListPCs, At
    <2>3. Fresh(wk[w])
      BY <1>4 DEF CursorInv, TokenFresh, HoldsToken, At
    <2> QED BY <1>3, <2>1, <2>2, <2>3 DEF Fresh, MyDrive
  <1>5. CursorOrder'
    <2> USE <1>3 DEF CursorInv, CursorOrder
    <2>1. CASE Still
      BY <2>1 DEF Still
    <2>2. CASE Lowers
      BY <2>2 DEF Lowers, Moves, NoToken
    <2>3. CASE Grows
      BY <2>3 DEF Grows
    <2>4. CASE Begins
      BY <1>4, <2>4 DEF Begins, Moves
    <2> QED BY <1>2, <2>1, <2>2, <2>3, <2>4
  <1>6. TokenFresh'
    <2> SUFFICES ASSUME NEW w \in Workers, HoldsToken(wk'[w]) PROVE Fresh(wk[w])'
      BY DEF TokenFresh
    <2> DEFINE x == wk'[w]
               d == x.task.drive
    <2>0. d \in Drives /\ x.token \in Nat
      BY <1>1, WorkerMoves DEF Typed, WorkersOK, WorkerOK, HoldsToken, Away, Task, Worker
    <2>1. CASE Still
      <3>1. head' = head /\ reg'[d].rotate = reg[d].rotate /\ reg'[d].pending = reg[d].pending
        BY <2>0, <2>1 DEF Still
      <3>2. CASE wk'[w] = wk[w] \/ Same(wk[w], wk'[w])
        BY <3>1, <3>2 DEF CursorInv, TokenFresh, Fresh, Same
      <3>3. CASE New(wk'[w])
        BY <1>3, <3>1, <3>3 DEF New, Fresh, CursorInv, CursorOrder
      <3> QED BY <3>2, <3>3, TokenKinds DEF CursorInv
    <2>2. CASE ~Still
      <3>1. wk'[w] = wk[w]
        BY <2>2, TokenKinds DEF CursorInv
      <3>2. Fresh(wk[w])
        BY <3>1 DEF CursorInv, TokenFresh
      <3> USE <1>3, <2>0, <3>1, <3>2 DEF Fresh
      <3>3. CASE Lowers
        <4>1. head' = head /\ reg'[d].rotate <= x.token /\ reg'[d].pending <= x.token
          BY <3>3 DEF Lowers, Moves, NoToken
        <4> QED BY <4>1
      <3>4. CASE Grows
        BY <3>4 DEF Grows
      <3>5. CASE Begins
        <4>1. PICK v \in Workers : /\ At(v, "begin") /\ Goto(v, "schema")
                                   /\ Moves(MyDrive(v), reg[MyDrive(v)].rotate, wk[v].token)
          BY <3>5 DEF Begins
        <4>2. v # w
          <5>1. [wk[v] EXCEPT !.pc = "schema"].pc = "schema"
            BY DEF Worker
          <5> QED BY <4>1, <5>1 DEF Goto, Become, HoldsToken
        <4>3. lock[d] = w
          BY <3>1 DEF CursorInv, ListExclusive, HoldsToken, ListPCs, MyDrive
        <4>4. MyDrive(v) # d
          BY <1>4, <4>1, <4>2, <4>3
        <4>5. head' = head /\ reg'[d].rotate = reg[d].rotate /\ reg'[d].pending = reg[d].pending
          BY <4>1, <4>4 DEF Moves
        <4> QED BY <4>5
      <3> QED BY <1>2, <2>2, <3>3, <3>4, <3>5
    <2> QED BY <2>1, <2>2
  <1> QED BY <1>1, <1>5, <1>6 DEF CursorInv

\* No drive has a token at first.
LEMMA InitTokens ==
    Init => \A d \in Drives : reg[d].rotate = NoToken /\ reg[d].pending = NoToken
  <1>1. NewRow.rotate = NoToken /\ NewRow.pending = NoToken
    BY DEF NewRow
  <1>2. Enabled(NewRow, TRUE).rotate = NoToken /\ Enabled(NewRow, TRUE).pending = NoToken
    BY DEF Enabled, NewRow
  <1>3. Init => \A d \in Drives : reg[d] \in {NewRow, Enabled(NewRow, TRUE)}
    BY DEF Init
  <1> QED BY <1>1, <1>2, <1>3

\* The order holds at first.
LEMMA CursorStart == Init => CursorInv
  <1> SUFFICES ASSUME Init PROVE CursorInv
    OBVIOUS
  <1>1. Typed
    BY InitTyped
  <1>2. \A w \in Workers : wk[w].pc = "off"
    BY DEF Init, Off, AtQueue
  <1>3. \A d \in Drives : reg[d].rotate = NoToken /\ reg[d].pending = NoToken /\ head[d] = 1
    BY InitTokens DEF Init, GDriveInit
  <1> QED BY <1>1, <1>2, <1>3
             DEF CursorInv, ListExclusive, ListPCs, CursorOrder, TokenFresh, HoldsToken, NoToken

\* The token of a listing is never older than a token already committed or
\* staged for its drive, and no token is ahead of the change log
\* (_handle_list, begin_build, commit_build).
THEOREM TokensOrdered == Spec => []CursorInv
  BY CursorStart, CursorStep, PTL DEF Spec

\* Every step of the daemon maps to a step of ChangeCursor or a stutter.
LEMMA CursorMaps == CursorInv /\ [Next]_vars => [Cursor!Next]_(Cursor!vars)
  <1> SUFFICES ASSUME CursorInv, [Next]_vars PROVE [Cursor!Next]_(Cursor!vars)
    OBVIOUS
  <1> DEFINE cursor == [d \in Drives |-> reg[d].rotate]
             staged == [d \in Drives |-> reg[d].pending]
  <1>1. ASSUME Still PROVE UNCHANGED <<head, cursor, staged>>
    BY <1>1 DEF Still
  <1>2. ASSUME NEW d \in Drives, NEW r, NEW p, Moves(d, r, p)
        PROVE  /\ head' = head
               /\ cursor' = [cursor EXCEPT ![d] = r]
               /\ staged' = [staged EXCEPT ![d] = p]
    BY <1>2 DEF Moves
  <1>3. CASE Still
    BY <1>1, <1>3 DEF Cursor!vars
  <1>4. CASE Lowers
    <2>1. PICK d \in Drives : \/ Moves(d, reg[d].rotate, NoToken)
                              \/ Moves(d, NoToken, reg[d].pending)
                              \/ Moves(d, NoToken, NoToken)
                              \/ reg[d].pending # NoToken /\ Moves(d, reg[d].pending, NoToken)
      BY <1>4 DEF Lowers
    <2>2. cursor = [cursor EXCEPT ![d] = reg[d].rotate]
      OBVIOUS
    <2>3. staged = [staged EXCEPT ![d] = reg[d].pending]
      OBVIOUS
    <2>4. CASE Moves(d, reg[d].rotate, NoToken)
      <3>1. head' = head /\ cursor' = cursor /\ staged' = [staged EXCEPT ![d] = NoToken]
        BY <1>2, <2>2, <2>4
      <3>2. Cursor!Discard(d)
        BY <3>1 DEF NoToken, Cursor!Discard
      <3> QED BY <3>2 DEF Cursor!Next
    <2>5. CASE Moves(d, NoToken, reg[d].pending)
      BY <1>2, <2>3, <2>5 DEF NoToken, Cursor!Next, Cursor!Clear
    <2>6. CASE Moves(d, NoToken, NoToken)
      BY <1>2, <2>6 DEF NoToken, Cursor!Next, Cursor!Clear
    <2>7. CASE reg[d].pending # NoToken /\ Moves(d, reg[d].pending, NoToken)
      <3>1. /\ head' = head
            /\ cursor' = [cursor EXCEPT ![d] = reg[d].pending]
            /\ staged' = [staged EXCEPT ![d] = NoToken]
        BY <1>2, <2>7
      <3>2. staged[d] = reg[d].pending
        OBVIOUS
      <3>3. Cursor!Commit(d)
        BY <2>7, <3>1, <3>2 DEF NoToken, Cursor!Commit
      <3> QED BY <3>3 DEF Cursor!Next
    <2> QED BY <2>1, <2>4, <2>5, <2>6, <2>7
  <1>5. CASE Grows
    <2>1. UNCHANGED <<cursor, staged>>
      BY <1>5 DEF Grows
    <2> QED BY <1>5, <2>1 DEF Grows, Cursor!Next, Cursor!Grow
  <1>6. CASE Begins
    <2>1. PICK w \in Workers : /\ At(w, "begin")
                               /\ Moves(MyDrive(w), reg[MyDrive(w)].rotate, wk[w].token)
      BY <1>6 DEF Begins
    <2> DEFINE t == wk[w].token
    <2>2. PICK d \in Drives : d = MyDrive(w)
      BY <2>1, WorkerMoves DEF CursorInv, Typed, At, Away
    <2>3. t \in 1 .. head[d] /\ t >= cursor[d] /\ t >= staged[d]
      <3>1. Fresh(wk[w])
        BY <2>1 DEF CursorInv, TokenFresh, HoldsToken, At
      <3>2. reg[d].rotate \in Nat /\ reg[d].pending \in Nat /\ head[d] \in Nat
        BY <2>2 DEF CursorInv, Typed, TypeOK, GDriveTypeOK, RegistryTypeOK, Row
      <3> QED BY <2>2, <3>1, <3>2 DEF Fresh, MyDrive
    <2>4. cursor = [cursor EXCEPT ![d] = reg[d].rotate]
      OBVIOUS
    <2>5. Cursor!Stage(d)
      <3>1. head' = head /\ cursor' = cursor /\ staged' = [staged EXCEPT ![d] = t]
        <4>1. Moves(d, reg[d].rotate, t)
          BY <2>1, <2>2
        <4> QED BY <1>2, <2>4, <4>1
      <3> QED BY <2>3, <3>1 DEF Cursor!Stage
    <2> QED BY <2>2, <2>5 DEF Cursor!Next
  <1> QED BY <1>3, <1>4, <1>5, <1>6, StepKinds DEF CursorInv

\* fd_registry's rotate_token and pending_rotate_token implement the
\* abstract cursor: no interleaving of listings, finalizers, cancels,
\* resets and requests of the control API moves a drive's cursor back or
\* commits a token that was not staged.
THEOREM CursorRefinement == Spec => CursorSpec
  <1>1. Init => Cursor!Init
    <2> SUFFICES ASSUME Init PROVE Cursor!Init
      OBVIOUS
    <2>1. head \in [Drives -> Nat \ {0}]
      BY DEF Init, GDriveInit
    <2>2. \A d \in Drives : reg[d].rotate = 0 /\ reg[d].pending = 0
      BY InitTokens DEF NoToken
    <2>3. /\ [d \in Drives |-> reg[d].rotate] = [d \in Drives |-> 0]
          /\ [d \in Drives |-> reg[d].pending] = [d \in Drives |-> 0]
      BY <2>2
    <2> QED BY <2>1, <2>3 DEF Cursor!Init
  <1> QED BY <1>1, CursorMaps, TokensOrdered, PTL DEF Spec, CursorSpec, Cursor!Spec

=============================================================================
