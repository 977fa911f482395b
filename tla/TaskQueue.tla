----------------------------- MODULE TaskQueue -----------------------------
(***************************************************************************)
(* The one in-memory queue of src/src/rag_daemon.py, shared by the manager *)
(* and the workers, and the per-drive counter of queued file tasks that    *)
(* completion detection reads instead of the queue.                        *)
(***************************************************************************)
EXTENDS Naturals, Sequences, FiniteSets, Domain

VARIABLES
    queue,      \* the tasks waiting, first in first out
    cnt,        \* _queue_counts: per drive, the file tasks waiting
    keep        \* tasks the manager's drain took out and will put back

queueVars == <<queue, cnt, keep>>

ListKinds == {"list_full", "list_delta"}
FileKinds == {"file", "file_delete"}
Kinds == ListKinds \cup FileKinds \cup {"finalize"}

Task == [kind : FileKinds, drive : Drives, file : Files]
        \cup [kind : Kinds \ FileKinds, drive : Drives, file : {NoFile}]

TaskFor(kind, d) == [kind |-> kind, drive |-> d, file |-> NoFile]
FileTask(kind, d, f) == [kind |-> kind, drive |-> d, file |-> f]

QueueTypeOK ==
    /\ queue \in Seq(Task)
    /\ cnt \in [Drives -> Nat]
    /\ keep \in Seq(Task)

Counted(t) == t.kind \in FileKinds

Enqueue(t) ==
    /\ queue' = Append(queue, t)
    /\ cnt' = IF Counted(t) THEN [cnt EXCEPT ![t.drive] = @ + 1] ELSE cnt

\* Mutant: every task taken out is counted, and not only down to 0.
MarkConsumedAll(t) == cnt' = [cnt EXCEPT ![t.drive] = @ - 1]

\* max(0, n - 1) for a file task, nothing for the bookkeeping ones.
MarkConsumed(t) ==
    cnt' = IF Counted(t) /\ cnt[t.drive] > 0 THEN [cnt EXCEPT ![t.drive] = @ - 1] ELSE cnt

Pending(d) == cnt[d]

\* Mutant: the counter is not told of the tasks dropped.
DrainOneUncounted(d) ==
    LET t == Head(queue)
    IN  /\ queue' = Tail(queue)
        /\ keep' = IF Counted(t) /\ t.drive = d THEN keep ELSE Append(keep, t)
        /\ UNCHANGED cnt

\* One round of the drain loop: drop a file task of d, set any other aside.
DrainOne(d) ==
    LET t == Head(queue)
    IN  /\ queue' = Tail(queue)
        /\ IF Counted(t) /\ t.drive = d
           THEN MarkConsumed(t) /\ UNCHANGED keep
           ELSE keep' = Append(keep, t) /\ UNCHANGED cnt

PutBack ==
    /\ queue' = queue \o keep
    /\ keep' = <<>>
    /\ UNCHANGED cnt

\* How many waiting tasks satisfy P (for bounds and properties).
HowMany(s, P(_)) == Cardinality({i \in DOMAIN s : P(s[i])})

Waiting(P(_)) == HowMany(queue, P) + HowMany(keep, P)

=============================================================================
