----------------------------- MODULE ChunkStore -----------------------------
(***************************************************************************)
(* The stored chunks of one file, as transactions of several workers       *)
(* replace them under PostgreSQL's READ COMMITTED isolation.  A statement  *)
(* sees what was committed before it; it waits for a row that another      *)
(* transaction has changed, follows the row if that transaction updated it *)
(* and skips it if it deleted it.  RagDaemon takes each of these           *)
(* transactions as one step.                                               *)
(***************************************************************************)
EXTENDS Naturals

CONSTANTS
    Sessions,       \* database sessions of workers
    MaxChunks,      \* bound on the chunks of one version of the file
    MaxUpserts      \* bound on the transactions begun

ASSUME ChunkStoreAssumption == MaxChunks \in Nat \ {0} /\ MaxUpserts \in Nat

VARIABLES
    stored,         \* per chunk index: the committed row
    tx,             \* per session: its transaction
    begun,          \* transactions begun: the number of a transaction names its version
    last,           \* the transaction committed last
    overlaps        \* per transaction: those that were open while it was

chunkVars == <<stored, tx, begun, last, overlaps>>

-----------------------------------------------------------------------------
Indexes == 0 .. MaxChunks - 1
Txs     == 1 .. MaxUpserts

(* A row: the transaction that wrote it and the one that inserted it; an   *)
(* update keeps the latter.                                                *)
NoRow   == [by |-> 0, born |-> 0]

(* size: the chunks to store.  want: rows of the snapshot still to delete. *)
(* gone, own: the rows this transaction has deleted and written.           *)
NoTx == [pc |-> "none", id |-> 0, size |-> 0, want |-> {}, snap |-> [i \in Indexes |-> NoRow],
         gone |-> {}, own |-> [i \in Indexes |-> NoRow], next |-> 0]

ChunkInit ==
    /\ stored = [i \in Indexes |-> NoRow]
    /\ tx = [s \in Sessions |-> NoTx]
    /\ begun = 0
    /\ last = [id |-> 0, size |-> 0]
    /\ overlaps = [n \in Txs |-> {}]

Present(i)   == stored[i] # NoRow
Mine(s, i)   == i \in tx[s].gone \/ tx[s].own[i] # NoRow
Blocked(s, i) == \E t \in Sessions \ {s} : Mine(t, i)
InTx(s)      == tx[s].pc # "none"

(* The DELETE of an upsert or of a deletion (size 0) takes its snapshot. *)
BeginUpsert(s, size) ==
    /\ ~InTx(s)
    /\ begun < MaxUpserts /\ begun' = begun + 1
    /\ tx' = [tx EXCEPT ![s] = [NoTx EXCEPT !.pc = "delete", !.id = begun', !.size = size,
                                 !.want = {i \in Indexes : Present(i)}, !.snap = stored]]
    /\ LET open == {tx[t].id : t \in {t \in Sessions : InTx(t)}} IN
        overlaps' = [n \in Txs |-> IF n = begun' THEN open
                                   ELSE IF n \in open THEN overlaps[n] \cup {begun'}
                                   ELSE overlaps[n]]
    /\ UNCHANGED <<stored, last>>

(* One row of the snapshot: deleted, also in an updated form, or skipped   *)
(* when it is another row or none by now.                                  *)
DeleteRow(s, i) ==
    /\ tx[s].pc = "delete" /\ i \in tx[s].want
    /\ ~Blocked(s, i)
    /\ tx' = [tx EXCEPT ![s].want = @ \ {i},
                        ![s].gone = IF stored[i].born = tx[s].snap[i].born THEN @ \cup {i} ELSE @]
    /\ UNCHANGED <<stored, begun, last, overlaps>>

DeleteEnd(s) ==
    /\ tx[s].pc = "delete" /\ tx[s].want = {}
    /\ tx' = [tx EXCEPT ![s].pc = IF tx[s].size = 0 THEN "commit" ELSE "insert"]
    /\ UNCHANGED <<stored, begun, last, overlaps>>

\* Mutant: ON CONFLICT DO NOTHING.
InsertChunkKeeps(s) ==
    /\ tx[s].pc = "insert"
    /\ LET i == tx[s].next IN
        /\ ~Blocked(s, i)
        /\ tx' = [tx EXCEPT ![s].own[i] = IF Present(i) /\ i \notin tx[s].gone THEN NoRow
                                          ELSE [by |-> tx[s].id, born |-> tx[s].id],
                            ![s].next = i + 1,
                            ![s].pc = IF i + 1 = tx[s].size THEN "commit" ELSE "insert"]
    /\ UNCHANGED <<stored, begun, last, overlaps>>

(* ON CONFLICT DO UPDATE: a committed row that is not deleted by this      *)
(* transaction is updated, whether or not its statements could see it.     *)
InsertChunk(s) ==
    /\ tx[s].pc = "insert"
    /\ LET i   == tx[s].next
           row == IF Present(i) /\ i \notin tx[s].gone THEN stored[i].born ELSE tx[s].id
       IN
        /\ ~Blocked(s, i)
        /\ tx' = [tx EXCEPT ![s].own[i] = [by |-> tx[s].id, born |-> row],
                            ![s].next = i + 1,
                            ![s].pc = IF i + 1 = tx[s].size THEN "commit" ELSE "insert"]
    /\ UNCHANGED <<stored, begun, last, overlaps>>

CommitUpsert(s) ==
    /\ tx[s].pc = "commit"
    /\ stored' = [i \in Indexes |-> IF tx[s].own[i] # NoRow THEN tx[s].own[i]
                                  ELSE IF i \in tx[s].gone THEN NoRow ELSE stored[i]]
    /\ last' = [id |-> tx[s].id, size |-> tx[s].size]
    /\ tx' = [tx EXCEPT ![s] = NoTx]
    /\ UNCHANGED <<begun, overlaps>>

(* A statement fails, a deadlock is broken, or the session dies. *)
RollbackUpsert(s) ==
    /\ InTx(s)
    /\ tx' = [tx EXCEPT ![s] = NoTx]
    /\ UNCHANGED <<stored, begun, last, overlaps>>

ChunkNext ==
    \E s \in Sessions :
        \/ \E size \in 0 .. MaxChunks : BeginUpsert(s, size)
        \/ \E i \in Indexes : DeleteRow(s, i)
        \/ DeleteEnd(s) \/ InsertChunk(s) \/ CommitUpsert(s) \/ RollbackUpsert(s)

ChunkSpec == ChunkInit /\ [][ChunkNext]_chunkVars

-----------------------------------------------------------------------------
(* Properties *)

(* However upserts and deletions of one file cross, the version that was   *)
(* committed last is stored whole, and what else is stored belongs to a    *)
(* transaction that overlapped with it: workers that come one after the    *)
(* other replace a file completely (src/src/db.py:1105-1195).              *)
LastWhole ==
    /\ \A i \in Indexes : i < last.size => stored[i].by = last.id
    /\ \A i \in Indexes : Present(i) /\ stored[i].by # last.id => stored[i].by \in overlaps[last.id]

=============================================================================
