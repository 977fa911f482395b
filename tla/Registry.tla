------------------------------ MODULE Registry ------------------------------
(***************************************************************************)
(* The tables of src/src/db.py that the build lifecycle reads and writes:  *)
(* public.fd_registry (one row per known drive) and the schema fd_<drive>  *)
(* with the indexed documents.  Every operator is one committed            *)
(* transaction.  An UPDATE of a row that does not exist changes nothing.   *)
(***************************************************************************)
EXTENDS Naturals, Domain

VARIABLES
    reg,        \* reg[d]: the row of fd_registry
    schema,     \* schema[d]: does the schema of d exist?
    docs        \* docs[d][f]: the version of f whose chunks are stored, 0 if none

dbVars == <<reg, schema, docs>>

NoToken == 0    \* a NULL rotate_token or pending_rotate_token

States == {"idle", "building", "error", "disabled"}

Row == [exists : BOOLEAN, enabled : BOOLEAN, state : States, rotate : Nat,
        pending : Nat, cancel : BOOLEAN, failed : SUBSET Files]

\* The column defaults of a row inserted by upsert_fd.
NewRow == [exists |-> TRUE, enabled |-> FALSE, state |-> "idle", rotate |-> NoToken,
           pending |-> NoToken, cancel |-> FALSE, failed |-> {}]

NoRow == [NewRow EXCEPT !.exists = FALSE]

RegistryTypeOK ==
    /\ reg \in [Drives -> Row]
    /\ schema \in [Drives -> BOOLEAN]
    /\ docs \in [Drives -> [Files -> Nat]]

-----------------------------------------------------------------------------
UpdateRow(d, row) == reg' = IF reg[d].exists THEN [reg EXCEPT ![d] = row] ELSE reg

UpsertFd(d) == reg' = IF reg[d].exists THEN reg ELSE [reg EXCEPT ![d] = NewRow]

DeleteRow(d) == reg' = [reg EXCEPT ![d] = NoRow]

Enabled(row, on) ==
    [row EXCEPT !.enabled = on,
                !.state = IF ~on THEN "disabled" ELSE IF @ = "disabled" THEN "idle" ELSE @]

SetEnabled(d, on) == UpdateRow(d, Enabled(reg[d], on))

SetError(d) == UpdateRow(d, [reg[d] EXCEPT !.state = "error"])

BeginBuild(d, token) ==
    UpdateRow(d, [reg[d] EXCEPT !.state = "building", !.pending = token, !.cancel = FALSE])

\* Mutant: the staged token is left behind.
CommitBuildKeepsPending(d) ==
    IF schema[d]
    THEN UpdateRow(d, [reg[d] EXCEPT !.rotate = IF reg[d].pending # NoToken
                                                THEN reg[d].pending ELSE @,
                                     !.cancel = FALSE, !.state = "idle"])
    ELSE UNCHANGED reg

\* The counts are selected from the drive's schema first: without it the
\* transaction fails and nothing is committed.
CommitBuild(d) ==
    IF schema[d]
    THEN UpdateRow(d, [reg[d] EXCEPT !.rotate = IF reg[d].pending # NoToken
                                                THEN reg[d].pending ELSE @,
                                     !.pending = NoToken, !.cancel = FALSE,
                                     !.state = "idle"])
    ELSE UNCHANGED reg

AbortBuild(d) ==
    UpdateRow(d, [reg[d] EXCEPT !.pending = NoToken, !.cancel = FALSE, !.state = "idle"])

RequestCancel(d) == UpdateRow(d, [reg[d] EXCEPT !.cancel = TRUE])

ClearRotate(d) == UpdateRow(d, [reg[d] EXCEPT !.rotate = NoToken])

AddFailedFile(d, f) == UpdateRow(d, [reg[d] EXCEPT !.failed = @ \cup {f}])

-----------------------------------------------------------------------------
EnsureSchema(d) == schema' = [schema EXCEPT ![d] = TRUE]

DropSchema(d) ==
    /\ schema' = [schema EXCEPT ![d] = FALSE]
    /\ docs' = [docs EXCEPT ![d] = [f \in Files |-> 0]]

UpsertChunks(d, f, version) == docs' = [docs EXCEPT ![d][f] = version]

DeleteByFileId(d, f) == docs' = [docs EXCEPT ![d][f] = 0]

=============================================================================
