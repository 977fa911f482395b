------------------------------- MODULE GDrive -------------------------------
(***************************************************************************)
(* The shared drives the daemon mirrors, as far as src/src/drive_client.py *)
(* can see them: a change log per drive and the files that are not in the  *)
(* trash.  A position of the change log is what the Drive API calls a page *)
(* token, and the position of a file's last change stands for its content. *)
(* The service itself is external; the queries are drive_client's.         *)
(***************************************************************************)
EXTENDS Naturals, Domain

CONSTANT MaxHead     \* bound: no drive's change log grows beyond this position

ASSUME MaxHeadAssumption == MaxHead \in Nat

VARIABLES
    head,       \* head[d]: position of the last entry of d's change log
    changed,    \* changed[d][f]: position of f's last change, 0 if it never existed
    alive       \* alive[d]: the files of d that exist and are not trashed

gdriveVars == <<head, changed, alive>>

GDriveTypeOK ==
    /\ head \in [Drives -> Nat \ {0}]
    /\ changed \in [Drives -> [Files -> Nat]]
    /\ alive \in [Drives -> SUBSET Files]

GDriveInit ==
    /\ head = [d \in Drives |-> 1]
    /\ alive \in [Drives -> SUBSET Files]
    /\ changed = [d \in Drives |-> [f \in Files |-> IF f \in alive[d] THEN 1 ELSE 0]]

LogChange(d, f) ==
    /\ head[d] < MaxHead
    /\ head' = [head EXCEPT ![d] = @ + 1]
    /\ changed' = [changed EXCEPT ![d][f] = head[d] + 1]

\* A user creates, restores or edits a file.
WriteFile(d, f) == LogChange(d, f) /\ alive' = [alive EXCEPT ![d] = @ \cup {f}]

\* A user removes a file or moves it to the trash.
TrashFile(d, f) ==
    /\ f \in alive[d]
    /\ LogChange(d, f)
    /\ alive' = [alive EXCEPT ![d] = @ \ {f}]

-----------------------------------------------------------------------------
StartPageToken(d) == head[d]

ListedFiles(d) == alive[d]

ChangedSince(d, token) == {f \in Files : changed[d][f] > token}

\* What an up-to-date index holds of f: its last version, or nothing.
Truth(d, f) == IF f \in alive[d] THEN changed[d][f] ELSE 0

=============================================================================
