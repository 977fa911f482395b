------------------------------- MODULE Domain -------------------------------
(***************************************************************************)
(* The identifiers every other module of the daemon is built over.         *)
(***************************************************************************)
CONSTANTS
    Drives,     \* shared drives, named by their drive id
    Files,      \* the files a drive may hold, named by their file id
    NoDrive,    \* a NULL drive_id
    NoFile      \* the file of a task that concerns no single file

ASSUME DomainAssumption == NoDrive \notin Drives /\ NoFile \notin Files

=============================================================================
