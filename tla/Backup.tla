------------------------------- MODULE Backup -------------------------------
(***************************************************************************)
(* src/src/db_backup.py: a run of pg_dump into backups/daily, a copy into  *)
(* backups/weekly on Sundays, and the pruning of both.  One run at a time. *)
(* A dump is named after the minute its run began in.  Runs come one after *)
(* the other and a copy keeps the time of its original, so the files of a  *)
(* directory have their modification times in the order of their names.    *)
(***************************************************************************)
EXTENDS Naturals, FiniteSets

CONSTANTS
    KeepDaily, KeepWeekly,
    MaxMinutes      \* bound on the minutes in which runs begin

ASSUME BackupAssumption == KeepDaily \in Nat \ {0} /\ KeepWeekly \in Nat \ {0} /\ MaxMinutes \in Nat

VARIABLES
    minute, sunday, \* the clock
    daily, weekly,  \* the files of a directory
    run,            \* the run: pc, and the values of its start
    newest          \* the dumps completed last, in all and of a Sunday

backupVars == <<minute, sunday, daily, weekly, run, newest>>

-----------------------------------------------------------------------------
NoRun == [pc |-> "none", name |-> 0, sunday |-> FALSE]
File(name, good) == [name |-> name, good |-> good]

BackupInit ==
    /\ minute = 1 /\ sunday \in BOOLEAN
    /\ daily = {} /\ weekly = {}
    /\ run = NoRun
    /\ newest = [daily |-> 0, weekly |-> 0]

(* The file is written, over one of its name. *)
Written(dir, f) == {g \in dir : g.name # f.name} \cup {f}

(* Between two runs: another minute, perhaps of another day. *)
ClockMoves ==
    /\ run = NoRun
    /\ minute < MaxMinutes /\ minute' = minute + 1
    /\ sunday' \in BOOLEAN
    /\ UNCHANGED <<daily, weekly, run, newest>>

BeginRun ==
    /\ run = NoRun
    /\ run' = [pc |-> "dump", name |-> minute, sunday |-> sunday]
    /\ UNCHANGED <<minute, sunday, daily, weekly, newest>>

DumpOk ==
    /\ run.pc = "dump"
    /\ daily'  = Written(daily, File(run.name, TRUE))
    /\ newest' = [newest EXCEPT !.daily = run.name]
    /\ run' = [run EXCEPT !.pc = IF run.sunday THEN "copy" ELSE "daily"]
    /\ UNCHANGED <<minute, sunday, weekly>>

\* Mutant: the retention is applied after a dump that failed, too.
DumpFailsPrunes ==
    /\ run.pc = "dump"
    /\ daily'  = Written(daily, File(run.name, FALSE))
    /\ newest' = [newest EXCEPT !.daily = IF @ = run.name THEN 0 ELSE @]
    /\ run' = [run EXCEPT !.pc = "daily"]
    /\ UNCHANGED <<minute, sunday, weekly>>

(* pg_dump fails before or after it has opened the file, or dies with the  *)
(* machine: nothing is removed, nothing is pruned.                         *)
DumpFails ==
    /\ run.pc = "dump"
    /\ \/ /\ daily'  = Written(daily, File(run.name, FALSE))
          /\ newest' = [newest EXCEPT !.daily = IF @ = run.name THEN 0 ELSE @]
       \/ UNCHANGED <<daily, newest>>
    /\ run' = NoRun
    /\ UNCHANGED <<minute, sunday, weekly>>

CopyWeekly ==
    /\ run.pc = "copy"
    /\ weekly' = Written(weekly, File(run.name, TRUE))
    /\ newest' = [newest EXCEPT !.weekly = run.name]
    /\ run' = [run EXCEPT !.pc = "daily"]
    /\ UNCHANGED <<minute, sunday, daily>>

(* The exception of a copy ends the run. *)
CopyFails ==
    /\ run.pc = "copy"
    /\ \/ /\ weekly' = Written(weekly, File(run.name, FALSE))
          /\ newest' = [newest EXCEPT !.weekly = IF @ = run.name THEN 0 ELSE @]
       \/ UNCHANGED <<weekly, newest>>
    /\ run' = NoRun
    /\ UNCHANGED <<minute, sunday, daily>>

(* All but the newest, whatever they hold; a file in use stays. *)
Newer(dir, name)    == {f \in dir : f.name > name}
Prunable(dir, keep) == {f \in dir : Cardinality(Newer(dir, f.name)) >= keep}
PrunedTo(old, new, keep) ==
    \E inUse \in SUBSET Prunable(old, keep) : new = (old \ Prunable(old, keep)) \cup inUse

PruneDaily ==
    /\ run.pc = "daily"
    /\ PrunedTo(daily, daily', KeepDaily)
    /\ run' = [run EXCEPT !.pc = "weekly"]
    /\ UNCHANGED <<minute, sunday, weekly, newest>>

PruneWeekly ==
    /\ run.pc = "weekly"
    /\ PrunedTo(weekly, weekly', KeepWeekly)
    /\ run' = NoRun
    /\ UNCHANGED <<minute, sunday, daily, newest>>

BackupNext ==
    \/ ClockMoves \/ BeginRun
    \/ DumpOk \/ DumpFails \/ CopyWeekly \/ CopyFails
    \/ PruneDaily \/ PruneWeekly

BackupSpec == BackupInit /\ [][BackupNext]_backupVars

-----------------------------------------------------------------------------
(* Properties *)

(* Runs that fail, however many and with whatever files they leave, never  *)
(* cost the newest complete dump, unless one of the same minute writes     *)
(* over it.  The newest complete one of a Sunday is lost only to a full    *)
(* set of newer copies that failed, since the runs of other days prune     *)
(* backups/weekly too (src/src/db_backup.py:72-103).                       *)
NewestKept ==
    /\ newest.daily # 0 => File(newest.daily, TRUE) \in daily
    /\ newest.weekly # 0 =>
        \/ File(newest.weekly, TRUE) \in weekly
        \/ /\ Cardinality(weekly) >= KeepWeekly
           /\ \A f \in weekly \ Prunable(weekly, KeepWeekly) : ~f.good

=============================================================================
