------------------------------ MODULE LockFile ------------------------------
(***************************************************************************)
(* src/src/lockfile.py as rag_daemon.main uses it: a file with the pid of  *)
(* the daemon that created it.  Each action is one call of the operating   *)
(* system.  On Windows a file that is open for writing cannot be unlinked. *)
(* A process that ends is started again, by the service manager or by hand.*)
(***************************************************************************)
EXTENDS Naturals

CONSTANTS
    Daemons,        \* processes of the daemon, named by their pids
    NoPid,
    MaxCrashes      \* bound on crashes

ASSUME LockFileAssumption == NoPid \notin Daemons /\ MaxCrashes \in Nat

VARIABLES
    file,           \* the lock file
    proc,           \* per process: pc, attempt, the pid read
    reused,         \* pids of ended daemons that other programs have now
    crashes,
    excused         \* two starts overlapped, or a lock outlived its limit

lockFileVars == <<file, proc, reused, crashes, excused>>

-----------------------------------------------------------------------------
Absent  == [there |-> FALSE, pid |-> NoPid, writer |-> NoPid, old |-> FALSE]
Ended   == [pc |-> "off", attempt |-> 0, seen |-> NoPid]

LockInit ==
    /\ file = Absent
    /\ proc = [p \in Daemons |-> Ended]
    /\ reused = {}
    /\ crashes = 0
    /\ excused = FALSE

Holds(p)    == proc[p].pc = "held"
Off(p)      == proc[p].pc = "off"
Starting(p) == ~Holds(p) /\ ~Off(p)
Goto(p, pc) == proc' = [proc EXCEPT ![p].pc = pc]
End(p)      == proc' = [proc EXCEPT ![p] = Ended]

(* _pid_alive: psutil, or OpenProcess *)
Alive(pid) == pid \in reused \/ (pid \in Daemons /\ ~Off(pid))

StartDaemon(p) ==
    /\ Off(p) /\ p \notin reused
    /\ proc' = [proc EXCEPT ![p] = [Ended EXCEPT !.pc = "create", !.attempt = 1]]
    /\ excused' = (excused \/ \E q \in Daemons : Starting(q))
    /\ UNCHANGED <<file, reused, crashes>>

(* open(path, "x"): the file is there, its pid is not yet written. *)
Create(p) ==
    /\ proc[p].pc = "create"
    /\ \/ /\ ~file.there
          /\ file' = [Absent EXCEPT !.there = TRUE, !.writer = p]
          /\ Goto(p, "write")
       \/ /\ file.there
          /\ Goto(p, "read")
          /\ UNCHANGED file
    /\ UNCHANGED <<reused, crashes, excused>>

WritePid(p) ==
    /\ proc[p].pc = "write"
    /\ file' = [file EXCEPT !.pid = p, !.writer = NoPid]
    /\ Goto(p, "held")
    /\ UNCHANGED <<reused, crashes, excused>>

(* A file that is empty or has gone reads as pid 0. *)
ReadPid(p) ==
    /\ proc[p].pc = "read"
    /\ proc' = [proc EXCEPT ![p].pc = "probe", ![p].seen = file.pid]
    /\ UNCHANGED <<file, reused, crashes, excused>>

ProbePid(p) ==
    /\ proc[p].pc = "probe"
    /\ Goto(p, IF Alive(proc[p].seen) THEN "stat" ELSE "unlink")
    /\ UNCHANGED <<file, reused, crashes, excused>>

\* Mutant: a start that is refused unlinks the lock as it leaves.
StatAgeReleases(p) ==
    /\ proc[p].pc = "stat"
    /\ IF file.there /\ file.old
       THEN Goto(p, "unlink") /\ UNCHANGED file
       ELSE End(p) /\ file' = Absent
    /\ UNCHANGED <<reused, crashes, excused>>

\* Mutant: the lock of a live pid is never taken.
StatAgeNever(p) ==
    /\ proc[p].pc = "stat"
    /\ End(p)
    /\ UNCHANGED <<file, reused, crashes, excused>>

(* The pid is alive: only a lock older than stale_after_sec may be taken.  *)
(* A file that has gone makes stat raise.                                  *)
StatAge(p) ==
    /\ proc[p].pc = "stat"
    /\ IF file.there /\ file.old THEN Goto(p, "unlink") ELSE End(p)
    /\ UNCHANGED <<file, reused, crashes, excused>>

(* Two attempts; an unlink that the operating system refuses raises. *)
Unlink(p) ==
    /\ proc[p].pc = "unlink"
    /\ IF file.writer # NoPid
       THEN End(p) /\ UNCHANGED file
       ELSE /\ file' = Absent
            /\ IF proc[p].attempt = 1
               THEN proc' = [proc EXCEPT ![p] = [Ended EXCEPT !.pc = "create", !.attempt = 2]]
               ELSE End(p)
    /\ UNCHANGED <<reused, crashes, excused>>

(* The daemon stops: whatever file has the name is unlinked. *)
Release(p) ==
    /\ Holds(p)
    /\ file' = IF file.writer # NoPid THEN file ELSE Absent
    /\ End(p)
    /\ UNCHANGED <<reused, crashes, excused>>

(* A file being written stays, empty. *)
CrashDaemon(p) ==
    /\ ~Off(p)
    /\ crashes < MaxCrashes /\ crashes' = crashes + 1
    /\ End(p)
    /\ file' = IF file.writer = p THEN [file EXCEPT !.writer = NoPid] ELSE file
    /\ UNCHANGED <<reused, excused>>

(* One pid at a time, a bound. *)
ReusePid(p) ==
    /\ Off(p) /\ reused = {}
    /\ reused' = {p}
    /\ UNCHANGED <<file, proc, crashes, excused>>

FreePid(p) ==
    /\ p \in reused
    /\ reused' = reused \ {p}
    /\ UNCHANGED <<file, proc, crashes, excused>>

(* Half an hour passes; nothing writes to the file in the meantime. *)
GrowOld ==
    /\ file.there /\ file.writer = NoPid /\ ~file.old
    /\ file' = [file EXCEPT !.old = TRUE]
    /\ excused' = (excused \/ \E p \in Daemons : Holds(p))
    /\ UNCHANGED <<proc, reused, crashes>>

LockStep(p) ==
    Create(p) \/ WritePid(p) \/ ReadPid(p) \/ ProbePid(p) \/ StatAge(p) \/ Unlink(p)

LockNext ==
    \/ \E p \in Daemons :
        StartDaemon(p) \/ LockStep(p) \/ Release(p) \/ CrashDaemon(p) \/ ReusePid(p) \/ FreePid(p)
    \/ GrowOld

LockSpec == LockInit /\ [][LockNext]_lockFileVars

-----------------------------------------------------------------------------
(* Properties *)

(* Starts that do not overlap never make two daemons run before a lock is  *)
(* half an hour old, whatever crashes, stops and reuses of pids there are  *)
(* in between, and the file names the daemon that runs                     *)
(* (src/src/lockfile.py:48-82).  Overlapping starts, or a daemon that has  *)
(* run for half an hour, can.                                              *)
SerialStartsExclude ==
    excused \/ \A p \in Daemons : Holds(p) => file.pid = p

(* A lock that a crash left, even one whose pid another program has now,   *)
(* does not keep the daemon from starting for ever                         *)
(* (src/src/lockfile.py:65-74).                                            *)
NeverLockedOut == []<>(\E p \in Daemons : Holds(p))

=============================================================================
