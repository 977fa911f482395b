----------------------------- MODULE HostProofs -----------------------------
(***************************************************************************)
(* Theorems about the parts that keep their state in the files of a host:  *)
(* LockFile and Backup.                                                    *)
(***************************************************************************)
EXTENDS LockFile, Backup, FiniteSetTheorems, WellFoundedInduction, TLAPS

Steps == {"off", "create", "write", "read", "probe", "stat", "unlink", "held"}
Pids  == Daemons \cup {NoPid}

LockTypes ==
    /\ file \in [there : BOOLEAN, pid : Pids, writer : Pids, old : BOOLEAN]
    /\ proc \in [Daemons -> [pc : Steps, attempt : Nat, seen : Pids]]

(* Up to the first excuse: one start at a time; the file is the holder's    *)
(* or the writer's and young; a start that meets a holder reads the         *)
(* holder's pid and gets no further than the age.                           *)
OneStart  == \A p, q \in Daemons : Starting(p) /\ Starting(q) => p = q
HolderOwns ==
    \A p \in Daemons : Holds(p) => file.there /\ file.pid = p /\ file.writer = NoPid /\ ~file.old
WriterOwns ==
    \A p \in Daemons : proc[p].pc = "write" => file.there /\ file.writer = p /\ ~file.old
Deterred ==
    \A p, q \in Daemons : Holds(q) =>
        /\ proc[p].pc = "probe" => proc[p].seen = q
        /\ proc[p].pc # "unlink"

Serial  == OneStart /\ HolderOwns /\ WriterOwns /\ Deterred
LockInv == LockTypes /\ (~excused => Serial)

-----------------------------------------------------------------------------
LEMMA LockTypesStep == LockTypes /\ [LockNext]_lockFileVars => LockTypes'
<1> SUFFICES ASSUME LockTypes, [LockNext]_lockFileVars PROVE LockTypes'
  OBVIOUS
<1> DEFINE Procs == [pc : Steps, attempt : Nat, seen : Pids]
           FileOK(f) == f \in [there : BOOLEAN, pid : Pids, writer : Pids, old : BOOLEAN]
<1>1. Ended \in Procs /\ FileOK(Absent) /\ FileOK(file)
  BY DEF LockTypes, Ended, Absent, Steps, Pids
<1>2. ASSUME NEW p \in Daemons, NEW r \in Procs, proc' = [proc EXCEPT ![p] = r], FileOK(file')
      PROVE  LockTypes'
  BY <1>2 DEF LockTypes
<1>3. ASSUME NEW p \in Daemons, NEW pc \in Steps, Goto(p, pc), FileOK(file')
      PROVE  LockTypes'
  BY <1>3 DEF LockTypes, Goto
<1>4. ASSUME NEW p \in Daemons, End(p), FileOK(file') PROVE LockTypes'
  BY <1>1, <1>2, <1>4 DEF End
<1>5. ASSUME NEW p \in Daemons, Create(p) PROVE LockTypes'
  <2>1. FileOK(file')
    BY <1>1, <1>5 DEF Create, Absent, Pids
  <2> QED BY <1>3, <1>5, <2>1 DEF Create, Steps
<1>6. ASSUME NEW p \in Daemons, WritePid(p) PROVE LockTypes'
  <2>1. FileOK(file')
    BY <1>1, <1>6 DEF WritePid, Pids
  <2> QED BY <1>3, <1>6, <2>1 DEF WritePid, Steps
<1>7. ASSUME NEW p \in Daemons, ReadPid(p) PROVE LockTypes'
  BY <1>7, ZenonT(60) DEF ReadPid, LockTypes, Steps
<1>8. ASSUME NEW p \in Daemons, ProbePid(p) PROVE LockTypes'
  <2>1. Goto(p, "stat") \/ Goto(p, "unlink")
    BY <1>8 DEF ProbePid
  <2> QED BY <1>1, <1>3, <1>8, <2>1 DEF ProbePid, Steps
<1>9. ASSUME NEW p \in Daemons, StatAge(p) PROVE LockTypes'
  BY <1>1, <1>3, <1>4, <1>9 DEF StatAge, Steps
<1>10. ASSUME NEW p \in Daemons, Unlink(p) PROVE LockTypes'
  <2>1. FileOK(file')
    BY <1>1, <1>10 DEF Unlink
  <2>2. \/ End(p)
        \/ proc' = [proc EXCEPT ![p] = [Ended EXCEPT !.pc = "create", !.attempt = 2]]
    BY <1>10 DEF Unlink
  <2>3. [Ended EXCEPT !.pc = "create", !.attempt = 2] \in Procs
    BY DEF Ended, Steps, Pids
  <2> QED BY <1>2, <1>4, <2>1, <2>2, <2>3
<1>11. ASSUME NEW p \in Daemons, StartDaemon(p) PROVE LockTypes'
  <2>1. [Ended EXCEPT !.pc = "create", !.attempt = 1] \in Procs
    BY DEF Ended, Steps, Pids
  <2> QED BY <1>1, <1>2, <1>11, <2>1 DEF StartDaemon
<1>12. ASSUME NEW p \in Daemons, Release(p) PROVE LockTypes'
  BY <1>1, <1>4, <1>12 DEF Release
<1>13. ASSUME NEW p \in Daemons, CrashDaemon(p) PROVE LockTypes'
  <2>1. FileOK(file')
    BY <1>1, <1>13 DEF CrashDaemon, Pids
  <2> QED BY <1>4, <1>13, <2>1 DEF CrashDaemon
<1>14. ASSUME NEW p \in Daemons, ReusePid(p) \/ FreePid(p) PROVE LockTypes'
  BY <1>14 DEF ReusePid, FreePid, LockTypes
<1>15. CASE GrowOld
  BY <1>15 DEF GrowOld, LockTypes
<1>16. CASE UNCHANGED lockFileVars
  BY <1>16 DEF lockFileVars, LockTypes
<1> QED
  BY <1>5, <1>6, <1>7, <1>8, <1>9, <1>10, <1>11, <1>12, <1>13, <1>14, <1>15, <1>16
     DEF LockNext, LockStep

(* The steps of one process leave the others alone. *)
LEMMA SerialStep ==
  LockTypes /\ Serial /\ [LockNext]_lockFileVars /\ ~excused' => Serial'
<1> SUFFICES ASSUME LockTypes, Serial, [LockNext]_lockFileVars, ~excused' PROVE Serial'
  OBVIOUS
<1> USE LockFileAssumption
    DEF LockTypes, Steps, Pids, Serial, OneStart, HolderOwns, WriterOwns, Deterred, Starting, Holds, Off
<1>1. ASSUME NEW p \in Daemons, Create(p) PROVE Serial'
  <2>1. CASE file.there
    BY <1>1, <2>1 DEF Create, Goto
  <2>2. CASE ~file.there
    <3>1. \A q \in Daemons : ~Holds(q)
      BY <2>2
    <3>2. /\ file'.there /\ file'.writer = p /\ ~file'.old
          /\ proc' = [proc EXCEPT ![p].pc = "write"] /\ proc[p].pc = "create"
      BY <1>1, <2>2 DEF Create, Goto, Absent
    <3> QED BY <3>1, <3>2
  <2> QED BY <2>1, <2>2
<1>2. ASSUME NEW p \in Daemons, WritePid(p) PROVE Serial'
  BY <1>2 DEF WritePid, Goto
<1>3. ASSUME NEW p \in Daemons, ReadPid(p) PROVE Serial'
  BY <1>3 DEF ReadPid
<1>4. ASSUME NEW p \in Daemons, ProbePid(p) PROVE Serial'
  BY <1>4 DEF ProbePid, Goto, Alive
<1>5. ASSUME NEW p \in Daemons, StatAge(p) PROVE Serial'
  BY <1>5 DEF StatAge, Goto, End, Ended
<1>6. ASSUME NEW p \in Daemons, Unlink(p) PROVE Serial'
  <2>1. \A q \in Daemons : ~Holds(q) /\ (Starting(q) => q = p)
    BY <1>6 DEF Unlink
  <2>2. \/ proc' = [proc EXCEPT ![p] = Ended]
        \/ proc' = [proc EXCEPT ![p] = [Ended EXCEPT !.pc = "create", !.attempt = 2]]
    BY <1>6 DEF Unlink, End
  <2>3. proc'[p].pc \in {"create", "off"} /\ \A q \in Daemons \ {p} : proc'[q] = proc[q]
    <3>1. Ended.pc = "off" /\ [Ended EXCEPT !.pc = "create", !.attempt = 2].pc = "create"
      BY DEF Ended
    <3> QED BY <2>2, <3>1
  <2> QED BY <2>1, <2>3
<1>7. ASSUME NEW p \in Daemons, StartDaemon(p) PROVE Serial'
  BY <1>7 DEF StartDaemon, Ended
<1>8. ASSUME NEW p \in Daemons, Release(p) PROVE Serial'
  BY <1>8 DEF Release, End, Ended, Absent
<1>9. ASSUME NEW p \in Daemons, CrashDaemon(p) PROVE Serial'
  BY <1>9 DEF CrashDaemon, End, Ended
<1>10. ASSUME NEW p \in Daemons, ReusePid(p) \/ FreePid(p) PROVE Serial'
  BY <1>10 DEF ReusePid, FreePid
<1>11. CASE GrowOld
  BY <1>11 DEF GrowOld
<1>12. CASE UNCHANGED lockFileVars
  BY <1>12 DEF lockFileVars
<1> QED
  BY <1>1, <1>2, <1>3, <1>4, <1>5, <1>6, <1>7, <1>8, <1>9, <1>10, <1>11, <1>12
     DEF LockNext, LockStep

(* An excuse is for ever. *)
LEMMA ExcusesStay == [LockNext]_lockFileVars /\ ~excused' => ~excused
  BY DEF LockNext, LockStep, Create, WritePid, ReadPid, ProbePid, StatAge, Unlink, StartDaemon,
     Release, CrashDaemon, ReusePid, FreePid, GrowOld, lockFileVars

(* Daemons whose starts do not overlap exclude one another until a lock is *)
(* half an hour old.                                                       *)
THEOREM SerialStarts == LockSpec => []SerialStartsExclude
<1>1. LockInit => LockInv
  BY DEF LockInit, LockInv, LockTypes, Steps, Pids, Serial, OneStart, HolderOwns, WriterOwns,
     Deterred, Starting, Holds, Off, Absent, Ended
<1>2. LockInv /\ [LockNext]_lockFileVars => LockInv'
  BY LockTypesStep, SerialStep, ExcusesStay DEF LockInv
<1>3. LockInv => SerialStartsExclude
  BY DEF LockInv, Serial, HolderOwns, SerialStartsExclude
<1> QED
  BY <1>1, <1>2, <1>3, PTL DEF LockSpec

-----------------------------------------------------------------------------
(* Backup *)

Dumps == [name : Nat, good : BOOLEAN]

BackupTypes ==
    /\ minute \in Nat \ {0}
    /\ daily \in SUBSET Dumps /\ IsFiniteSet(daily)
    /\ weekly \in SUBSET Dumps /\ IsFiniteSet(weekly)
    /\ run \in [pc : {"none", "dump", "copy", "daily", "weekly"}, name : Nat, sunday : BOOLEAN]
    /\ newest \in [daily : Nat, weekly : Nat]
    /\ sunday \in BOOLEAN

(* Nothing is named after a minute that is yet to come; the dump of a run  *)
(* is the newest there is.                                                 *)
Current ==
    /\ \A f \in daily \cup weekly : f.name <= minute
    /\ newest.daily <= minute /\ newest.weekly <= minute
    /\ run.pc # "none" => run.name = minute
    /\ run.pc \in {"copy", "daily"} => newest.daily = minute
    /\ \A f, g \in weekly : f.name = g.name => f = g

(* A weekly dump that is gone has as many newer files as a pruning keeps,  *)
(* and those are of copies that failed.                                    *)
DailyKept == newest.daily # 0 => File(newest.daily, TRUE) \in daily
WeeklyKept ==
    newest.weekly # 0 =>
        /\ \A f \in Newer(weekly, newest.weekly) : ~f.good
        /\ \/ File(newest.weekly, TRUE) \in weekly
           \/ Cardinality(Newer(weekly, newest.weekly)) >= KeepWeekly

BackupInv == BackupTypes /\ Current /\ DailyKept /\ WeeklyKept

-----------------------------------------------------------------------------
(* A set of numbers that has a member has a least one. *)
LEMMA LeastMember ==
  ASSUME NEW T \in SUBSET Nat, T # {}
  PROVE  \E m \in T : \A n \in T : m <= n
<1> DEFINE below == OpToRel(<, Nat)
<1>1. IsWellFoundedOn(below, Nat)
  BY NatLessThanWellFounded
<1>2. \A m, n \in Nat : <<m, n>> \in below <=> m < n
  BY DEF OpToRel
<1> HIDE DEF below
<1>3. \E m \in T : \A n \in T : <<n, m>> \notin below
  BY <1>1, WFMin
<1>4. \A m, n \in T : m <= n \/ n < m
  OBVIOUS
<1> QED BY <1>2, <1>3, <1>4

(* A pruning that removes a file leaves as many newer ones as it keeps.    *)
LEMMA NewestRemain ==
  ASSUME NEW dir, IsFiniteSet(dir), NEW top \in Nat, \A f \in dir : f.name \in 0 .. top,
         NEW keep \in Nat, NEW w \in Nat, Cardinality(Newer(dir, w)) >= keep,
         NEW rest \in SUBSET dir, dir \ Prunable(dir, keep) \subseteq rest
  PROVE  Cardinality(Newer(rest, w)) >= keep
<1> DEFINE S == Newer(dir, w)
           T == Newer(rest, w)
<1>1. /\ IsFiniteSet(S) /\ Cardinality(S) \in Nat /\ T \subseteq S
      /\ IsFiniteSet(T) /\ Cardinality(T) \in Nat
  <2>1. S \in SUBSET dir /\ T \in SUBSET S
    BY DEF Newer
  <2>2. IsFiniteSet(S) /\ IsFiniteSet(T)
    BY <2>1, FS_Subset
  <2> QED BY <2>1, <2>2, FS_CardinalityType
<1>2. SUFFICES ASSUME Cardinality(T) < keep PROVE FALSE
  BY <1>1
<1> HIDE DEF S, T
<1>3. S \ T # {}
  <2>1. ASSUME S = T PROVE FALSE
    BY <1>1, <1>2, <2>1 DEF S
  <2> QED BY <1>1, <2>1
<1> DEFINE ages == {top - f.name : f \in S \ T}
<1>4. ages \in SUBSET Nat /\ ages # {}
  <2>1. \A f \in S : f.name \in 0 .. top
    BY DEF Newer, S
  <2>2. \A f \in S : top - f.name \in Nat
    BY <2>1
  <2> QED BY <1>3, <2>2
<1>5. PICK a \in ages : \A b \in ages : a <= b
  BY <1>4, LeastMember
<1>6. PICK f \in S \ T : a = top - f.name
  BY <1>5
<1>7. Newer(dir, f.name) \in SUBSET T
  <2> SUFFICES ASSUME NEW g \in dir, g.name > f.name PROVE g \in T
    BY DEF Newer
  <2>0. f \in dir /\ f.name \in Nat /\ g.name \in Nat /\ f.name > w
    BY <1>6 DEF Newer, S
  <2>1. g \in S
    BY <2>0 DEF Newer, S
  <2>2. CASE g \notin T
    <3>1. top - g.name \in ages
      BY <2>1, <2>2
    <3>2. top - f.name <= top - g.name
      BY <1>5, <1>6, <3>1
    <3> QED BY <2>0, <3>2
  <2> QED BY <2>2
<1>8. Cardinality(Newer(dir, f.name)) <= Cardinality(T) /\ Cardinality(Newer(dir, f.name)) \in Nat
  BY <1>1, <1>7, FS_Subset, FS_CardinalityType
<1>9. f \in dir /\ f.name > w
  BY <1>6 DEF Newer, S
<1>10. f \notin Prunable(dir, keep)
  BY <1>1, <1>2, <1>8 DEF Prunable
<1> QED BY <1>6, <1>9, <1>10 DEF Newer, T

(* Writing a file of the present minute. *)
LEMMA WrittenFile ==
  ASSUME BackupInv, NEW dir \in SUBSET Dumps, IsFiniteSet(dir), \A f \in dir : f.name <= minute,
         NEW good \in BOOLEAN
  PROVE  /\ Written(dir, File(minute, good)) \in SUBSET Dumps
         /\ IsFiniteSet(Written(dir, File(minute, good)))
         /\ \A f \in Written(dir, File(minute, good)) : f.name <= minute
         /\ File(minute, good) \in Written(dir, File(minute, good))
         /\ \A f \in dir : f.name # minute => f \in Written(dir, File(minute, good))
         /\ \A f \in Written(dir, File(minute, good)) :
               f = File(minute, good) \/ (f \in dir /\ f.name # minute)
<1> DEFINE others == {g \in dir : g.name # minute}
<1>1. File(minute, good) \in Dumps /\ File(minute, good).name = minute
  BY DEF BackupInv, BackupTypes, Dumps, File
<1>2. Written(dir, File(minute, good)) = others \cup {File(minute, good)}
  BY <1>1 DEF Written
<1>3. IsFiniteSet(others)
  BY FS_Subset
<1>4. IsFiniteSet(others \cup {File(minute, good)})
  BY <1>3, FS_AddElement
<1> HIDE DEF others
<1>5. \A f : f \in others <=> f \in dir /\ f.name # minute
  BY DEF others
<1>6. minute \in Nat
  BY DEF BackupInv, BackupTypes
<1> QED BY <1>1, <1>2, <1>4, <1>5, <1>6

(* A copy that fails costs no file but one of its own minute. *)
LEMMA CopyOver ==
  ASSUME BackupInv, NEW w \in Nat, w < minute
  PROVE  /\ Cardinality(Newer(weekly, w)) \in Nat
         /\ Cardinality(Newer(Written(weekly, File(minute, FALSE)), w)) \in Nat
         /\ Cardinality(Newer(weekly, w)) <= Cardinality(Newer(Written(weekly, File(minute, FALSE)), w))
<1> DEFINE new == Written(weekly, File(minute, FALSE))
           same == {g \in weekly : g.name = minute}
           A == {g \in weekly : g.name > w /\ g.name # minute}
<1>1. /\ minute \in Nat /\ weekly \in SUBSET Dumps /\ IsFiniteSet(weekly)
      /\ File(minute, FALSE).name = minute
  BY DEF BackupInv, BackupTypes, File
<1>2. IsFiniteSet(A) /\ Cardinality(A) \in Nat
  <2>1. A \in SUBSET weekly
    OBVIOUS
  <2>2. IsFiniteSet(A)
    BY <1>1, <2>1, FS_Subset
  <2> QED BY <2>2, FS_CardinalityType
<1>3. Newer(new, w) = A \cup {File(minute, FALSE)}
  BY <1>1 DEF Newer, Written
<1>4. File(minute, FALSE) \notin A
  BY <1>1
<1>5. Cardinality(A \cup {File(minute, FALSE)}) = Cardinality(A) + 1
  BY <1>2, <1>4, FS_AddElement
<1>8. \A c, e : e = Cardinality(A) + 1 /\ (c = Cardinality(A) \/ c = Cardinality(A) + 1)
                => c \in Nat /\ e \in Nat /\ c <= e
  <2> DEFINE k == Cardinality(A)
  <2>1. k \in Nat
    BY <1>2
  <2> HIDE DEF k
  <2>2. \A c, e : e = k + 1 /\ (c = k \/ c = k + 1) => c \in Nat /\ e \in Nat /\ c <= e
    BY <2>1
  <2> QED BY <2>2 DEF k
<1>6. CASE same = {}
  <2>1. Newer(weekly, w) = A
    BY <1>6 DEF Newer
  <2>2. Cardinality(Newer(new, w)) = Cardinality(A) + 1
    BY <1>3, <1>5
  <2> QED BY <1>8, <2>1, <2>2
<1>7. CASE same # {}
  <2>1. PICK h \in weekly : h.name = minute
    BY <1>7
  <2>2. \A g \in weekly : g.name = minute => g = h
    BY <2>1 DEF BackupInv, Current
  <2>3. Newer(weekly, w) = A \cup {h} /\ h \notin A
    BY <1>1, <2>1, <2>2 DEF Newer
  <2>4. Cardinality(A \cup {h}) = Cardinality(A) + 1
    BY <1>2, <2>3, FS_AddElement
  <2>5. Cardinality(Newer(new, w)) = Cardinality(A) + 1
    BY <1>3, <1>5
  <2>6. Cardinality(Newer(weekly, w)) = Cardinality(A) + 1
    BY <2>3, <2>4
  <2> QED BY <1>8, <2>5, <2>6
<1> QED BY <1>6, <1>7, <1>8

(* What a pruning leaves. *)
LEMMA Pruned ==
  ASSUME NEW old, IsFiniteSet(old), NEW new, NEW keep, PrunedTo(old, new, keep)
  PROVE  new \in SUBSET old /\ IsFiniteSet(new) /\ old \ Prunable(old, keep) \subseteq new
<1>1. new \in SUBSET old /\ old \ Prunable(old, keep) \subseteq new
  BY DEF PrunedTo, Prunable
<1> QED BY <1>1, FS_Subset

-----------------------------------------------------------------------------
LEMMA BackupStep == BackupInv /\ [BackupNext]_backupVars => BackupInv'
<1> SUFFICES ASSUME BackupInv, [BackupNext]_backupVars PROVE BackupInv'
  OBVIOUS
<1>0. /\ minute \in Nat \ {0} /\ newest \in [daily : Nat, weekly : Nat]
      /\ daily \in SUBSET Dumps /\ IsFiniteSet(daily) /\ \A f \in daily : f.name <= minute
      /\ weekly \in SUBSET Dumps /\ IsFiniteSet(weekly) /\ \A f \in weekly : f.name <= minute
      /\ run \in [pc : {"none", "dump", "copy", "daily", "weekly"}, name : Nat, sunday : BOOLEAN]
      /\ newest.daily \in Nat /\ newest.weekly \in Nat /\ sunday \in BOOLEAN
      /\ newest.daily <= minute /\ newest.weekly <= minute
      /\ KeepDaily \in Nat \ {0} /\ KeepWeekly \in Nat \ {0}
  BY BackupAssumption DEF BackupInv, BackupTypes, Current
<1>1. CASE ClockMoves
  <2>1. /\ UNCHANGED <<daily, weekly, run, newest>> /\ minute' = minute + 1 /\ run.pc = "none"
        /\ sunday' \in BOOLEAN
    BY <1>1 DEF ClockMoves, NoRun
  <2>2. BackupTypes'
    BY <1>0, <2>1 DEF BackupTypes, Dumps
  <2>3. Current'
    <3>1. \A f \in daily \cup weekly : f.name <= minute + 1
      BY <1>0 DEF Dumps
    <3> QED BY <1>0, <2>1, <3>1 DEF BackupInv, Current
  <2>4. DailyKept' /\ WeeklyKept'
    BY <2>1 DEF BackupInv, DailyKept, WeeklyKept, Newer
  <2> QED BY <2>2, <2>3, <2>4 DEF BackupInv
<1>2. CASE BeginRun
  <2>1. /\ UNCHANGED <<minute, daily, weekly, newest, sunday>>
        /\ run' = [pc |-> "dump", name |-> minute, sunday |-> sunday]
    BY <1>2 DEF BeginRun
  <2>2. BackupTypes'
    BY <1>0, <2>1 DEF BackupTypes, Dumps
  <2>3. Current'
    BY <1>0, <2>1 DEF BackupInv, Current
  <2>4. DailyKept' /\ WeeklyKept'
    BY <2>1 DEF BackupInv, DailyKept, WeeklyKept, Newer
  <2> QED BY <2>2, <2>3, <2>4 DEF BackupInv
<1>3. CASE DumpOk
  <2>1. /\ UNCHANGED <<minute, sunday, weekly>> /\ run.name = minute
        /\ daily' = Written(daily, File(minute, TRUE))
        /\ newest' = [newest EXCEPT !.daily = minute]
        /\ run' = [run EXCEPT !.pc = IF run.sunday THEN "copy" ELSE "daily"]
    BY <1>3 DEF DumpOk, BackupInv, Current
  <2>2. newest'.daily = minute /\ newest'.weekly = newest.weekly /\ newest' \in [daily : Nat, weekly : Nat]
    BY <1>0, <2>1
  <2>3. /\ run' \in [pc : {"none", "dump", "copy", "daily", "weekly"}, name : Nat, sunday : BOOLEAN]
        /\ run'.name = minute
    BY <1>0, <2>1
  <2>4. /\ daily' \in SUBSET Dumps /\ IsFiniteSet(daily') /\ \A f \in daily' : f.name <= minute
        /\ File(minute, TRUE) \in daily'
    BY <1>0, <2>1, WrittenFile
  <2>5. BackupTypes'
    BY <1>0, <2>1, <2>2, <2>3, <2>4 DEF BackupTypes, Dumps
  <2>6. Current'
    <3>1. \A f \in daily' \cup weekly' : f.name <= minute'
      BY <1>0, <2>1, <2>4
    <3>2. UNCHANGED <<minute, weekly>>
      BY <2>1
    <3> QED BY <1>0, <2>2, <2>3, <3>1, <3>2 DEF BackupInv, Current
  <2>7. DailyKept' /\ WeeklyKept'
    BY <2>1, <2>2, <2>4 DEF BackupInv, DailyKept, WeeklyKept, Newer, File
  <2> QED BY <2>5, <2>6, <2>7 DEF BackupInv
<1>4. CASE DumpFails
  <2> DEFINE z == IF newest.daily = minute THEN 0 ELSE newest.daily
  <2>1. /\ UNCHANGED <<minute, sunday, weekly>> /\ run.name = minute /\ run' = NoRun
        /\ \/ /\ daily' = Written(daily, File(minute, FALSE))
              /\ newest' = [newest EXCEPT !.daily = z]
           \/ UNCHANGED <<daily, newest>>
    BY <1>4 DEF DumpFails, BackupInv, Current
  <2>z. z \in {0, newest.daily} /\ (z # 0 => z = newest.daily /\ newest.daily # minute) /\ z \in Nat
    BY <1>0
  <2> HIDE DEF z
  <2>2. /\ newest'.daily \in {0, newest.daily} /\ newest'.weekly = newest.weekly
        /\ newest' \in [daily : Nat, weekly : Nat]
    BY <1>0, <2>1, <2>z
  <2>3. /\ daily' \in SUBSET Dumps /\ IsFiniteSet(daily') /\ \A f \in daily' : f.name <= minute
        /\ \A f \in daily : f.name # minute => f \in daily'
    <3>1. CASE UNCHANGED <<daily, newest>>
      BY <1>0, <3>1
    <3>2. CASE daily' = Written(daily, File(minute, FALSE))
      BY <1>0, <3>2, WrittenFile
    <3> QED BY <2>1, <3>1, <3>2
  <2>4. BackupTypes'
    BY <1>0, <2>1, <2>2, <2>3 DEF BackupTypes, Dumps, NoRun
  <2>5. Current'
    BY <1>0, <2>1, <2>2, <2>3 DEF BackupInv, Current, NoRun
  <2>6. DailyKept'
    <3>1. CASE UNCHANGED <<daily, newest>>
      BY <3>1 DEF BackupInv, DailyKept, File
    <3>2. CASE ~UNCHANGED <<daily, newest>>
      <4>1. newest'.daily # 0 => newest'.daily = newest.daily /\ newest.daily # minute
        BY <1>0, <2>1, <2>z, <3>2
      <4>2. newest'.daily # 0 => File(newest.daily, TRUE) \in daily /\ File(newest.daily, TRUE).name # minute
        BY <4>1 DEF BackupInv, DailyKept, File
      <4> QED BY <2>3, <4>1, <4>2 DEF DailyKept, File
    <3> QED BY <3>1, <3>2
  <2>7. WeeklyKept'
    BY <2>1, <2>2 DEF BackupInv, WeeklyKept, Newer, File
  <2> QED BY <2>4, <2>5, <2>6, <2>7 DEF BackupInv
<1>5. CASE CopyWeekly
  <2>1. /\ UNCHANGED <<minute, sunday, daily>> /\ run.name = minute /\ newest.daily = minute
        /\ weekly' = Written(weekly, File(minute, TRUE))
        /\ newest' = [newest EXCEPT !.weekly = minute]
        /\ run' = [run EXCEPT !.pc = "daily"]
    BY <1>5 DEF CopyWeekly, BackupInv, Current
  <2>2. newest'.weekly = minute /\ newest'.daily = newest.daily /\ newest' \in [daily : Nat, weekly : Nat]
    BY <1>0, <2>1
  <2>3. /\ run' \in [pc : {"none", "dump", "copy", "daily", "weekly"}, name : Nat, sunday : BOOLEAN]
        /\ run'.name = minute /\ run'.pc = "daily"
    BY <1>0, <2>1
  <2>4. /\ weekly' \in SUBSET Dumps /\ IsFiniteSet(weekly') /\ \A f \in weekly' : f.name <= minute
        /\ File(minute, TRUE) \in weekly'
        /\ \A f \in weekly' : f = File(minute, TRUE) \/ (f \in weekly /\ f.name # minute)
    BY <1>0, <2>1, WrittenFile
  <2>5. BackupTypes'
    BY <1>0, <2>1, <2>2, <2>3, <2>4 DEF BackupTypes, Dumps
  <2>6. Current'
    <3>1. \A f \in daily' \cup weekly' : f.name <= minute'
      BY <1>0, <2>1, <2>4
    <3>2. ASSUME NEW f \in weekly', NEW g \in weekly', f.name = g.name PROVE f = g
      <4>1. File(minute, TRUE).name = minute
        BY DEF File
      <4>2. f # File(minute, TRUE) => f \in weekly /\ f.name # minute
        BY <2>4
      <4>3. g # File(minute, TRUE) => g \in weekly /\ g.name # minute
        BY <2>4
      <4> QED BY <3>2, <4>1, <4>2, <4>3 DEF BackupInv, Current
    <3>3. minute' = minute /\ newest.daily = minute
      BY <2>1
    <3> QED BY <1>0, <2>2, <2>3, <3>1, <3>2, <3>3 DEF Current
  <2>7. DailyKept'
    BY <2>1, <2>2 DEF BackupInv, DailyKept, File
  <2>8. WeeklyKept'
    <3>1. Newer(weekly', minute) = {}
      BY <1>0, <2>4 DEF Newer, Dumps
    <3> QED BY <2>1, <2>2, <2>4, <3>1 DEF WeeklyKept, Newer, File
  <2> QED BY <2>5, <2>6, <2>7, <2>8 DEF BackupInv
<1>6. CASE CopyFails
  <2> DEFINE z == IF newest.weekly = minute THEN 0 ELSE newest.weekly
  <2>1. /\ UNCHANGED <<minute, sunday, daily>> /\ run.name = minute /\ run' = NoRun
        /\ \/ /\ weekly' = Written(weekly, File(minute, FALSE))
              /\ newest' = [newest EXCEPT !.weekly = z]
           \/ UNCHANGED <<weekly, newest>>
    BY <1>6 DEF CopyFails, BackupInv, Current
  <2>z. z \in {0, newest.weekly} /\ (z # 0 => z = newest.weekly /\ newest.weekly # minute) /\ z \in Nat
    BY <1>0
  <2> HIDE DEF z
  <2>2. /\ newest'.weekly \in {0, newest.weekly} /\ newest'.daily = newest.daily
        /\ newest' \in [daily : Nat, weekly : Nat]
    BY <1>0, <2>1, <2>z
  <2>3. /\ weekly' \in SUBSET Dumps /\ IsFiniteSet(weekly') /\ \A f \in weekly' : f.name <= minute
        /\ \A f \in weekly : f.name # minute => f \in weekly'
        /\ \A f \in weekly' : f = File(minute, FALSE) \/ f \in weekly
        /\ \A f, g \in weekly' : f.name = g.name => f = g
    <3>1. CASE UNCHANGED <<weekly, newest>>
      BY <1>0, <3>1 DEF BackupInv, Current
    <3>2. CASE weekly' = Written(weekly, File(minute, FALSE))
      <4>1. /\ weekly' \in SUBSET Dumps /\ IsFiniteSet(weekly') /\ \A f \in weekly' : f.name <= minute
            /\ \A f \in weekly : f.name # minute => f \in weekly'
            /\ \A f \in weekly' : f = File(minute, FALSE) \/ (f \in weekly /\ f.name # minute)
        BY <1>0, <3>2, WrittenFile
      <4>2. ASSUME NEW f \in weekly', NEW g \in weekly', f.name = g.name PROVE f = g
        <5>1. File(minute, FALSE).name = minute
          BY DEF File
        <5>2. f # File(minute, FALSE) => f \in weekly /\ f.name # minute
          BY <4>1
        <5>3. g # File(minute, FALSE) => g \in weekly /\ g.name # minute
          BY <4>1
        <5> QED BY <4>2, <5>1, <5>2, <5>3 DEF BackupInv, Current
      <4> QED BY <4>1, <4>2
    <3> QED BY <2>1, <3>1, <3>2
  <2>4. BackupTypes'
    BY <1>0, <2>1, <2>2, <2>3 DEF BackupTypes, Dumps, NoRun
  <2>5. Current'
    BY <1>0, <2>1, <2>2, <2>3 DEF BackupInv, Current, NoRun
  <2>6. DailyKept'
    BY <2>1, <2>2 DEF BackupInv, DailyKept, File
  <2>7. WeeklyKept'
    <3>1. CASE UNCHANGED <<weekly, newest>>
      BY <3>1 DEF BackupInv, WeeklyKept, Newer, File
    <3>2. CASE ~UNCHANGED <<weekly, newest>>
      <4> SUFFICES ASSUME newest'.weekly # 0
          PROVE /\ \A f \in Newer(weekly', newest.weekly) : ~f.good
                /\ \/ File(newest.weekly, TRUE) \in weekly'
                   \/ Cardinality(Newer(weekly', newest.weekly)) >= KeepWeekly
        BY <2>2 DEF WeeklyKept, Newer, File
      <4>1. newest.weekly # 0 /\ newest.weekly < minute /\ weekly' = Written(weekly, File(minute, FALSE))
        <5>1. newest' = [newest EXCEPT !.weekly = z] /\ weekly' = Written(weekly, File(minute, FALSE))
          BY <2>1, <3>2
        <5>2. newest'.weekly = z
          BY <1>0, <5>1
        <5> QED BY <1>0, <2>z, <5>1, <5>2
      <4>2. ASSUME NEW f \in Newer(weekly', newest.weekly) PROVE ~f.good
        <5>1. f = File(minute, FALSE) \/ f \in Newer(weekly, newest.weekly)
          BY <2>3 DEF Newer
        <5> QED BY <4>1, <5>1 DEF BackupInv, WeeklyKept, File
      <4>3. CASE File(newest.weekly, TRUE) \in weekly
        <5>1. File(newest.weekly, TRUE).name # minute
          BY <1>0, <4>1 DEF File
        <5> QED BY <2>3, <4>2, <4>3, <5>1
      <4>4. CASE Cardinality(Newer(weekly, newest.weekly)) >= KeepWeekly
        <5>1. Cardinality(Newer(weekly', newest.weekly)) >= KeepWeekly
          <6>1. /\ Cardinality(Newer(weekly, newest.weekly)) \in Nat
                /\ Cardinality(Newer(weekly', newest.weekly)) \in Nat
                /\ Cardinality(Newer(weekly, newest.weekly)) <= Cardinality(Newer(weekly', newest.weekly))
            BY <1>0, <4>1, CopyOver
          <6> HIDE DEF Newer
          <6> QED BY <1>0, <4>4, <6>1
        <5> QED BY <4>2, <5>1
      <4> QED BY <4>1, <4>3, <4>4 DEF BackupInv, WeeklyKept
    <3> QED BY <3>1, <3>2
  <2> QED BY <2>4, <2>5, <2>6, <2>7 DEF BackupInv
<1>7. CASE PruneDaily
  <2>1. /\ UNCHANGED <<minute, sunday, weekly, newest>> /\ run.name = minute /\ newest.daily = minute
        /\ PrunedTo(daily, daily', KeepDaily) /\ run' = [run EXCEPT !.pc = "weekly"]
    BY <1>7 DEF PruneDaily, BackupInv, Current
  <2>2. daily' \in SUBSET daily /\ IsFiniteSet(daily') /\ daily \ Prunable(daily, KeepDaily) \subseteq daily'
    BY <1>0, <2>1, Pruned
  <2>3. /\ run' \in [pc : {"none", "dump", "copy", "daily", "weekly"}, name : Nat, sunday : BOOLEAN]
        /\ run'.name = minute /\ run'.pc = "weekly"
    BY <1>0, <2>1
  <2>4. BackupTypes'
    BY <1>0, <2>1, <2>2, <2>3 DEF BackupTypes, Dumps
  <2>5. Current'
    BY <1>0, <2>1, <2>2, <2>3 DEF BackupInv, Current
  <2>6. DailyKept'
    <3>1. Newer(daily, minute) = {}
      BY <1>0 DEF Newer, Dumps
    <3>2. File(minute, TRUE) \in daily /\ File(minute, TRUE).name = minute
      BY <1>0, <2>1 DEF BackupInv, DailyKept, File
    <3>3. File(minute, TRUE) \notin Prunable(daily, KeepDaily)
      <4> DEFINE c == Cardinality(Newer(daily, File(minute, TRUE).name))
      <4>1. c = 0
        BY <3>1, <3>2, FS_EmptySet
      <4> HIDE DEF c
      <4>2. ~(c >= KeepDaily)
        BY <1>0, <4>1
      <4> QED BY <4>2 DEF Prunable, c
    <3> QED BY <2>1, <2>2, <3>2, <3>3 DEF DailyKept, File
  <2>7. WeeklyKept'
    BY <2>1 DEF BackupInv, WeeklyKept, Newer, File
  <2> QED BY <2>4, <2>5, <2>6, <2>7 DEF BackupInv
<1>8. CASE PruneWeekly
  <2>1. /\ UNCHANGED <<minute, sunday, daily, newest>> /\ run' = NoRun
        /\ PrunedTo(weekly, weekly', KeepWeekly)
    BY <1>8 DEF PruneWeekly
  <2>2. /\ weekly' \in SUBSET weekly /\ IsFiniteSet(weekly')
        /\ weekly \ Prunable(weekly, KeepWeekly) \subseteq weekly'
    BY <1>0, <2>1, Pruned
  <2>4. BackupTypes'
    BY <1>0, <2>1, <2>2 DEF BackupTypes, Dumps, NoRun
  <2>5. Current'
    BY <1>0, <2>1, <2>2 DEF BackupInv, Current, NoRun
  <2>6. DailyKept'
    BY <2>1 DEF BackupInv, DailyKept, File
  <2>7. WeeklyKept'
    <3> SUFFICES ASSUME newest.weekly # 0
        PROVE /\ \A f \in Newer(weekly', newest.weekly) : ~f.good
              /\ \/ File(newest.weekly, TRUE) \in weekly'
                 \/ Cardinality(Newer(weekly', newest.weekly)) >= KeepWeekly
      BY <2>1 DEF WeeklyKept, Newer, File
    <3>1. \A f \in Newer(weekly', newest.weekly) : ~f.good
      BY <2>2 DEF BackupInv, WeeklyKept, Newer
    <3>2. CASE Cardinality(Newer(weekly, newest.weekly)) >= KeepWeekly
      <4>1. \A f \in weekly : f.name \in 0 .. minute
        BY <1>0 DEF Dumps
      <4>2. Cardinality(Newer(weekly', newest.weekly)) >= KeepWeekly
        BY <1>0, <2>2, <3>2, <4>1, NewestRemain
      <4> QED BY <3>1, <4>2
    <3>3. CASE ~(Cardinality(Newer(weekly, newest.weekly)) >= KeepWeekly)
      <4>1. File(newest.weekly, TRUE) \in weekly /\ File(newest.weekly, TRUE).name = newest.weekly
        BY <3>3 DEF BackupInv, WeeklyKept, File
      <4>2. File(newest.weekly, TRUE) \notin Prunable(weekly, KeepWeekly)
        BY <3>3, <4>1 DEF Prunable
      <4> QED BY <2>2, <3>1, <4>1, <4>2
    <3> QED BY <3>2, <3>3
  <2> QED BY <2>4, <2>5, <2>6, <2>7 DEF BackupInv
<1>9. CASE UNCHANGED backupVars
  BY <1>9 DEF backupVars, BackupInv, BackupTypes, Current, DailyKept, WeeklyKept, Newer, File
<1> QED BY <1>1, <1>2, <1>3, <1>4, <1>5, <1>6, <1>7, <1>8, <1>9 DEF BackupNext

(* Runs that fail never cost the newest complete dump, and that of a       *)
(* Sunday only to a full set of newer copies that failed                   *)
(* (src/src/db_backup.py:72-103).                                          *)
THEOREM NewestDumpKept == BackupSpec => []NewestKept
<1>1. BackupInit => BackupInv
  <2> SUFFICES ASSUME BackupInit PROVE BackupInv
    OBVIOUS
  <2>1. IsFiniteSet(daily) /\ IsFiniteSet(weekly)
    BY FS_EmptySet DEF BackupInit
  <2> QED BY <2>1 DEF BackupInit, BackupInv, BackupTypes, Current, DailyKept, WeeklyKept, NoRun
<1>2. BackupInv => NewestKept
  <2> SUFFICES ASSUME BackupInv, newest.weekly # 0, Cardinality(Newer(weekly, newest.weekly)) >= KeepWeekly
      PROVE  /\ Cardinality(weekly) >= KeepWeekly
             /\ \A f \in weekly \ Prunable(weekly, KeepWeekly) : ~f.good
    BY DEF BackupInv, DailyKept, WeeklyKept, NewestKept
  <2> DEFINE N == Newer(weekly, newest.weekly)
  <2>1. /\ IsFiniteSet(weekly) /\ N \in SUBSET weekly /\ KeepWeekly \in Nat
        /\ newest.weekly \in Nat /\ \A f \in weekly : f.name \in Nat
    BY BackupAssumption DEF BackupInv, BackupTypes, Dumps, Newer
  <2>2. /\ Cardinality(N) <= Cardinality(weekly) /\ Cardinality(N) \in Nat /\ Cardinality(weekly) \in Nat
    BY <2>1, FS_Subset, FS_CardinalityType
  <2>3. ASSUME NEW f \in weekly, f.good PROVE f \in Prunable(weekly, KeepWeekly)
    <3>1. f.name <= newest.weekly
      <4>1. f \notin N
        BY <2>3 DEF BackupInv, WeeklyKept
      <4> QED BY <2>1, <4>1 DEF Newer
    <3>2. N \in SUBSET Newer(weekly, f.name) /\ Newer(weekly, f.name) \in SUBSET weekly
      BY <2>1, <3>1 DEF Newer
    <3>3. IsFiniteSet(Newer(weekly, f.name))
      BY <2>1, <3>2, FS_Subset
    <3>4. /\ Cardinality(N) <= Cardinality(Newer(weekly, f.name))
          /\ Cardinality(Newer(weekly, f.name)) \in Nat
      BY <3>2, <3>3, FS_Subset, FS_CardinalityType
    <3> QED BY <2>1, <2>2, <2>3, <3>4 DEF Prunable
  <2> QED BY <2>1, <2>2, <2>3
<1> QED BY <1>1, <1>2, BackupStep, PTL DEF BackupSpec

=============================================================================
