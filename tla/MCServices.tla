----------------------------- MODULE MCServices -----------------------------
(***************************************************************************)
(* The parts of the system that share no state with one another, each      *)
(* checked for itself in the behaviours that choose it at the start.       *)
(***************************************************************************)
EXTENDS PauseControl, EventFeed, CountPump, LockFile, ChunkStore, Chunking, Backup, DrivePages

VARIABLE part

vars == <<pauseVars, feedVars, countVars, lockFileVars, chunkVars, textVars, backupVars, pagesVars, part>>

(* The variables of a part that is not chosen have one initial value. *)
Init ==
    /\ part \in {"pause", "feed", "count", "lock", "store", "text", "backup", "pages"}
    /\ PauseInit /\ FeedInit /\ LockInit /\ ChunkInit
    /\ CountInit    /\ (part # "count"  => failing = {})
    /\ BackupInit   /\ (part # "backup" => ~sunday)
    /\ PagesInit    /\ (part # "pages"  => \A d \in Drives : alive[d] = {})
    /\ IF part = "text" THEN ChunkingInit
       ELSE text = <<>> /\ size = 0 /\ overlap = 0 /\ para = 1 /\ offset = 0 /\ buf = <<>> /\ out = <<>>

OnlyPause  == UNCHANGED <<feedVars, countVars, lockFileVars, chunkVars, textVars, backupVars, pagesVars>>
OnlyFeed   == UNCHANGED <<pauseVars, countVars, lockFileVars, chunkVars, textVars, backupVars, pagesVars>>
OnlyCount  == UNCHANGED <<pauseVars, feedVars, lockFileVars, chunkVars, textVars, backupVars, pagesVars>>
OnlyLock   == UNCHANGED <<pauseVars, feedVars, countVars, chunkVars, textVars, backupVars, pagesVars>>
OnlyStore  == UNCHANGED <<pauseVars, feedVars, countVars, lockFileVars, textVars, backupVars, pagesVars>>
OnlyText   == UNCHANGED <<pauseVars, feedVars, countVars, lockFileVars, chunkVars, backupVars, pagesVars>>
OnlyBackup == UNCHANGED <<pauseVars, feedVars, countVars, lockFileVars, chunkVars, textVars, pagesVars>>
OnlyPages  == UNCHANGED <<pauseVars, feedVars, countVars, lockFileVars, chunkVars, textVars, backupVars>>

(* A generator ends; the transactions are bounded. *)
Rest ==
    \/ part = "text" /\ Exhausted
    \/ part = "store" /\ begun = MaxUpserts

Next ==
    /\ UNCHANGED part
    /\ \/ part = "pause"  /\ PauseNext    /\ OnlyPause
       \/ part = "feed"   /\ FeedNext     /\ OnlyFeed
       \/ part = "count"  /\ CountNext    /\ OnlyCount
       \/ part = "lock"   /\ LockNext     /\ OnlyLock
       \/ part = "store"  /\ ChunkNext    /\ OnlyStore
       \/ part = "text"   /\ ChunkingNext /\ OnlyText
       \/ part = "backup" /\ BackupNext   /\ OnlyBackup
       \/ part = "pages"  /\ PagesNext    /\ OnlyPages
       \/ Rest /\ UNCHANGED vars

In(p, A) == part = p /\ A

(* Handler threads, the pumps and the web socket handlers run; asyncio's   *)
(* semaphore serves its waiters in turn.  A daemon that ended is started   *)
(* again and a file left alone grows old.  Requests, users, writers and    *)
(* failures are never fair.                                                *)
Fairness ==
    /\ \A s \in Slots : WF_pauseVars(In("pause", RequestStep(s)))
    /\ WF_pauseVars(In("pause", PumpStep)) /\ WF_pauseVars(In("pause", ApiStart))
    /\ WF_feedVars(In("feed", FeedFetch)) /\ WF_feedVars(In("feed", FeedPush))
    /\ \A s \in Sockets : WF_feedVars(In("feed", SendText(s)))
    /\ WF_countVars(In("count", CountFetch)) /\ WF_countVars(In("count", CountSelect))
    /\ \A d \in CDrives :
        /\ WF_countVars(In("count", Launch(d))) /\ SF_countVars(In("count", Acquire(d)))
        /\ WF_countVars(In("count", CountOne(d)))
    /\ WF_lockFileVars(In("lock", \E p \in Daemons : StartDaemon(p)))
    /\ WF_lockFileVars(In("lock", GrowOld))
    /\ \A p \in Daemons : WF_lockFileVars(In("lock", LockStep(p)))

FairSpec == Init /\ [][Next]_vars /\ Fairness

(* While nothing but the lock is at work: a lock left by a crash, with its *)
(* pid in use by another program or not, does not keep the daemon from     *)
(* starting for ever (src/src/lockfile.py:51-74).                          *)
DaemonRuns == part = "lock" => NeverLockedOut

=============================================================================
