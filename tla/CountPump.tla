------------------------------ MODULE CountPump ------------------------------
(***************************************************************************)
(* The estimate of each drive's number of files.  A pump of the control    *)
(* API looks for drives never counted or not counted for half an hour and  *)
(* starts a task for each; a semaphore lets a few tasks ask the Drive API  *)
(* at a time; a request of the user counts beside them.                    *)
(***************************************************************************)
EXTENDS Naturals, FiniteSets

CONSTANTS
    CDrives,
    Concurrency     \* COUNT_CONCURRENCY

ASSUME CountAssumption == Concurrency \in Nat \ {0}

VARIABLES
    estimate,       \* per drive: absent, never counted, fresh, or stale
    failing,        \* drives the Drive API refuses to list
    inFlight,       \* in_flight of the pump
    tasks,          \* per drive: its tasks that wait for the semaphore
    counting,       \* per drive: its tasks that hold it
    manual,         \* drives counted by a request
    scan,           \* the pump: what it read of each drive
    todo,           \* the drives it is about to start
    pc

countVars == <<estimate, failing, inFlight, tasks, counting, manual, scan, todo, pc>>
taskVars  == <<tasks, counting>>

-----------------------------------------------------------------------------
Due == {"never", "stale"}        \* a drive not yet registered is "absent"
CountInit ==
    /\ estimate = [d \in CDrives |-> "absent"]
    /\ failing \in SUBSET CDrives
    /\ inFlight = {}
    /\ tasks    = [d \in CDrives |-> 0]
    /\ counting = [d \in CDrives |-> 0]
    /\ manual = {}
    /\ scan = [d \in CDrives |-> "absent"]
    /\ todo = {}
    /\ pc = "fetch"

Held == {d \in CDrives : counting[d] > 0}

(* The rows are read in a thread, tasks end before the pump looks at them. *)
CountFetch ==
    /\ pc = "fetch" /\ pc' = "select"
    /\ scan' = estimate
    /\ UNCHANGED <<estimate, failing, inFlight, taskVars, manual, todo>>

\* Mutant: tasks in flight are not left out.
CountSelectBlind ==
    /\ pc = "select"
    /\ todo' = {d \in CDrives : scan[d] \in Due}
    /\ pc' = IF todo' = {} THEN "fetch" ELSE "launch"
    /\ UNCHANGED <<estimate, failing, inFlight, taskVars, manual, scan>>

CountSelect ==
    /\ pc = "select"
    /\ todo' = {d \in CDrives : scan[d] \in Due /\ d \notin inFlight}
    /\ pc' = IF todo' = {} THEN "fetch" ELSE "launch"
    /\ UNCHANGED <<estimate, failing, inFlight, taskVars, manual, scan>>

(* Never counted first, then stale ones; half a second apart. *)
Launch(d) ==
    /\ pc = "launch" /\ d \in todo
    /\ scan[d] = "never" \/ \A e \in todo : scan[e] # "never"
    /\ todo'     = todo \ {d}
    /\ inFlight' = inFlight \cup {d}
    /\ tasks'    = [tasks EXCEPT ![d] = @ + 1]
    /\ pc' = IF todo' = {} THEN "fetch" ELSE "launch"
    /\ UNCHANGED <<estimate, failing, counting, manual, scan>>

Acquire(d) ==
    /\ tasks[d] > 0
    /\ Cardinality(Held) < Concurrency
    /\ tasks'    = [tasks EXCEPT ![d] = @ - 1]
    /\ counting' = [counting EXCEPT ![d] = @ + 1]
    /\ UNCHANGED <<estimate, failing, inFlight, manual, scan, todo, pc>>

\* Mutant: a task that fails leaves the semaphore taken.
CountOneKeepsSlot(d) ==
    /\ counting[d] > 0 /\ d \notin failing
    /\ estimate' = [estimate EXCEPT ![d] = "fresh"]
    /\ counting' = [counting EXCEPT ![d] = @ - 1]
    /\ inFlight' = inFlight \ {d}
    /\ UNCHANGED <<failing, tasks, manual, scan, todo, pc>>

(* Counted and written, or given up: the next scan tries again. *)
CountOne(d) ==
    /\ counting[d] > 0
    /\ estimate' = [estimate EXCEPT ![d] = IF d \in failing THEN @ ELSE "fresh"]
    /\ counting' = [counting EXCEPT ![d] = @ - 1]
    /\ inFlight' = inFlight \ {d}
    /\ UNCHANGED <<failing, tasks, manual, scan, todo, pc>>

RefreshBegin(d) ==
    /\ d \notin manual /\ estimate[d] # "absent"
    /\ manual' = manual \cup {d}
    /\ UNCHANGED <<estimate, failing, inFlight, taskVars, scan, todo, pc>>

RefreshEnd(d) ==
    /\ d \in manual
    /\ manual' = manual \ {d}
    /\ estimate' = [estimate EXCEPT ![d] = IF d \in failing THEN @ ELSE "fresh"]
    /\ UNCHANGED <<failing, inFlight, taskVars, scan, todo, pc>>

(* A drive is found among the shared drives. *)
Discover(d) ==
    /\ estimate[d] = "absent"
    /\ estimate' = [estimate EXCEPT ![d] = "never"]
    /\ UNCHANGED <<failing, inFlight, taskVars, manual, scan, todo, pc>>

(* Half an hour passes. *)
GrowStale(d) ==
    /\ estimate[d] = "fresh"
    /\ estimate' = [estimate EXCEPT ![d] = "stale"]
    /\ UNCHANGED <<failing, inFlight, taskVars, manual, scan, todo, pc>>

CountNext ==
    \/ CountFetch \/ CountSelect
    \/ \E d \in CDrives :
        Launch(d) \/ Acquire(d) \/ CountOne(d) \/ RefreshBegin(d) \/ RefreshEnd(d)
        \/ Discover(d) \/ GrowStale(d)

CountSpec == CountInit /\ [][CountNext]_countVars

-----------------------------------------------------------------------------
(* Properties *)

(* The pump never has two tasks for one drive, although it chooses from an *)
(* old reading of the registry and starts the tasks one after the other    *)
(* (src/src/control_api.py:885-934).                                       *)
OneTask ==
    \A d \in CDrives :
        /\ tasks[d] + counting[d] <= 1
        /\ d \in inFlight <=> tasks[d] + counting[d] = 1

(* Drives that fail over and over do not keep the others from being        *)
(* counted (src/src/control_api.py:866-883).                               *)
AllCounted ==
    \A d \in CDrives : (estimate[d] \in Due /\ d \notin failing) ~> estimate[d] = "fresh"

=============================================================================
