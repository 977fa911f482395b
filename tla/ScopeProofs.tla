---------------------------- MODULE ScopeProofs ----------------------------
(***************************************************************************)
(* Proofs about SearchScope, for any users, drives and concurrent calls.   *)
(***************************************************************************)
EXTENDS SearchScope, TLAPS

(* No grant without its account and its drive: the foreign keys and their  *)
(* cascades keep it, whatever requests check first and write later.        *)
THEOREM GrantsHaveOwners == Spec => []GrantsOwned
<1>1. Init => GrantsOwned
  BY DEF Init, GrantsOwned
<1>2. GrantsOwned /\ [Next]_vars => GrantsOwned'
  <2> SUFFICES ASSUME GrantsOwned, [Next]_vars PROVE GrantsOwned'
    OBVIOUS
  <2> USE DEF GrantsOwned
  <2>1. ASSUME NEW u \in Users, Create(u) \/ Seed(u) \/ DeleteUser(u) PROVE GrantsOwned'
    BY <2>1 DEF Create, Seed, DeleteUser
  <2>2. ASSUME NEW d \in Drives, Register(d) \/ Build(d) \/ DropSchema(d) \/ Unregister(d)
        PROVE  GrantsOwned'
    BY <2>2 DEF Register, Build, DropSchema, Unregister
  <2>3. ASSUME NEW s \in Slots, PasswordUpsert(s) PROVE GrantsOwned'
    BY <2>3 DEF PasswordUpsert
  <2>4. ASSUME NEW s \in Slots, ScopeSet(s) PROVE GrantsOwned'
    BY <2>4 DEF ScopeSet, InsertGrant
  <2>5. CASE UNCHANGED tables
    BY <2>5 DEF tables
  <2>6. ASSUME NEW c \in Calls, CallStep(c) PROVE UNCHANGED tables
    BY <2>6 DEF CallStep, ArriveHttp, ArriveBridge, Arrive, ResolveJoin, ResolveSchema,
       ResolveEnd, SearchAll, ListScoped, ScanDrive, ScanEnd, Log, Step, Finish
  <2>7. CASE AdminStep
    BY <2>1, <2>2, <2>3, <2>4, <2>5, <2>7 DEF AdminStep, PasswordCheck, ScopeCheck
  <2> QED
    BY <2>5, <2>6, <2>7 DEF Next, vars
<1> QED
  BY <1>1, <1>2, PTL DEF Spec

-----------------------------------------------------------------------------
CallRecord == [pc : {"new", "join", "namespace", "read", "log"}, user : Users \cup {NoUser},
               tool : Tools, cand : SUBSET Drives, rest : SUBSET Drives, res : SUBSET Drives,
               total : SUBSET Drives, out : {"none", "ok", "error"}]

ScopeTypes ==
    /\ call \in [Calls -> CallRecord]
    /\ seen \in [Calls -> SUBSET Drives]
    /\ kept \in [Calls -> SUBSET Drives]
    /\ torn \in [Calls -> SUBSET Drives]

Reading(r) == r.pc \in {"join", "namespace", "read"}

(* A call r reads drives it may see, has not lost any it must see, and     *)
(* misses a schema only if it was dropped since.                           *)
CallOK(r, se, ke, to) ==
    /\ r.rest \subseteq r.cand /\ r.cand \subseteq se /\ r.res \subseteq se
    /\ r.pc \notin {"namespace", "read"} => r.rest = {}
    /\ r.total # {} => r.tool = "stats"
    /\ Reading(r) => Granted(r.user) \subseteq se /\ ke \subseteq Searchable(r.user)
    /\ r.pc \in {"namespace", "read"} => ke \subseteq r.cand
    /\ r.pc = "namespace" => (r.cand \ r.rest) \ built \subseteq to
    /\ r.pc = "read" => r.cand \ built \subseteq to
    /\ r.pc = "read" /\ r.tool = "stats" => r.cand \ r.rest \subseteq r.res
    /\ r.pc = "log" /\ r.out = "ok" /\ r.tool # "lookup" => ke \subseteq r.res
    /\ r.out = "error" => to # {}

ScopeInv == ScopeTypes /\ \A c \in Calls : CallOK(call[c], seen[c], kept[c], torn[c])

LEMMA EmptyCall == NoCall \in CallRecord /\ CallOK(NoCall, {}, {}, {})
  BY DEF NoCall, CallRecord, CallOK, Reading, Tools, Scans

(* What administrators and the daemon do: the tables change under the      *)
(* calls, and Watch takes note; or nothing changes that a call sees.       *)
LEMMA AdminKinds ==
  ASSUME AdminStep
  PROVE  UNCHANGED call /\ (Watch \/ UNCHANGED <<tables, ghosts>>)
  BY DEF AdminStep, Create, Seed, DeleteUser, PasswordCheck, PasswordUpsert, ScopeCheck, ScopeSet,
     Register, Build, DropSchema, Unregister, Begin, api, tables

LEMMA WatchKeeps ==
  ASSUME ScopeInv, UNCHANGED call, Watch
  PROVE  ScopeInv'
<1>1. ScopeTypes'
  BY DEF ScopeInv, ScopeTypes, Watch, Granted, Searchable
<1>2. ASSUME NEW c \in Calls PROVE CallOK(call[c], seen[c], kept[c], torn[c])'
  <2> DEFINE r == call[c]
  <2>1. CallOK(r, seen[c], kept[c], torn[c]) /\ call'[c] = r /\ r \in CallRecord
    BY DEF ScopeInv, ScopeTypes
  <2>2. CASE ~Reading(r)
    <3>1. seen'[c] = seen[c] /\ kept'[c] = kept[c] /\ torn'[c] = torn[c]
      BY <2>2 DEF Watch, Open, Reading
    <3> QED BY <2>1, <2>2, <3>1 DEF CallOK, Reading
  <2>3. CASE Reading(r)
    <3>1. /\ seen'[c] = seen[c] \cup Granted(r.user)'
          /\ kept'[c] = kept[c] \cap Searchable(r.user)'
          /\ torn'[c] = torn[c] \cup (seen[c] \cap (built \ built'))
      BY <2>1, <2>3 DEF Watch, Open, Reading
    <3>2. /\ r.cand \ built \subseteq torn[c] => r.cand \ built' \subseteq torn'[c]
          /\ (r.cand \ r.rest) \ built \subseteq torn[c]
             => (r.cand \ r.rest) \ built' \subseteq torn'[c]
      BY <2>1, <3>1 DEF CallOK
    <3>3. call'[c].rest \subseteq call'[c].cand /\ call'[c].cand \subseteq seen'[c]
          /\ call'[c].res \subseteq seen'[c]
      BY <2>1, <3>1 DEF CallOK
    <3>4. Granted(call[c].user)' \subseteq seen'[c] /\ kept'[c] \subseteq Searchable(call[c].user)'
      BY <3>1
    <3>5. kept'[c] \subseteq kept[c] /\ torn[c] \subseteq torn'[c]
      BY <3>1
    <3>6. /\ call'[c].pc \in {"namespace", "read"} => kept'[c] \subseteq call'[c].cand
          /\ call'[c].pc = "read" => call'[c].cand \ built' \subseteq torn'[c]
          /\ call'[c].pc = "namespace"
             => (call'[c].cand \ call'[c].rest) \ built' \subseteq torn'[c]
          /\ call'[c].pc = "read" /\ call'[c].tool = "stats"
             => call'[c].cand \ call'[c].rest \subseteq call'[c].res
          /\ call'[c].pc # "log" /\ (call'[c].total # {} => call'[c].tool = "stats")
          /\ call'[c].pc \notin {"namespace", "read"} => call'[c].rest = {}
          /\ call'[c].out = "error" => torn'[c] # {}
      BY <2>1, <2>3, <3>2, <3>5 DEF CallOK, Reading
    <3> QED BY <3>3, <3>4, <3>6 DEF CallOK
  <2> QED BY <2>2, <2>3
<1> QED
  BY <1>1, <1>2 DEF ScopeInv

(* A step of a call that leaves a proper record behind. *)
LEMMA StepKeeps ==
  ASSUME ScopeInv, NEW c \in Calls, NEW r \in CallRecord, Step(c, r),
         CallOK(r, seen[c], kept[c], torn[c])
  PROVE  ScopeInv'
<1>1. ScopeTypes'
  BY DEF ScopeInv, ScopeTypes, Step, ghosts
<1>2. ASSUME NEW e \in Calls PROVE CallOK(call[e], seen[e], kept[e], torn[e])'
  <2>1. UNCHANGED <<accounts, registered, built, grants, seen, kept, torn>>
    BY DEF Step, tables, ghosts
  <2>2. call'[e] = IF e = c THEN r ELSE call[e]
    BY DEF ScopeInv, ScopeTypes, Step
  <2>3. CallOK(call'[e], seen[e], kept[e], torn[e])
    BY <2>2 DEF ScopeInv
  <2> QED BY <2>1, <2>3 DEF CallOK, Granted, Searchable
<1> QED
  BY <1>1, <1>2 DEF ScopeInv

-----------------------------------------------------------------------------
(* The steps of a call *)

LEMMA ArriveKeeps ==
  ASSUME ScopeInv, NEW c \in Calls, NEW u \in Users, NEW tool \in Tools, Arrive(c, u, tool)
  PROVE  ScopeInv'
<1> DEFINE r == [NoCall EXCEPT !.user = u, !.tool = tool, !.pc = "join"]
<1>1. /\ r \in CallRecord /\ r.pc = "join" /\ r.user = u /\ r.out = "none"
      /\ r.cand = {} /\ r.rest = {} /\ r.res = {} /\ r.total = {}
  BY DEF NoCall, CallRecord
<1> HIDE DEF r
<1>2. UNCHANGED <<accounts, registered, built, grants, torn>>
  BY DEF Arrive, tables
<1>3. /\ call' = [call EXCEPT ![c] = r]
      /\ seen' = [seen EXCEPT ![c] = Granted(u)]
      /\ kept' = [kept EXCEPT ![c] = Searchable(u)]
  BY DEF Arrive, r
<1>4. ScopeTypes'
  BY <1>1, <1>2, <1>3 DEF ScopeInv, ScopeTypes, Granted, Searchable
<1>5. CallOK(r, Granted(u), Searchable(u), torn[c])
  BY <1>1 DEF CallOK, Reading
<1>6. ASSUME NEW e \in Calls PROVE CallOK(call[e], seen[e], kept[e], torn[e])'
  <2>1. CallOK(call'[e], seen'[e], kept'[e], torn[e])
    <3>1. CASE e = c
      BY <1>3, <1>5, <3>1 DEF ScopeInv, ScopeTypes
    <3>2. CASE e # c
      BY <1>3, <3>2 DEF ScopeInv, ScopeTypes
    <3> QED BY <3>1, <3>2
  <2> QED BY <1>2, <2>1 DEF CallOK, Granted, Searchable
<1> QED
  BY <1>4, <1>6 DEF ScopeInv

LEMMA LogKeeps ==
  ASSUME ScopeInv, NEW c \in Calls, Log(c)
  PROVE  ScopeInv'
<1>1. UNCHANGED <<accounts, registered, built, grants>>
  BY DEF Log, tables
<1>2. ScopeTypes'
  BY EmptyCall DEF ScopeInv, ScopeTypes, Log
<1>3. ASSUME NEW e \in Calls PROVE CallOK(call[e], seen[e], kept[e], torn[e])'
  <2>1. CallOK(call'[e], seen'[e], kept'[e], torn'[e])
    <3>1. CASE e = c
      BY <3>1, EmptyCall DEF ScopeInv, ScopeTypes, Log
    <3>2. CASE e # c
      BY <3>2 DEF ScopeInv, ScopeTypes, Log
    <3> QED BY <3>1, <3>2
  <2> QED BY <1>1, <2>1 DEF CallOK, Granted, Searchable
<1> QED
  BY <1>2, <1>3 DEF ScopeInv

(* The result of a finished call. *)
LEMMA FinishKeeps ==
  ASSUME ScopeInv, NEW c \in Calls,
         NEW out \in {"ok", "error"}, NEW res \in SUBSET seen[c], Finish(c, out, res),
         out = "ok" /\ call[c].tool # "lookup" => kept[c] \subseteq res,
         out = "error" => torn[c] # {}
  PROVE  ScopeInv'
<1> DEFINE r == [call[c] EXCEPT !.pc = "log", !.out = out, !.res = res, !.cand = {}, !.rest = {}]
<1>1. call[c] \in CallRecord /\ seen[c] \in SUBSET Drives
  BY DEF ScopeInv, ScopeTypes
<1>2. /\ r \in CallRecord /\ r.pc = "log" /\ r.out = out /\ r.res = res
      /\ r.cand = {} /\ r.rest = {} /\ r.tool = call[c].tool /\ r.total = call[c].total
  BY <1>1 DEF CallRecord
<1>3. Step(c, r)
  BY DEF Finish
<1> HIDE DEF r
<1>4. call[c].total # {} => call[c].tool = "stats"
  BY DEF ScopeInv, CallOK
<1>5. CallOK(r, seen[c], kept[c], torn[c])
  BY <1>2, <1>4 DEF CallOK, Reading
<1> QED
  BY <1>2, <1>3, <1>5, StepKeeps

LEMMA ResolveKeeps ==
  ASSUME ScopeInv, NEW c \in Calls,
         ResolveJoin(c) \/ ResolveEnd(c) \/ \E d \in Drives : ResolveSchema(c, d)
  PROVE  ScopeInv'
<1>1. call[c] \in CallRecord /\ CallOK(call[c], seen[c], kept[c], torn[c])
  BY DEF ScopeInv, ScopeTypes
<1>2. /\ call[c].res \subseteq seen[c] /\ (call[c].out = "error" => torn[c] # {})
      /\ call[c].total # {} => call[c].tool = "stats"
      /\ Granted(call[c].user) \subseteq seen[c] /\ kept[c] \subseteq Searchable(call[c].user)
      /\ call[c].pc \in {"join", "namespace"}
      /\ call[c].pc = "namespace" =>
          /\ call[c].rest \subseteq call[c].cand /\ call[c].cand \subseteq seen[c]
          /\ kept[c] \subseteq call[c].cand
          /\ (call[c].cand \ call[c].rest) \ built \subseteq torn[c]
  BY <1>1 DEF CallOK, Reading, ResolveJoin, ResolveEnd, ResolveSchema
<1>3. CASE ResolveJoin(c)
  <2> DEFINE mine == Granted(call[c].user) \cap registered
             r == [call[c] EXCEPT !.pc = "namespace", !.cand = mine, !.rest = mine]
  <2>1. Step(c, r)
    BY <1>3 DEF ResolveJoin
  <2>2. /\ r \in CallRecord /\ r.pc = "namespace" /\ r.cand = mine /\ r.rest = mine
        /\ r.user = call[c].user /\ r.res = call[c].res /\ r.out = call[c].out
        /\ r.tool = call[c].tool /\ r.total = call[c].total
    BY <1>1 DEF CallRecord, Granted
  <2> HIDE DEF r
  <2>3. mine \subseteq seen[c] /\ kept[c] \subseteq mine
    BY <1>2 DEF Searchable
  <2>4. CallOK(r, seen[c], kept[c], torn[c])
    BY <1>2, <2>2, <2>3 DEF CallOK, Reading
  <2> QED BY <2>1, <2>2, <2>4, StepKeeps
<1>4. ASSUME NEW d \in Drives, ResolveSchema(c, d) PROVE ScopeInv'
  <2> DEFINE left == IF d \in built THEN call[c].cand ELSE call[c].cand \ {d}
             r == [call[c] EXCEPT !.rest = @ \ {d}, !.cand = left]
  <2>1. call[c].pc = "namespace" /\ Step(c, r)
    BY <1>4 DEF ResolveSchema
  <2>2. /\ r \in CallRecord /\ r.pc = "namespace" /\ r.cand = left /\ r.rest = call[c].rest \ {d}
        /\ r.user = call[c].user /\ r.res = call[c].res /\ r.out = call[c].out
        /\ r.tool = call[c].tool /\ r.total = call[c].total
    BY <1>1, <2>1 DEF CallRecord
  <2> HIDE DEF r
  <2>3. /\ left \subseteq seen[c] /\ kept[c] \subseteq left
        /\ call[c].rest \ {d} \subseteq left
        /\ (left \ (call[c].rest \ {d})) \ built \subseteq torn[c]
    BY <1>2, <2>1 DEF Searchable
  <2>4. CallOK(r, seen[c], kept[c], torn[c])
    BY <1>2, <2>2, <2>3 DEF CallOK, Reading
  <2> QED BY <2>1, <2>2, <2>4, StepKeeps
<1>5. CASE ResolveEnd(c)
  <2> DEFINE q == [call[c] EXCEPT !.pc = "read", !.rest = call[c].cand]
  <2>1. /\ call[c].pc = "namespace" /\ call[c].rest = {}
        /\ (Finish(c, "ok", {}) /\ call[c].cand = {}) \/ Step(c, q)
    BY <1>5 DEF ResolveEnd
  <2>2. CASE Finish(c, "ok", {}) /\ call[c].cand = {}
    BY <1>2, <2>1, <2>2, FinishKeeps
  <2>3. CASE Step(c, q)
    <3>1. /\ q \in CallRecord /\ q.pc = "read" /\ q.cand = call[c].cand /\ q.rest = call[c].cand
          /\ q.res = call[c].res /\ q.out = call[c].out /\ q.user = call[c].user
          /\ q.tool = call[c].tool /\ q.total = call[c].total
      BY <1>1 DEF CallRecord
    <3> HIDE DEF q
    <3>2. CallOK(q, seen[c], kept[c], torn[c])
      BY <1>2, <2>1, <3>1 DEF CallOK, Reading
    <3> QED BY <2>3, <3>1, <3>2, StepKeeps
  <2> QED BY <2>1, <2>2, <2>3
<1> QED BY <1>3, <1>4, <1>5

LEMMA ReadKeeps ==
  ASSUME ScopeInv, NEW c \in Calls,
         SearchAll(c) \/ ListScoped(c) \/ ScanEnd(c) \/ \E d \in Drives : ScanDrive(c, d)
  PROVE  ScopeInv'
<1>1. call[c] \in CallRecord /\ CallOK(call[c], seen[c], kept[c], torn[c])
  BY DEF ScopeInv, ScopeTypes
<1>2. /\ call[c].pc = "read"
      /\ call[c].rest \subseteq call[c].cand /\ call[c].cand \subseteq seen[c]
      /\ call[c].res \subseteq seen[c] /\ kept[c] \subseteq call[c].cand
      /\ kept[c] \subseteq registered /\ call[c].cand \ built \subseteq torn[c]
      /\ call[c].tool = "stats" => call[c].cand \ call[c].rest \subseteq call[c].res
      /\ call[c].out = "error" => torn[c] # {}
      /\ call[c].total # {} => call[c].tool = "stats"
      /\ Granted(call[c].user) \subseteq seen[c] /\ kept[c] \subseteq Searchable(call[c].user)
  BY <1>1 DEF CallOK, Reading, Searchable, SearchAll, ListScoped, ScanEnd, ScanDrive
<1>3. CASE SearchAll(c)
  BY <1>2, <1>3, FinishKeeps DEF SearchAll
<1>4. CASE ListScoped(c)
  BY <1>2, <1>4, FinishKeeps DEF ListScoped
<1>5. CASE ScanEnd(c)
  <2>1. PICK sum \in SUBSET Drives :
          /\ call[c].tool \in Scans /\ call[c].rest = {}
          /\ call[c].tool = "lookup" => sum = {}
          /\ Step(c, [call[c] EXCEPT !.pc = "log", !.out = "ok", !.total = sum, !.cand = {}])
    BY <1>5 DEF ScanEnd
  <2> DEFINE r == [call[c] EXCEPT !.pc = "log", !.out = "ok", !.total = sum, !.cand = {}]
  <2>2. /\ r \in CallRecord /\ r.pc = "log" /\ r.out = "ok" /\ r.total = sum /\ r.cand = {}
        /\ r.rest = {} /\ r.res = call[c].res /\ r.tool = call[c].tool
    BY <1>1, <2>1 DEF CallRecord
  <2>3. Step(c, r)
    BY <2>1
  <2> HIDE DEF r
  <2>4. (sum # {} => r.tool = "stats") /\ (r.tool # "lookup" => kept[c] \subseteq r.res)
    BY <1>2, <2>1, <2>2 DEF Scans
  <2>5. CallOK(r, seen[c], kept[c], torn[c])
    BY <1>2, <2>2, <2>4 DEF CallOK, Reading
  <2> QED BY <2>2, <2>3, <2>5, StepKeeps
<1>6. ASSUME NEW d \in Drives, ScanDrive(c, d) PROVE ScopeInv'
  <2>1. d \in call[c].rest
    BY <1>6 DEF ScanDrive
  <2>2. CASE d \notin built /\ Finish(c, "error", {})
    <3>1. torn[c] # {}
      BY <1>2, <2>1, <2>2
    <3> QED BY <1>2, <2>2, <3>1, FinishKeeps
  <2>3. CASE call[c].tool = "lookup" /\ Finish(c, "ok", {d})
    BY <1>2, <2>1, <2>3, FinishKeeps
  <2>4. CASE Step(c, [call[c] EXCEPT !.rest = @ \ {d},
                        !.res = IF call[c].tool = "stats" THEN @ \cup {d} ELSE @])
    <3> DEFINE r == [call[c] EXCEPT !.rest = @ \ {d},
                       !.res = IF call[c].tool = "stats" THEN @ \cup {d} ELSE @]
    <3>1. /\ r \in CallRecord /\ r.pc = "read" /\ r.cand = call[c].cand
          /\ r.rest = call[c].rest \ {d} /\ r.tool = call[c].tool /\ r.user = call[c].user
          /\ r.out = call[c].out /\ r.total = call[c].total
          /\ r.res = IF call[c].tool = "stats" THEN call[c].res \cup {d} ELSE call[c].res
      BY <1>1, <1>2 DEF CallRecord
    <3>2. Step(c, r)
      BY <2>4
    <3> HIDE DEF r
    <3>3. r.res \subseteq seen[c] /\ (r.tool = "stats" => r.cand \ r.rest \subseteq r.res)
      BY <1>2, <2>1, <3>1
    <3>4. CallOK(r, seen[c], kept[c], torn[c])
      BY <1>2, <3>1, <3>3 DEF CallOK, Reading
    <3> QED BY <3>1, <3>2, <3>4, StepKeeps
  <2> QED BY <1>6, <2>2, <2>3, <2>4 DEF ScanDrive
<1> QED BY <1>3, <1>4, <1>5, <1>6

-----------------------------------------------------------------------------
(* In every reachable state a call sees what it may, keeps what it must,   *)
(* and misses a schema only if it was dropped under it.                    *)
THEOREM ScopeKept == Spec => []ScopeInv
<1>1. Init => ScopeInv
  <2> SUFFICES ASSUME Init PROVE ScopeInv
    OBVIOUS
  <2>1. \A c \in Calls : call[c] = NoCall /\ seen[c] = {} /\ kept[c] = {} /\ torn[c] = {}
    BY DEF Init
  <2>2. ScopeTypes
    BY EmptyCall DEF Init, ScopeTypes
  <2> QED BY <2>1, <2>2, EmptyCall DEF ScopeInv
<1>2. ScopeInv /\ [Next]_vars => ScopeInv'
  <2> SUFFICES ASSUME ScopeInv, [Next]_vars PROVE ScopeInv'
    OBVIOUS
  <2>1. ASSUME UNCHANGED <<tables, call, ghosts>> PROVE ScopeInv'
    BY <2>1 DEF ScopeInv, ScopeTypes, CallOK, Granted, Searchable, tables, ghosts
  <2>2. CASE AdminStep
    BY <2>1, <2>2, AdminKinds, WatchKeeps
  <2>3. ASSUME NEW c \in Calls, CallStep(c) PROVE ScopeInv'
    BY <2>3, ArriveKeeps, ResolveKeeps, ReadKeeps, LogKeeps DEF CallStep, ArriveHttp, ArriveBridge
  <2>4. CASE UNCHANGED vars
    BY <2>1, <2>4 DEF vars
  <2> QED BY <2>2, <2>3, <2>4 DEF Next
<1> QED
  BY <1>1, <1>2, PTL DEF Spec

(* No call returns a chunk, a listing or a count of a drive its user was   *)
(* never granted during it (src/src/mcp_server.py:158-171), but for what   *)
(* stats adds into total_files_approx (src/src/mcp_server.py:347-350).     *)
THEOREM ForeignSummedAtMost == Spec => []ForeignOnlySummed
<1>1. ScopeInv => ForeignOnlySummed
  BY DEF ScopeInv, CallOK, ForeignOnlySummed
<1> QED BY <1>1, ScopeKept, PTL

(* A listing or a search that succeeds covers all its user could search    *)
(* all the while (src/src/mcp_server.py:202-255).                          *)
THEOREM NeverMissed == Spec => []NothingMissed
<1>1. ScopeInv => NothingMissed
  BY DEF ScopeInv, CallOK, NothingMissed
<1> QED BY <1>1, ScopeKept, PTL

(* A tool fails only if a schema in its scope was dropped under it         *)
(* (src/src/db.py:784-812).                                                *)
THEOREM ErrorsAreDrops == Spec => []ErrorsExplained
<1>1. ScopeInv => ErrorsExplained
  BY DEF ScopeInv, CallOK, ErrorsExplained
<1> QED BY <1>1, ScopeKept, PTL

=============================================================================
