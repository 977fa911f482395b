----------------------------- MODULE SearchScope -----------------------------
(***************************************************************************)
(* Who may search what.  Administrators keep accounts and a table of       *)
(* (user, drive) grants through the control API while the daemon creates   *)
(* and drops the drives' schemas; the tools of the MCP server, called      *)
(* through HTTP or through the bridge, resolve the caller's scope and then *)
(* read the drives in statements of their own.                             *)
(***************************************************************************)

CONSTANTS
    Users, Drives,
    Calls,          \* tool calls at one time
    Slots,          \* requests of administrators that may run at one time
    NoUser, NoDrive

ASSUME ScopeAssumption == NoUser \notin Users /\ NoDrive \notin Drives

VARIABLES
    accounts,       \* mcp_users
    registered,     \* fd_registry
    built,          \* drives whose schema exists
    grants,         \* mcp_user_drives
    req,            \* per slot: a request about an account in progress
    removing,       \* drives whose removal has dropped the schema, not yet the row
    call,           \* per call: the caller and the locals of the tool
    seen,           \* per call: drives its user was granted at some time during it
    kept,           \* per call: drives its user could search all the time
    torn            \* per call: drives of its user whose schema was dropped during it

tables == <<accounts, registered, built, grants>>
ghosts == <<seen, kept, torn>>
api    == <<req, removing>>
vars   == <<tables, api, call, ghosts>>

-----------------------------------------------------------------------------
Scans   == {"lookup", "stats"}
Tools   == {"search", "list_drives"} \cup Scans
NoReq   == [op |-> "none", user |-> NoUser, drive |-> NoDrive]
NoCall  == [pc |-> "new", user |-> NoUser, tool |-> "search",
            cand |-> {}, rest |-> {}, res |-> {}, total |-> {}, out |-> "none"]

Granted(u)    == {d \in Drives : <<u, d>> \in grants}
Searchable(u) == Granted(u) \cap registered \cap built
Open(c)       == call[c].pc \in {"join", "namespace", "read"}

(* Every document table a call has read stays locked until it is closed. *)
ReadLocked(d) == \E c \in Calls : call[c].pc = "read" /\ d \in call[c].cand \ call[c].rest

(* What the calls in progress may and must see, after a change of the tables. *)
Watch ==
    /\ seen' = [c \in Calls |->
                  IF Open(c) THEN seen[c] \cup Granted(call[c].user)' ELSE seen[c]]
    /\ kept' = [c \in Calls |->
                  IF Open(c) THEN kept[c] \cap Searchable(call[c].user)' ELSE kept[c]]
    /\ torn' = [c \in Calls |->
                  IF Open(c) THEN torn[c] \cup (seen[c] \cap (built \ built')) ELSE torn[c]]

Init ==
    /\ accounts = {} /\ registered = {} /\ built = {} /\ grants = {}
    /\ req  = [s \in Slots |-> NoReq]
    /\ removing = {}
    /\ call = [c \in Calls |-> NoCall]
    /\ seen = [c \in Calls |-> {}]
    /\ kept = [c \in Calls |-> {}]
    /\ torn = [c \in Calls |-> {}]

-----------------------------------------------------------------------------
(* Accounts and grants *)

Free(s)     == req[s] = NoReq
End(s)      == req' = [req EXCEPT ![s] = NoReq]
Begin(s, r) == Free(s) /\ req' = [req EXCEPT ![s] = r]

(* Create or replace an account: the row is new, or only its password is. *)
Create(u) ==
    /\ accounts' = accounts \cup {u}
    /\ UNCHANGED <<registered, built, grants, api, call>>
    /\ Watch

(* Accounts named in the environment, when the database is initialised. *)
Seed(u) ==
    /\ u \notin accounts
    /\ accounts' = accounts \cup {u}
    /\ UNCHANGED <<registered, built, grants, api, call>>
    /\ Watch

(* ON DELETE CASCADE takes the user's grants. *)
DeleteUser(u) ==
    /\ u \in accounts
    /\ accounts' = accounts \ {u}
    /\ grants'   = {g \in grants : g[1] # u}
    /\ UNCHANGED <<registered, built, api, call>>
    /\ Watch

(* The check of a password change, and its upsert later. *)
PasswordCheck(s, u) ==
    /\ u \in accounts
    /\ Begin(s, [op |-> "password", user |-> u, drive |-> NoDrive])
    /\ UNCHANGED <<tables, removing, call, ghosts>>

PasswordUpsert(s) ==
    /\ req[s].op = "password"
    /\ accounts' = accounts \cup {req[s].user}
    /\ End(s)
    /\ UNCHANGED <<registered, built, grants, removing, call>>
    /\ Watch

(* The two checks of a scope change, and its statement later. *)
ScopeCheck(s, u, d, op) ==
    /\ u \in accounts /\ d \in registered
    /\ Begin(s, [op |-> op, user |-> u, drive |-> d])
    /\ UNCHANGED <<tables, removing, call, ghosts>>

\* Mutant: no foreign keys.
InsertGrantUnchecked(u, d) == grants' = grants \cup {<<u, d>>}

(* The foreign keys refuse a row whose user or drive has gone: error 500. *)
InsertGrant(u, d) ==
    grants' = IF u \in accounts /\ d \in registered THEN grants \cup {<<u, d>>} ELSE grants

ScopeSet(s) ==
    /\ \/ /\ req[s].op = "grant"
          /\ InsertGrant(req[s].user, req[s].drive)
       \/ /\ req[s].op = "revoke"
          /\ grants' = grants \ {<<req[s].user, req[s].drive>>}
    /\ End(s)
    /\ UNCHANGED <<accounts, registered, built, removing, call>>
    /\ Watch

-----------------------------------------------------------------------------
(* Drives *)

Register(d) ==
    /\ d \notin registered
    /\ registered' = registered \cup {d}
    /\ UNCHANGED <<accounts, built, grants, api, call>>
    /\ Watch

(* A worker of the daemon, perhaps one that has not noticed the removal. *)
Build(d) ==
    /\ d \notin built
    /\ built' = built \cup {d}
    /\ UNCHANGED <<accounts, registered, grants, api, call>>
    /\ Watch

(* DROP SCHEMA waits for the readers.  A rebuild stops here ... *)
DropSchema(d) ==
    /\ d \in registered
    /\ ~ReadLocked(d)
    /\ built' = built \ {d}
    /\ removing' \in {removing, removing \cup {d}}
    /\ UNCHANGED <<accounts, registered, grants, req, call>>
    /\ Watch

(* ... a removal deletes the row in a transaction of its own. *)
Unregister(d) ==
    /\ d \in removing
    /\ removing'   = removing \ {d}
    /\ registered' = registered \ {d}
    /\ grants'     = {g \in grants : g[2] # d}
    /\ UNCHANGED <<accounts, built, req, call>>
    /\ Watch

AdminStep ==
    \/ \E u \in Users : Create(u) \/ Seed(u) \/ DeleteUser(u)
    \/ \E d \in Drives : Register(d) \/ Build(d) \/ DropSchema(d) \/ Unregister(d)
    \/ \E s \in Slots :
        \/ \E u \in Users : PasswordCheck(s, u)
        \/ \E u \in Users, d \in Drives, op \in {"grant", "revoke"} : ScopeCheck(s, u, d, op)
        \/ PasswordUpsert(s) \/ ScopeSet(s)

-----------------------------------------------------------------------------
(* Tool calls *)

Step(c, r) == call' = [call EXCEPT ![c] = r] /\ UNCHANGED <<tables, api, ghosts>>
Finish(c, out, res) ==
    Step(c, [call[c] EXCEPT !.pc = "log", !.out = out, !.res = res, !.cand = {}, !.rest = {}])

(* A call comes in over HTTP, where its account must exist, or over the     *)
(* bridge, where the Lambda has its own list of credentials.               *)
Arrive(c, u, tool) ==
    /\ call[c].pc = "new"
    /\ call' = [call EXCEPT ![c] = [NoCall EXCEPT !.user = u, !.tool = tool, !.pc = "join"]]
    /\ seen' = [seen EXCEPT ![c] = Granted(u)]
    /\ kept' = [kept EXCEPT ![c] = Searchable(u)]
    /\ UNCHANGED <<tables, api, torn>>

ArriveHttp(c, u, tool)   == u \in accounts /\ Arrive(c, u, tool)
ArriveBridge(c, u, tool) == Arrive(c, u, tool)

\* Mutant: the drives of any user.
ResolveJoinAll(c) ==
    /\ call[c].pc = "join"
    /\ LET mine == {d \in registered : \E u \in Users : <<u, d>> \in grants}
       IN  Step(c, [call[c] EXCEPT !.pc = "namespace", !.cand = mine, !.rest = mine])

(* The caller's drives that are registered ... *)
ResolveJoin(c) ==
    /\ call[c].pc = "join"
    /\ LET mine == Granted(call[c].user) \cap registered
       IN  Step(c, [call[c] EXCEPT !.pc = "namespace", !.cand = mine, !.rest = mine])

\* Mutant: drives that are not built are searched too.
ResolveSchemaAll(c, d) ==
    /\ call[c].pc = "namespace" /\ d \in call[c].rest
    /\ Step(c, [call[c] EXCEPT !.rest = @ \ {d}])

(* ... and have a schema: one query of the catalogue each ... *)
ResolveSchema(c, d) ==
    /\ call[c].pc = "namespace" /\ d \in call[c].rest
    /\ Step(c, [call[c] EXCEPT !.rest = @ \ {d},
                               !.cand = IF d \in built THEN @ ELSE @ \ {d}])

(* ... are its scope.  The query is embedded before the next statement. *)
ResolveEnd(c) ==
    /\ call[c].pc = "namespace" /\ call[c].rest = {}
    /\ IF call[c].cand = {} /\ call[c].tool \in {"search", "lookup"}
       THEN Finish(c, "ok", {})
       ELSE Step(c, [call[c] EXCEPT !.pc = "read", !.rest = call[c].cand])

\* Mutant: a search that fails answers that there is nothing.
SearchAllQuiet(c) ==
    /\ call[c].pc = "read" /\ call[c].tool = "search"
    /\ Finish(c, "ok", IF call[c].cand \subseteq built THEN call[c].cand ELSE {})

(* One statement over all schemas: it fails if one of them has gone. *)
SearchAll(c) ==
    /\ call[c].pc = "read" /\ call[c].tool = "search"
    /\ IF call[c].cand \subseteq built
       THEN Finish(c, "ok", call[c].cand)
       ELSE Finish(c, "error", {})

ListScoped(c) ==
    /\ call[c].pc = "read" /\ call[c].tool = "list_drives"
    /\ Finish(c, "ok", call[c].cand \cap registered)

(* lookup stops at the first drive that has the file; stats counts in all. *)
ScanDrive(c, d) ==
    /\ call[c].pc = "read" /\ call[c].tool \in Scans
    /\ d \in call[c].rest
    /\ \/ /\ d \notin built
          /\ Finish(c, "error", {})
       \/ /\ d \in built /\ call[c].tool = "lookup"
          /\ Finish(c, "ok", {d})
       \/ /\ d \in built
          /\ Step(c, [call[c] EXCEPT !.rest = @ \ {d},
                        !.res = IF call[c].tool = "stats" THEN @ \cup {d} ELSE @])

(* Before it answers, stats adds up the file_count of every registered drive *)
(* whose flag search_enabled is set, whoever calls.  Two endpoints set and   *)
(* clear the flag, builds write the count, and nothing else modelled reads   *)
(* either: any registered drives may be the ones summed.                     *)
ScanEnd(c) ==
    /\ call[c].pc = "read" /\ call[c].tool \in Scans
    /\ call[c].rest = {}
    /\ \E sum \in SUBSET Drives :
        /\ sum \subseteq registered
        /\ call[c].tool = "lookup" => sum = {}
        /\ Step(c, [call[c] EXCEPT !.pc = "log", !.out = "ok", !.total = sum, !.cand = {}])

(* The session is closed; the call is logged in one of its own, then answered. *)
Log(c) ==
    /\ call[c].pc = "log"
    /\ call' = [call EXCEPT ![c] = NoCall]
    /\ seen' = [seen EXCEPT ![c] = {}]
    /\ kept' = [kept EXCEPT ![c] = {}]
    /\ torn' = [torn EXCEPT ![c] = {}]
    /\ UNCHANGED <<tables, api>>

CallStep(c) ==
    \/ \E u \in Users, tool \in Tools : ArriveHttp(c, u, tool) \/ ArriveBridge(c, u, tool)
    \/ ResolveJoin(c) \/ ResolveEnd(c)
    \/ SearchAll(c) \/ ListScoped(c) \/ ScanEnd(c) \/ Log(c)
    \/ \E d \in Drives : ResolveSchema(c, d) \/ ScanDrive(c, d)

Next == AdminStep \/ \E c \in Calls : CallStep(c)
Spec == Init /\ [][Next]_vars

-----------------------------------------------------------------------------
(* Properties *)

(* However accounts, grants and drives change under a call, it returns no  *)
(* chunk, no listing and no count of a drive that its user was not granted *)
(* at some time during it (src/src/mcp_server.py:158-171).  One exception: *)
(* total_files_approx of stats adds up other drives too                    *)
(* (src/src/mcp_server.py:347-350), against its docstring (line 330).      *)
ForeignOnlySummed ==
    \A c \in Calls :
        /\ call[c].res \subseteq seen[c]
        /\ ~(call[c].total \subseteq seen[c]) => call[c].tool = "stats"

(* A search or a listing that succeeds covers every drive its user could   *)
(* search all the while: changes to other drives make none of them vanish  *)
(* (src/src/mcp_server.py:202-255, src/src/db.py:1259-1307).               *)
NothingMissed ==
    \A c \in Calls :
        /\ call[c].pc = "log" /\ call[c].out = "ok" /\ call[c].tool # "lookup"
        => kept[c] \subseteq call[c].res

(* A tool fails only if a drive that its user was granted lost its schema   *)
(* under it: drives that were never built do not make it fail              *)
(* (src/src/db.py:784-812, src/src/mcp_server.py:202-255).                 *)
ErrorsExplained ==
    \A c \in Calls : call[c].out = "error" => torn[c] # {}

(* No grant outlives its account or its drive, so an account or a drive    *)
(* that is created again, by a password change under way too, starts with  *)
(* none (src/src/control_api.py:443-455, src/src/control_api.py:494-510).  *)
GrantsOwned == grants \subseteq accounts \X registered

=============================================================================
