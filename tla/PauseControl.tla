----------------------------- MODULE PauseControl -----------------------------
(***************************************************************************)
(* The pause switch of the control API.  daemon_config['paused'] holds the *)
(* state and the time of the pause; each request is served by a thread     *)
(* that reads it twice, writes it, copies it into the statistics cache and *)
(* notes an event; the statistics pump copies it too, every five seconds,  *)
(* and a start of the API once.  Nothing orders the copies.                *)
(***************************************************************************)
EXTENDS Naturals

CONSTANTS
    Slots,          \* requests served at one time
    MaxRequests,    \* bound on the requests begun
    MaxFailures     \* bound on failed queries of the pump and restarts of the API

ASSUME PauseAssumption == MaxRequests \in Nat /\ MaxFailures \in Nat

VARIABLES
    config,         \* daemon_config['paused']: paused, and since when
    now,            \* the number of pauses written: the time of the next one
    cache,          \* what GET /api/stats answers
    req,            \* per slot: a pause or resume request
    pump,           \* _stats_pump: pc and the row it has fetched
    noted,          \* events daemon_paused and daemon_resumed
    up,             \* the API serves requests
    began, failures,
    was             \* per slot: the states of config while the request runs

pauseVars == <<config, now, cache, req, pump, noted, up, began, failures, was>>
bounds    == <<began, failures>>

-----------------------------------------------------------------------------
Running   == [paused |-> FALSE, since |-> 0]      \* also when the key is absent
Free      == [pc |-> "free", want |-> FALSE, prev |-> FALSE, state |-> Running]
AtRest    == [pc |-> "sleep", row |-> Running]
DefaultCache == [Running EXCEPT !.since = 0]

PauseInit ==
    /\ config = Running /\ now = 1
    /\ cache = DefaultCache
    /\ req = [s \in Slots |-> Free]
    /\ pump = AtRest
    /\ noted = {}
    /\ up = TRUE
    /\ began = 0 /\ failures = 0
    /\ was = [s \in Slots |-> {}]

Busy(s) == req[s].pc # "free"

(* The request reads the state to tell later whether it changed it. *)
Begin(s, want) ==
    /\ up /\ ~Busy(s)
    /\ began < MaxRequests /\ began' = began + 1
    /\ req' = [req EXCEPT ![s] =
                 [pc |-> "set", want |-> want, prev |-> config.paused, state |-> Running]]
    /\ was' = [was EXCEPT ![s] = {config}]
    /\ UNCHANGED <<config, now, cache, pump, noted, up, failures>>

\* Mutant: the state is not read again.
SetReadStale(s) ==
    /\ req[s].pc = "set"
    /\ req' = [req EXCEPT ![s] =
                 IF @.prev = @.want
                 THEN [@ EXCEPT !.pc = "push", !.state = config]
                 ELSE [@ EXCEPT !.pc = "write"]]
    /\ UNCHANGED <<config, now, cache, pump, noted, up, bounds, was>>

(* set_paused reads the state again: a request for the state it finds ends here, *)
SetRead(s) ==
    /\ req[s].pc = "set"
    /\ req' = [req EXCEPT ![s] =
                 IF config.paused = @.want
                 THEN [@ EXCEPT !.pc = "push", !.state = config]
                 ELSE [@ EXCEPT !.pc = "write"]]
    /\ UNCHANGED <<config, now, cache, pump, noted, up, bounds, was>>

(* any other replaces the row, whatever it holds by now. *)
NewState(want) == [paused |-> want, since |-> IF want THEN now ELSE 0]

SetWrite(s) ==
    /\ req[s].pc = "write"
    /\ LET new == NewState(req[s].want) IN
        /\ config' = new
        /\ req'    = [req EXCEPT ![s] = [@ EXCEPT !.pc = "push", !.state = new]]
        /\ was'    = [t \in Slots |-> IF Busy(t) THEN was[t] \cup {new} ELSE was[t]]
    /\ now' = IF req[s].want THEN now + 1 ELSE now
    /\ UNCHANGED <<cache, pump, noted, up, bounds>>

PushToCache(s) ==
    /\ req[s].pc = "push"
    /\ cache' = req[s].state
    /\ req' = [req EXCEPT ![s].pc = "note"]
    /\ UNCHANGED <<config, now, pump, noted, up, bounds, was>>

(* The event is noted if the first reading differed; an insert may fail. *)
Note(s) ==
    /\ req[s].pc = "note"
    /\ \/ /\ req[s].prev # req[s].want
          /\ noted' = noted \cup {req[s].state}
       \/ UNCHANGED noted
    /\ req' = [req EXCEPT ![s] = Free]
    /\ was' = [was EXCEPT ![s] = {}]
    /\ UNCHANGED <<config, now, cache, pump, up, bounds>>

PumpFetch ==
    /\ up /\ pump.pc = "sleep"
    /\ pump' = [pc |-> "apply", row |-> config]
    /\ UNCHANGED <<config, now, cache, req, noted, up, bounds, was>>

\* Mutant: the pump leaves the pause to the handlers.
PumpApplyKeepsPause ==
    /\ pump.pc = "apply"
    /\ pump' = AtRest
    /\ UNCHANGED <<config, now, cache, req, noted, up, bounds, was>>

PumpApply ==
    /\ pump.pc = "apply"
    /\ cache' = pump.row
    /\ pump'  = AtRest
    /\ UNCHANGED <<config, now, req, noted, up, bounds, was>>

Fail == failures < MaxFailures /\ failures' = failures + 1

(* The query fails: the cached pause stays, only pg_ok changes. *)
PumpFails ==
    /\ pump.pc = "apply"
    /\ Fail
    /\ pump' = AtRest
    /\ UNCHANGED <<config, now, cache, req, noted, up, began, was>>

(* The process ends: requests under way stop between two of their steps. *)
ApiCrash ==
    /\ up /\ Fail
    /\ up'    = FALSE
    /\ cache' = DefaultCache
    /\ req'   = [s \in Slots |-> Free]
    /\ was'   = [s \in Slots |-> {}]
    /\ pump'  = AtRest
    /\ UNCHANGED <<config, now, noted, began>>

(* The cache is filled before the first request is served, if the database answers. *)
ApiStart ==
    /\ ~up /\ up' = TRUE
    /\ cache' \in {config, DefaultCache}
    /\ UNCHANGED <<config, now, req, pump, noted, bounds, was>>

RequestStep(s) == SetRead(s) \/ SetWrite(s) \/ PushToCache(s) \/ Note(s)
PumpStep       == PumpFetch \/ PumpApply

PauseNext ==
    \/ \E s \in Slots : RequestStep(s) \/ \E want \in BOOLEAN : Begin(s, want)
    \/ PumpStep \/ PumpFails
    \/ ApiCrash \/ ApiStart

PauseSpec == PauseInit /\ [][PauseNext]_pauseVars

-----------------------------------------------------------------------------
(* Properties *)

(* What a request answers was the state at some time while it ran, however *)
(* opposite requests cross (src/src/db.py:920-947).                        *)
Acknowledged ==
    \A s \in Slots : req[s].pc \in {"push", "note"} =>
        req[s].state.paused = req[s].want /\ req[s].state \in was[s]

(* Handlers and the pump may write old states over new ones in the cache,  *)
(* but once requests and restarts have ceased it shows the state that the  *)
(* daemon obeys (src/src/control_api.py:687-765).                          *)
CacheSettles == <>[](up /\ cache = config)

=============================================================================
