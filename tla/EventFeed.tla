------------------------------ MODULE EventFeed ------------------------------
(***************************************************************************)
(* The event feed of the control API.  Any session of the daemon or of the *)
(* API inserts events; PostgreSQL takes their ids from a sequence at the   *)
(* insert and shows them at the commit.  The pump reads the events above   *)
(* the last id it has seen and puts each on the queue of every subscriber; *)
(* a handler per web socket takes them off.                                *)
(***************************************************************************)
EXTENDS Naturals, Sequences, FiniteSets

CONSTANTS
    Writers,        \* sessions that log events
    Sockets,        \* web sockets
    MaxEvents,      \* bound on the ids given out
    FetchLimit,     \* LIMIT of the pump's query
    QueueSize,      \* capacity of a subscriber's queue
    MaxRestarts     \* bound on restarts of the API

ASSUME FeedAssumption ==
    MaxEvents \in Nat /\ FetchLimit \in Nat \ {0} /\ QueueSize \in Nat \ {0} /\ MaxRestarts \in Nat

VARIABLES
    nextId,         \* the sequence behind daemon_events.id
    insert,         \* per writer: the id of an insert not yet committed, or 0
    events,         \* ids of the committed events
    late,           \* those committed when the pump had already passed their id
    lastId, rows,   \* the pump: last_id and the ids fetched, not yet pushed
    socket,         \* per socket: closed, subscribed, or open but dropped
    queue, got,     \* per socket: ids queued, and ids sent to the client
    from,           \* per socket: the first id it is to receive
    restarts

feedVars   == <<nextId, insert, events, late, lastId, rows, socket, queue, got, from, restarts>>
tableVars  == <<nextId, insert, events, late>>
socketVars == <<socket, queue, got, from>>

-----------------------------------------------------------------------------
FeedInit ==
    /\ nextId = 1 /\ events = {} /\ late = {}
    /\ insert = [w \in Writers |-> 0]
    /\ lastId = 0 /\ rows = {}
    /\ socket = [s \in Sockets |-> "closed"]
    /\ queue  = [s \in Sockets |-> <<>>]
    /\ got    = [s \in Sockets |-> <<>>]
    /\ from   = [s \in Sockets |-> 0]
    /\ restarts = 0

Insert(w) ==
    /\ insert[w] = 0 /\ nextId <= MaxEvents
    /\ insert' = [insert EXCEPT ![w] = nextId]
    /\ nextId' = nextId + 1
    /\ UNCHANGED <<events, late, lastId, rows, socketVars, restarts>>

Commit(w) ==
    /\ insert[w] # 0
    /\ insert' = [insert EXCEPT ![w] = 0]
    /\ events' = events \cup {insert[w]}
    /\ late'   = IF insert[w] <= lastId \/ \E r \in rows : insert[w] < r
                 THEN late \cup {insert[w]} ELSE late
    /\ UNCHANGED <<nextId, lastId, rows, socketVars, restarts>>

(* The id is used up. *)
Rollback(w) ==
    /\ insert[w] # 0
    /\ insert' = [insert EXCEPT ![w] = 0]
    /\ UNCHANGED <<nextId, events, late, lastId, rows, socketVars, restarts>>

-----------------------------------------------------------------------------
FirstN(above) == {e \in above : Cardinality({d \in above : d < e}) < FetchLimit}

\* Mutant: id >= last_id.
FeedFetchAgain ==
    /\ rows = {}
    /\ rows' = FirstN({e \in events : e >= lastId})
    /\ UNCHANGED <<tableVars, lastId, socketVars, restarts>>

(* id > last_id ORDER BY id LIMIT; a query that fails is tried again. *)
FeedFetch ==
    /\ rows = {}
    /\ rows' = FirstN({e \in events : e > lastId})
    /\ UNCHANGED <<tableVars, lastId, socketVars, restarts>>

Subscribed(s) == socket[s] = "subscribed"
Full(s)       == Len(queue[s]) >= QueueSize
Broadcast(e)  ==
    /\ queue'  = [s \in Sockets |->
                    IF Subscribed(s) /\ ~Full(s) THEN Append(queue[s], e) ELSE queue[s]]
    /\ socket' = [s \in Sockets |->
                    IF Subscribed(s) /\ Full(s) THEN "dropped" ELSE socket[s]]

\* Mutant: last_id is raised to the newest row fetched before the rows are pushed.
FeedPushFirst ==
    \E e, z \in rows :
        /\ \A d \in rows : e <= d /\ d <= z
        /\ lastId' = z
        /\ rows'   = {}
        /\ Broadcast(e)
        /\ UNCHANGED <<tableVars, got, from, restarts>>

(* One row, to every subscriber; one whose queue is full is dropped, and   *)
(* its handler not told.                                                   *)
FeedPush ==
    \E e \in rows :
        /\ \A d \in rows : e <= d
        /\ lastId' = IF e > lastId THEN e ELSE lastId
        /\ rows'   = rows \ {e}
        /\ Broadcast(e)
        /\ UNCHANGED <<tableVars, got, from, restarts>>

Subscribe(s) ==
    /\ socket[s] = "closed"
    /\ socket' = [socket EXCEPT ![s] = "subscribed"]
    /\ from'   = [from EXCEPT ![s] = lastId + 1]
    /\ UNCHANGED <<tableVars, lastId, rows, queue, got, restarts>>

SendText(s) ==
    /\ queue[s] # <<>>
    /\ got'   = [got EXCEPT ![s] = Append(@, Head(queue[s]))]
    /\ queue' = [queue EXCEPT ![s] = Tail(@)]
    /\ UNCHANGED <<tableVars, lastId, rows, socket, from, restarts>>

(* A disconnection is noticed when a message is sent. *)
Disconnect(s) ==
    /\ socket[s] # "closed" /\ queue[s] # <<>>
    /\ socket' = [socket EXCEPT ![s] = "closed"]
    /\ queue'  = [queue EXCEPT ![s] = <<>>]
    /\ got'    = [got EXCEPT ![s] = <<>>]
    /\ UNCHANGED <<tableVars, lastId, rows, from, restarts>>

(* Subscribers and last_id are lost with the process. *)
FeedRestart ==
    /\ restarts < MaxRestarts /\ restarts' = restarts + 1
    /\ lastId' = 0 /\ rows' = {} /\ late' = {}
    /\ socket' = [s \in Sockets |-> "closed"]
    /\ queue'  = [s \in Sockets |-> <<>>]
    /\ got'    = [s \in Sockets |-> <<>>]
    /\ UNCHANGED <<nextId, insert, events, from>>

FeedNext ==
    \/ \E w \in Writers : Insert(w) \/ Commit(w) \/ Rollback(w)
    \/ FeedFetch \/ FeedPush
    \/ \E s \in Sockets : Subscribe(s) \/ SendText(s) \/ Disconnect(s)
    \/ FeedRestart

FeedSpec == FeedInit /\ [][FeedNext]_feedVars

-----------------------------------------------------------------------------
(* Properties *)

Received(s) == got[s] \o queue[s]

(* A subscriber receives, in the order of their ids and once each, all the *)
(* events the pump has passed since it subscribed, except those committed  *)
(* after a greater id had been fetched                                     *)
(* (src/src/control_api.py:977-1041).                                      *)
FeedExact ==
    \A s \in Sockets : Subscribed(s) =>
        /\ \A i, j \in DOMAIN Received(s) : i < j => Received(s)[i] < Received(s)[j]
        /\ {Received(s)[i] : i \in DOMAIN Received(s)}
             = {e \in events \ late : from[s] <= e /\ e <= lastId}

(* An event that is not late reaches a subscriber that stays subscribed.   *)
FeedReaches ==
    \A s \in Sockets, e \in 1..MaxEvents :
        (Subscribed(s) /\ from[s] <= e /\ e \in events \ late)
            ~> (~Subscribed(s) \/ \E i \in DOMAIN got[s] : got[s][i] = e)

=============================================================================
