-------------------------- MODULE ControlApiProofs --------------------------
(***************************************************************************)
(* Theorems about the control API: PauseControl, for any number of         *)
(* requests at one time, CountPump, for any drives and concurrent counts,  *)
(* and EventFeed, for any sessions that log and any web sockets.           *)
(***************************************************************************)
EXTENDS PauseControl, CountPump, EventFeed, FiniteSetTheorems, SequenceTheorems, TLAPS

(* While a request runs the present state is among those it may report.    *)
PauseInv ==
    /\ config \in [paused : BOOLEAN, since : Nat]
    /\ now \in Nat
    /\ req \in [Slots -> [pc : {"free", "set", "write", "push", "note"}, want : BOOLEAN,
                          prev : BOOLEAN, state : [paused : BOOLEAN, since : Nat]]]
    /\ was \in [Slots -> SUBSET [paused : BOOLEAN, since : Nat]]
    /\ \A s \in Slots : Busy(s) => config \in was[s]
    /\ Acknowledged

(* A request that is answered reports a state that held while it ran and   *)
(* that it asked for, however requests and the pump cross                  *)
(* (src/src/db.py:920-947).                                                *)
THEOREM AnswersTrue == PauseSpec => []Acknowledged
<1> DEFINE Row == [paused : BOOLEAN, since : Nat]
           Request == [pc : {"free", "set", "write", "push", "note"}, want : BOOLEAN,
                       prev : BOOLEAN, state : Row]
<1>1. Running \in Row /\ Free \in Request /\ Free.pc = "free"
  BY DEF Running, Free
<1>2. PauseInit => PauseInv
  BY <1>1 DEF PauseInit, PauseInv, Busy, Acknowledged, Running
<1>3. PauseInv /\ [PauseNext]_pauseVars => PauseInv'
  <2> SUFFICES ASSUME PauseInv, [PauseNext]_pauseVars PROVE PauseInv'
    OBVIOUS
  <2>0. /\ config \in Row /\ now \in Nat /\ req \in [Slots -> Request]
        /\ was \in [Slots -> SUBSET Row]
        /\ \A s \in Slots : Busy(s) => config \in was[s]
        /\ \A s \in Slots : req[s].pc \in {"push", "note"} =>
              req[s].state.paused = req[s].want /\ req[s].state \in was[s]
    BY DEF PauseInv, Acknowledged
  <2> HIDE DEF Row, Request
  <2>1. ASSUME NEW s \in Slots, NEW r \in Request, req' = [req EXCEPT ![s] = r],
               UNCHANGED <<config, now>>,
               NEW w \in SUBSET Row, was' = [was EXCEPT ![s] = w],
               r.pc # "free" => config \in w,
               r.pc \in {"push", "note"} => r.state.paused = r.want /\ r.state \in w
        PROVE  PauseInv'
    <3>1. req' \in [Slots -> Request] /\ was' \in [Slots -> SUBSET Row]
      BY <2>0, <2>1
    <3>2. ASSUME NEW t \in Slots
          PROVE  /\ req'[t].pc # "free" => config \in was'[t]
                 /\ req'[t].pc \in {"push", "note"} =>
                      req'[t].state.paused = req'[t].want /\ req'[t].state \in was'[t]
      <4>1. CASE t = s
        BY <2>0, <2>1, <4>1
      <4>2. CASE t # s
        BY <2>0, <2>1, <4>2 DEF Busy
      <4> QED BY <4>1, <4>2
    <3> QED BY <2>0, <2>1, <3>1, <3>2 DEF PauseInv, Acknowledged, Busy, Row, Request
  <2>2. ASSUME NEW s \in Slots, NEW want \in BOOLEAN, Begin(s, want) PROVE PauseInv'
    <3> DEFINE r == [pc |-> "set", want |-> want, prev |-> config.paused, state |-> Running]
    <3>1. r \in Request /\ r.pc = "set"
      BY <1>1, <2>0 DEF Request, Row
    <3>2. req' = [req EXCEPT ![s] = r] /\ was' = [was EXCEPT ![s] = {config}]
          /\ UNCHANGED <<config, now>>
      BY <2>2 DEF Begin
    <3>3. {config} \in SUBSET Row
      BY <2>0
    <3> HIDE DEF r
    <3> QED BY <2>1, <3>1, <3>2, <3>3
  <2>3. ASSUME NEW s \in Slots, SetRead(s) PROVE PauseInv'
    <3> DEFINE r == [req[s] EXCEPT !.pc = "push", !.state = config]
               q == [req[s] EXCEPT !.pc = "write"]
    <3>1. req[s] \in Request /\ req[s].pc = "set"
      BY <2>0, <2>3 DEF SetRead
    <3>2. /\ r \in Request /\ r.pc = "push" /\ r.state = config /\ r.want = req[s].want
          /\ q \in Request /\ q.pc = "write"
      BY <2>0, <3>1 DEF Request
    <3>3. config \in was[s] /\ was[s] \in SUBSET Row /\ was' = [was EXCEPT ![s] = was[s]]
      BY <2>0, <2>3, <3>1 DEF SetRead, Busy
    <3>4. UNCHANGED <<config, now>>
      BY <2>3 DEF SetRead
    <3>5. CASE config.paused = req[s].want
      <4>1. req' = [req EXCEPT ![s] = r]
        BY <2>3, <3>5 DEF SetRead
      <4> HIDE DEF r, q
      <4> QED BY <2>1, <3>2, <3>3, <3>4, <3>5, <4>1
    <3>6. CASE config.paused # req[s].want
      <4>1. req' = [req EXCEPT ![s] = q]
        BY <2>3, <3>6 DEF SetRead
      <4> HIDE DEF r, q
      <4> QED BY <2>1, <3>2, <3>3, <3>4, <4>1
    <3> QED BY <3>5, <3>6
  <2>4. ASSUME NEW s \in Slots, SetWrite(s) PROVE PauseInv'
    <3> DEFINE new == NewState(req[s].want)
               r   == [req[s] EXCEPT !.pc = "push", !.state = new]
    <3>1. req[s] \in Request /\ req[s].pc = "write"
      BY <2>0, <2>4 DEF SetWrite
    <3>2. new \in Row /\ new.paused = req[s].want
      BY <2>0, <3>1 DEF NewState, Row, Request
    <3>3. config' = new
          /\ was' = [t \in Slots |-> IF Busy(t) THEN was[t] \cup {new} ELSE was[t]]
          /\ req' = [req EXCEPT ![s] = [@ EXCEPT !.pc = "push", !.state = new]]
      BY <2>4 DEF SetWrite
    <3>9. now' \in Nat
      BY <2>0, <2>4 DEF SetWrite
    <3>4. r \in Request /\ r.pc = "push" /\ r.state = new /\ r.want = req[s].want
      BY <3>1, <3>2 DEF Request
    <3>5. req' = [req EXCEPT ![s] = r]
      BY <3>3
    <3> HIDE DEF new, r
    <3>6. req' \in [Slots -> Request] /\ was' \in [Slots -> SUBSET Row]
      BY <2>0, <3>2, <3>3, <3>4, <3>5
    <3>7. ASSUME NEW t \in Slots
          PROVE  /\ req'[t].pc # "free" => new \in was'[t]
                 /\ req'[t].pc \in {"push", "note"} =>
                      req'[t].state.paused = req'[t].want /\ req'[t].state \in was'[t]
      <4>1. CASE t = s
        BY <2>0, <3>1, <3>2, <3>3, <3>4, <3>5, <4>1 DEF Busy
      <4>2. CASE t # s
        BY <2>0, <3>3, <3>5, <4>2 DEF Busy
      <4> QED BY <4>1, <4>2
    <3> QED BY <3>2, <3>3, <3>9, <3>6, <3>7 DEF PauseInv, Acknowledged, Busy, Row, Request
  <2>5. ASSUME NEW s \in Slots, PushToCache(s) PROVE PauseInv'
    <3> DEFINE r == [req[s] EXCEPT !.pc = "note"]
    <3>1. req[s] \in Request /\ req[s].pc = "push"
      BY <2>0, <2>5 DEF PushToCache
    <3>2. r \in Request /\ r.pc = "note" /\ r.state = req[s].state /\ r.want = req[s].want
      BY <3>1 DEF Request
    <3>3. req' = [req EXCEPT ![s] = r] /\ UNCHANGED <<config, now, was>>
      BY <2>5 DEF PushToCache
    <3>4. was[s] \in SUBSET Row /\ was' = [was EXCEPT ![s] = was[s]] /\ config \in was[s]
      BY <2>0, <3>1, <3>3 DEF Busy
    <3> HIDE DEF r
    <3> QED BY <2>0, <2>1, <3>1, <3>2, <3>3, <3>4, ZenonT(60)
  <2>6. ASSUME NEW s \in Slots, Note(s) PROVE PauseInv'
    BY <1>1, <2>1, <2>6 DEF Note, Request, Row
  <2>7. ASSUME UNCHANGED <<config, now, req, was>> PROVE PauseInv'
    BY <2>7 DEF PauseInv, Acknowledged, Busy
  <2>8. CASE PumpStep \/ PumpFails \/ ApiStart \/ UNCHANGED pauseVars
    BY <2>7, <2>8 DEF PumpStep, PumpFetch, PumpApply, PumpFails, ApiStart, pauseVars
  <2>9. CASE ApiCrash
    <3>1. /\ config' = config /\ now' = now /\ req' = [s \in Slots |-> Free]
          /\ was' = [s \in Slots |-> {}]
      BY <2>9 DEF ApiCrash
    <3> QED BY <1>1, <2>0, <3>1 DEF PauseInv, Acknowledged, Busy, Row, Request
  <2> QED
    BY <2>2, <2>3, <2>4, <2>5, <2>6, <2>8, <2>9 DEF PauseNext, RequestStep
<1>4. PauseInv => Acknowledged
  BY DEF PauseInv
<1> QED
  BY <1>2, <1>3, <1>4, PTL DEF PauseSpec

-----------------------------------------------------------------------------
(* The drives about to be started have no task. *)
CountInv ==
    /\ tasks \in [CDrives -> Nat] /\ counting \in [CDrives -> Nat]
    /\ inFlight \subseteq CDrives
    /\ pc = "launch" => todo \subseteq CDrives \ inFlight
    /\ OneTask

(* At most one task of the pump for a drive, although it launches from a   *)
(* reading of the registry that is older than the tasks it has started     *)
(* (src/src/control_api.py:885-934).                                       *)
THEOREM OneTaskPerDrive == CountSpec => []OneTask
<1>1. CountInit => CountInv
  BY DEF CountInit, CountInv, OneTask
<1>2. CountInv /\ [CountNext]_countVars => CountInv'
  <2> SUFFICES ASSUME CountInv, [CountNext]_countVars PROVE CountInv'
    OBVIOUS
  <2> USE DEF CountInv, OneTask
  <2>1. CASE CountFetch
    BY <2>1 DEF CountFetch, taskVars
  <2>2. CASE CountSelect
    BY <2>2 DEF CountSelect, taskVars
  <2>3. ASSUME NEW d \in CDrives, Launch(d) PROVE CountInv'
    <3>1. d \notin inFlight /\ tasks[d] + counting[d] = 0
      BY <2>3 DEF Launch
    <3> QED BY <2>3, <3>1 DEF Launch
  <2>4. ASSUME NEW d \in CDrives, Acquire(d) PROVE CountInv'
    BY <2>4 DEF Acquire
  <2>5. ASSUME NEW d \in CDrives, CountOne(d) PROVE CountInv'
    BY <2>5 DEF CountOne
  <2>6. ASSUME UNCHANGED <<tasks, counting, inFlight, todo, pc>> PROVE CountInv'
    BY <2>6
  <2> QED
    BY <2>1, <2>2, <2>3, <2>4, <2>5, <2>6 DEF CountNext, RefreshBegin, RefreshEnd, Discover,
       GrowStale, taskVars, countVars
<1>3. CountInv => OneTask
  BY DEF CountInv
<1> QED
  BY <1>1, <1>2, <1>3, PTL DEF CountSpec

-----------------------------------------------------------------------------
(* EventFeed *)

FeedTypes ==
    /\ nextId \in Nat /\ lastId \in Nat
    /\ insert \in [Writers -> Nat]
    /\ events \in SUBSET Nat /\ IsFiniteSet(events) /\ late \in SUBSET Nat /\ rows \in SUBSET events
    /\ socket \in [Sockets -> {"closed", "subscribed", "dropped"}]
    /\ queue \in [Sockets -> Seq(Nat)] /\ got \in [Sockets -> Seq(Nat)]
    /\ from \in [Sockets -> Nat]

(* An id is given out once. *)
IdsUnique ==
    /\ \A e \in events : e < nextId
    /\ \A w \in Writers : insert[w] < nextId /\ insert[w] \notin events
    /\ \A v, w \in Writers : v # w /\ insert[v] # 0 => insert[v] # insert[w]
    /\ 0 \notin events /\ nextId > 0

(* What is fetched has no gap but for the late ones, which were passed.    *)
RowsComplete ==
    /\ \A r \in rows : r > lastId /\ r \notin late
    /\ \A e \in events \ late : \A r \in rows : lastId < e /\ e < r => e \in rows
    /\ \A e \in late : e <= lastId \/ \E r \in rows : e < r

Passed(s, ev, la, last, fr) == {e \in ev \ la : fr[s] <= e /\ e <= last}
Exactly(seq, S) ==
    /\ \A i, j \in DOMAIN seq : i < j => seq[i] < seq[j]
    /\ {seq[i] : i \in DOMAIN seq} = S

SocketsExact ==
    \A s \in Sockets :
        /\ socket[s] = "closed" => queue[s] = <<>> /\ got[s] = <<>>
        /\ socket[s] = "subscribed" =>
            /\ from[s] <= lastId + 1
            /\ Exactly(got[s] \o queue[s], Passed(s, events, late, lastId, from))

FeedInv == FeedTypes /\ IdsUnique /\ RowsComplete /\ SocketsExact

-----------------------------------------------------------------------------
(* A sequence of ids that has got a greater one. *)
LEMMA Extended ==
  ASSUME NEW n \in Nat, NEW t, NEW u, NEW e \in Nat, NEW S \in SUBSET Nat,
         DOMAIN t = 1 .. n, DOMAIN u = 1 .. n + 1, \A i \in 1 .. n : u[i] = t[i], u[n + 1] = e,
         Exactly(t, S), \A d \in S : d < e
  PROVE  Exactly(u, S \cup {e})
<1>1. \A i \in 1 .. n + 1 : i \in 1 .. n \/ i = n + 1
  OBVIOUS
<1>2. \A i \in 1 .. n : t[i] \in S /\ i \in DOMAIN t /\ i \in 1 .. n + 1
  BY DEF Exactly
<1>3. ASSUME NEW i \in 1 .. n + 1, NEW j \in 1 .. n + 1, i < j PROVE u[i] < u[j]
  <2>1. i \in 1 .. n
    BY <1>3
  <2>2. CASE j = n + 1
    BY <1>2, <2>1, <2>2
  <2>3. CASE j \in 1 .. n
    BY <1>2, <1>3, <2>1, <2>3 DEF Exactly
  <2> QED BY <1>1, <2>2, <2>3
<1>4. \A i \in 1 .. n + 1 : u[i] \in S \cup {e}
  BY <1>1, <1>2
<1>5. ASSUME NEW d \in S \cup {e} PROVE \E i \in 1 .. n + 1 : u[i] = d
  <2>1. CASE d = e
    <3>1. n + 1 \in 1 .. n + 1
      OBVIOUS
    <3> QED BY <2>1, <3>1
  <2>2. CASE d \in S
    <3>1. PICK i \in DOMAIN t : t[i] = d
      BY <2>2 DEF Exactly
    <3>2. i \in 1 .. n
      BY <3>1
    <3>3. i \in 1 .. n + 1 /\ u[i] = d
      BY <1>2, <3>1, <3>2
    <3> QED BY <3>3
  <2> QED BY <2>1, <2>2
<1>6. {u[i] : i \in DOMAIN u} = S \cup {e}
  BY <1>4, <1>5
<1> QED BY <1>3, <1>6 DEF Exactly

LEMMA OneMore ==
  ASSUME NEW g \in Seq(Nat), NEW q \in Seq(Nat), NEW e \in Nat, NEW S \in SUBSET Nat,
         Exactly(g \o q, S), \A d \in S : d < e
  PROVE  Exactly(g \o Append(q, e), S \cup {e})
<1> DEFINE t == g \o q
           u == g \o Append(q, e)
           a == Append(q, e)
           k == Len(g)
           m == Len(q)
<1>1. /\ t \in Seq(Nat) /\ k \in Nat /\ m \in Nat /\ Len(t) = k + m
      /\ \A i \in 1 .. k + m : t[i] = IF i <= k THEN g[i] ELSE q[i - k]
  BY ConcatProperties, LenProperties
<1>2. /\ a \in Seq(Nat) /\ Len(a) = m + 1
      /\ \A i \in 1 .. m : a[i] = q[i]
      /\ a[m + 1] = e
  BY AppendProperties
<1>3. /\ u \in Seq(Nat) /\ Len(u) = k + Len(a)
      /\ \A i \in 1 .. k + Len(a) : u[i] = IF i <= k THEN g[i] ELSE a[i - k]
  BY <1>1, <1>2, ConcatProperties
<1>4. DOMAIN u = 1 .. Len(u) /\ DOMAIN t = 1 .. Len(t)
  BY <1>1, <1>3, LenProperties
<1>5. Exactly(t, S)
  OBVIOUS
<1> HIDE DEF t, u, a, k, m
<1>6. k + m \in Nat /\ Len(u) = (k + m) + 1
  BY <1>1, <1>2, <1>3
<1>7. ASSUME NEW i \in 1 .. k + m PROVE u[i] = t[i]
  <2>1. i \in 1 .. k + Len(a)
    BY <1>1, <1>2
  <2>2. CASE i <= k
    BY <1>1, <1>3, <2>1, <2>2
  <2>3. CASE ~(i <= k)
    <3>1. i - k \in 1 .. m
      BY <1>1, <2>3
    <3> QED BY <1>1, <1>2, <1>3, <2>1, <2>3, <3>1
  <2> QED BY <2>2, <2>3
<1>8. u[(k + m) + 1] = e
  <2>1. /\ (k + m) + 1 \in 1 .. k + Len(a) /\ ~((k + m) + 1 <= k)
        /\ ((k + m) + 1) - k = m + 1
    BY <1>1, <1>2
  <2> QED BY <1>2, <1>3, <2>1
<1>9. Exactly(u, S \cup {e})
  <2> DEFINE n == k + m
  <2>1. n \in Nat /\ DOMAIN t = 1 .. n /\ DOMAIN u = 1 .. n + 1 /\ u[n + 1] = e
        /\ \A i \in 1 .. n : u[i] = t[i]
    BY <1>1, <1>4, <1>6, <1>7, <1>8
  <2> HIDE DEF n
  <2> QED BY <1>5, <2>1, Extended
<1> QED BY <1>9 DEF u

(* What is sent goes from the queue to the client. *)
LEMMA SentOn ==
  ASSUME NEW g \in Seq(Nat), NEW q \in Seq(Nat), q # <<>>
  PROVE  /\ Append(g, Head(q)) \in Seq(Nat) /\ Tail(q) \in Seq(Nat)
         /\ Append(g, Head(q)) \o Tail(q) = g \o q
<1> DEFINE a == Append(g, Head(q))
           t == Tail(q)
<1>1. /\ Head(q) \in Nat /\ t \in Seq(Nat) /\ Len(t) = Len(q) - 1 /\ Len(q) \in Nat \ {0}
      /\ \A i \in 1 .. Len(t) : t[i] = q[i + 1]
  BY HeadTailProperties, EmptySeq
<1>h. Head(q) = q[1]
  OBVIOUS
<1>2. /\ a \in Seq(Nat) /\ Len(a) = Len(g) + 1 /\ Len(g) \in Nat
      /\ \A i \in 1 .. Len(g) : a[i] = g[i]
      /\ a[Len(g) + 1] = q[1]
  BY <1>1, <1>h, AppendProperties, LenProperties
<1> HIDE DEF a, t
<1>3. /\ a \o t \in Seq(Nat) /\ Len(a \o t) = Len(a) + Len(t)
      /\ \A i \in 1 .. Len(a) + Len(t) : (a \o t)[i] = IF i <= Len(a) THEN a[i] ELSE t[i - Len(a)]
  BY <1>1, <1>2, ConcatProperties
<1>4. /\ g \o q \in Seq(Nat) /\ Len(g \o q) = Len(g) + Len(q)
      /\ \A i \in 1 .. Len(g) + Len(q) : (g \o q)[i] = IF i <= Len(g) THEN g[i] ELSE q[i - Len(g)]
  BY ConcatProperties
<1>5. Len(a \o t) = Len(g \o q)
  BY <1>1, <1>2, <1>3, <1>4
<1>6. ASSUME NEW i \in 1 .. Len(g \o q) PROVE (a \o t)[i] = (g \o q)[i]
  <2>0. i \in 1 .. Len(g) + Len(q) /\ i \in 1 .. Len(a) + Len(t)
    BY <1>4, <1>3, <1>5
  <2>1. CASE i <= Len(g)
    BY <1>2, <1>3, <1>4, <2>0, <2>1
  <2>2. CASE i = Len(g) + 1
    BY <1>2, <1>3, <1>4, <2>0, <2>2
  <2>3. CASE i > Len(g) + 1
    <3>1. i - Len(a) \in 1 .. Len(t) /\ i - Len(a) + 1 = i - Len(g)
      BY <1>1, <1>2, <2>0, <2>3
    <3>2. t[i - Len(a)] = q[i - Len(g)]
      BY <1>1, <3>1
    <3>3. ~(i <= Len(a)) /\ ~(i <= Len(g))
      BY <1>2, <2>0, <2>3
    <3>4. (a \o t)[i] = t[i - Len(a)]
      BY <1>3, <2>0, <3>3
    <3>5. (g \o q)[i] = q[i - Len(g)]
      BY <1>4, <2>0, <3>3
    <3> QED BY <3>2, <3>4, <3>5
  <2>4. i <= Len(g) \/ i = Len(g) + 1 \/ i > Len(g) + 1
    BY <1>2, <2>0
  <2> QED BY <2>1, <2>2, <2>3, <2>4
<1>7. a \o t = g \o q
  BY <1>3, <1>4, <1>5, <1>6, SeqEqual
<1> QED BY <1>1, <1>2, <1>7 DEF a, t

(* A query returns the least ids: what is below one of them is one of them. *)
LEMMA LeastFirst ==
  ASSUME NEW above \in SUBSET Nat, IsFiniteSet(above), FetchLimit \in Nat,
         NEW r \in FirstN(above), NEW e \in above, e < r
  PROVE  e \in FirstN(above)
<1> DEFINE A == {d \in above : d < e}
           B == {d \in above : d < r}
<1>1. r \in above /\ r \in Nat /\ e \in Nat
  BY DEF FirstN
<1>2. A \in SUBSET B /\ B \in SUBSET above
  <2>1. \A d \in above : d < e => d < r
    BY <1>1
  <2> QED BY <2>1
<1>3. IsFiniteSet(B)
  BY <1>2, FS_Subset
<1>4. IsFiniteSet(A)
  BY <1>2, <1>3, FS_Subset
<1>5. Cardinality(A) <= Cardinality(B) /\ Cardinality(A) \in Nat /\ Cardinality(B) \in Nat
  BY <1>2, <1>3, <1>4, FS_Subset, FS_CardinalityType
<1>6. Cardinality(B) < FetchLimit
  BY DEF FirstN
<1>7. Cardinality(A) < FetchLimit
  <2> HIDE DEF A, B
  <2> QED BY <1>5, <1>6
<1> QED BY <1>7 DEF FirstN

-----------------------------------------------------------------------------
LEMMA FeedStep == FeedInv /\ [FeedNext]_feedVars => FeedInv'
<1> SUFFICES ASSUME FeedInv, [FeedNext]_feedVars PROVE FeedInv'
  OBVIOUS
<1>0. /\ nextId \in Nat /\ lastId \in Nat /\ insert \in [Writers -> Nat]
      /\ events \in SUBSET Nat /\ IsFiniteSet(events) /\ late \in SUBSET Nat /\ rows \in SUBSET events
      /\ socket \in [Sockets -> {"closed", "subscribed", "dropped"}]
      /\ queue \in [Sockets -> Seq(Nat)] /\ got \in [Sockets -> Seq(Nat)]
      /\ from \in [Sockets -> Nat] /\ FetchLimit \in Nat \ {0}
  BY FeedAssumption DEF FeedInv, FeedTypes
<1>1. ASSUME NEW w \in Writers, Insert(w) PROVE FeedInv'
  <2>1. /\ insert' = [insert EXCEPT ![w] = nextId] /\ nextId' = nextId + 1
        /\ UNCHANGED <<events, late, lastId, rows, socket, queue, got, from>>
    BY <1>1 DEF Insert, socketVars
  <2>2. \A v \in Writers : insert'[v] = IF v = w THEN nextId ELSE insert[v]
    BY <1>0, <2>1
  <2>3. FeedTypes'
    BY <1>0, <2>1 DEF FeedTypes
  <2>4. IdsUnique'
    BY <1>0, <2>1, <2>2 DEF FeedInv, IdsUnique
  <2>5. RowsComplete' /\ SocketsExact'
    BY <2>1 DEF FeedInv, RowsComplete, SocketsExact
  <2> QED BY <2>3, <2>4, <2>5 DEF FeedInv
<1>2. ASSUME NEW w \in Writers, Commit(w) PROVE FeedInv'
  <2> DEFINE e == insert[w]
  <2>1. /\ insert' = [insert EXCEPT ![w] = 0] /\ e # 0 /\ events' = events \cup {e}
        /\ late' = IF e <= lastId \/ \E r \in rows : e < r THEN late \cup {e} ELSE late
        /\ UNCHANGED <<nextId, lastId, rows, socket, queue, got, from>>
    BY <1>2 DEF Commit, socketVars
  <2>2. \A v \in Writers : insert'[v] = IF v = w THEN 0 ELSE insert[v]
    BY <1>0, <2>1
  <2>3. e \in Nat /\ e \notin events /\ e < nextId
    BY <1>0 DEF FeedInv, IdsUnique
  <2>4. FeedTypes'
    <3>1. IsFiniteSet(events')
      BY <1>0, <2>1, FS_AddElement
    <3> QED BY <1>0, <2>1, <2>3, <3>1 DEF FeedTypes
  <2>5. IdsUnique'
    BY <1>0, <2>1, <2>2, <2>3 DEF FeedInv, IdsUnique
  <2>l. \/ late' = late \cup {e} /\ (e <= lastId \/ \E r \in rows : e < r)
        \/ late' = late /\ e > lastId /\ \A r \in rows : ~(e < r)
    BY <1>0, <2>1, <2>3
  <2>6. RowsComplete'
    BY <1>0, <2>1, <2>3, <2>l DEF FeedInv, RowsComplete
  <2>7. \A s \in Sockets : Passed(s, events', late', lastId, from) = Passed(s, events, late, lastId, from)
    BY <1>0, <2>1, <2>3, <2>l DEF Passed
  <2>8. SocketsExact'
    BY <2>1, <2>7 DEF FeedInv, SocketsExact
  <2> QED BY <2>4, <2>5, <2>6, <2>8 DEF FeedInv
<1>3. ASSUME NEW w \in Writers, Rollback(w) PROVE FeedInv'
  <2>1. /\ insert' = [insert EXCEPT ![w] = 0]
        /\ UNCHANGED <<nextId, events, late, lastId, rows, socket, queue, got, from>>
    BY <1>3 DEF Rollback, socketVars
  <2>2. \A v \in Writers : insert'[v] = IF v = w THEN 0 ELSE insert[v]
    BY <1>0, <2>1
  <2>3. FeedTypes'
    BY <1>0, <2>1 DEF FeedTypes
  <2>4. IdsUnique'
    BY <1>0, <2>1, <2>2 DEF FeedInv, IdsUnique
  <2>5. RowsComplete' /\ SocketsExact'
    BY <2>1 DEF FeedInv, RowsComplete, SocketsExact
  <2> QED BY <2>3, <2>4, <2>5 DEF FeedInv
<1>4. CASE FeedFetch
  <2> DEFINE above == {e \in events : e > lastId}
  <2>1. /\ rows = {} /\ rows' = FirstN(above)
        /\ UNCHANGED <<nextId, insert, events, late, lastId, socket, queue, got, from>>
    BY <1>4 DEF FeedFetch, tableVars, socketVars
  <2>2. above \in SUBSET Nat /\ IsFiniteSet(above) /\ rows' \in SUBSET above
    <3>1. above \in SUBSET events
      OBVIOUS
    <3> QED BY <1>0, <2>1, <3>1, FS_Subset DEF FirstN
  <2>3. FeedTypes'
    BY <1>0, <2>1, <2>2 DEF FeedTypes
  <2>4. IdsUnique' /\ SocketsExact'
    BY <2>1 DEF FeedInv, IdsUnique, SocketsExact
  <2>5. RowsComplete'
    <3>1. \A r \in rows' : r > lastId /\ r \notin late
      <4>1. \A r \in rows' : r \in events /\ r > lastId
        BY <2>2
      <4>2. \A e \in late : e <= lastId
        BY <2>1 DEF FeedInv, RowsComplete
      <4>3. ASSUME NEW r \in rows', r \in late PROVE FALSE
        <5>1. r \in Nat /\ r > lastId /\ r <= lastId
          BY <1>0, <4>1, <4>2, <4>3
        <5> QED BY <1>0, <5>1
      <4> QED BY <4>1, <4>3
    <3>2. ASSUME NEW e \in events \ late, NEW r \in rows', lastId < e, e < r PROVE e \in rows'
      <4>1. e \in above
        BY <1>0, <3>2
      <4> QED BY <1>0, <2>1, <2>2, <3>2, <4>1, LeastFirst
    <3>3. \A e \in late : e <= lastId
      BY <2>1 DEF FeedInv, RowsComplete
    <3> QED BY <2>1, <3>1, <3>2, <3>3 DEF RowsComplete
  <2> QED BY <2>3, <2>4, <2>5 DEF FeedInv
<1>5. CASE FeedPush
  <2>1. PICK e \in rows :
          /\ \A d \in rows : e <= d
          /\ lastId' = IF e > lastId THEN e ELSE lastId
          /\ rows' = rows \ {e}
          /\ queue' = [s \in Sockets |->
                         IF Subscribed(s) /\ ~Full(s) THEN Append(queue[s], e) ELSE queue[s]]
          /\ socket' = [s \in Sockets |->
                          IF Subscribed(s) /\ Full(s) THEN "dropped" ELSE socket[s]]
          /\ UNCHANGED <<nextId, insert, events, late, got, from>>
    BY <1>5 DEF FeedPush, Broadcast, tableVars
  <2>2. e \in Nat /\ e > lastId /\ e \in events \ late /\ lastId' = e
    BY <1>0, <2>1 DEF FeedInv, RowsComplete
  <2>3. FeedTypes'
    <3>1. \A s \in Sockets : Append(queue[s], e) \in Seq(Nat)
      BY <1>0, <2>2, AppendProperties
    <3>2. queue' \in [Sockets -> Seq(Nat)]
      BY <1>0, <2>1, <3>1
    <3>3. socket' \in [Sockets -> {"closed", "subscribed", "dropped"}]
      BY <1>0, <2>1
    <3> QED BY <1>0, <2>1, <2>2, <3>2, <3>3 DEF FeedTypes
  <2>4. IdsUnique'
    BY <2>1 DEF FeedInv, IdsUnique
  <2>5. RowsComplete'
    <3>1. \A r \in rows' : r > e /\ r \notin late
      BY <1>0, <2>1, <2>2 DEF FeedInv, RowsComplete
    <3>2. \A d \in events \ late : \A r \in rows' : e < d /\ d < r => d \in rows'
      BY <1>0, <2>1, <2>2 DEF FeedInv, RowsComplete
    <3>3. ASSUME NEW d \in late, ~(d <= e) PROVE \E r \in rows' : d < r
      BY <1>0, <2>1, <2>2, <3>3 DEF FeedInv, RowsComplete
    <3> QED BY <2>1, <2>2, <3>1, <3>2, <3>3 DEF RowsComplete
  <2>6. SocketsExact'
    <3> SUFFICES ASSUME NEW s \in Sockets
        PROVE  /\ socket'[s] = "closed" => queue'[s] = <<>> /\ got[s] = <<>>
               /\ socket'[s] = "subscribed" =>
                   /\ from[s] <= e + 1
                   /\ Exactly(got[s] \o queue'[s], Passed(s, events, late, e, from))
      BY <2>1, <2>2 DEF SocketsExact
    <3>1. socket'[s] = "closed" => queue'[s] = <<>> /\ got[s] = <<>>
      BY <1>0, <2>1 DEF FeedInv, SocketsExact, Subscribed
    <3>2. ASSUME socket'[s] = "subscribed"
          PROVE  from[s] <= e + 1 /\ Exactly(got[s] \o queue'[s], Passed(s, events, late, e, from))
      <4>1. socket[s] = "subscribed" /\ queue'[s] = Append(queue[s], e)
        BY <1>0, <2>1, <3>2 DEF Subscribed
      <4> DEFINE S == Passed(s, events, late, lastId, from)
      <4>2. from[s] <= lastId + 1 /\ Exactly(got[s] \o queue[s], S) /\ from[s] \in Nat
        BY <1>0, <4>1 DEF FeedInv, SocketsExact
      <4>3. \A d \in S : d < e
        BY <1>0, <2>2 DEF Passed
      <4>4. Exactly(got[s] \o Append(queue[s], e), S \cup {e})
        <5>1. got[s] \in Seq(Nat) /\ queue[s] \in Seq(Nat) /\ S \in SUBSET Nat
          BY <1>0 DEF Passed
        <5> HIDE DEF S
        <5> QED BY <2>2, <4>2, <4>3, <5>1, OneMore
      <4>5. Passed(s, events, late, e, from) = S \cup {e}
        <5>1. \A d \in events \ late : lastId < d /\ d <= e => d = e
          BY <1>0, <2>1, <2>2 DEF FeedInv, RowsComplete
        <5>2. e \in events \ late /\ from[s] <= e /\ e <= e
          BY <1>0, <2>2, <4>2
        <5>3. ASSUME NEW d \in events \ late PROVE d <= e <=> d <= lastId \/ d = e
          BY <1>0, <2>2, <5>1
        <5> QED BY <5>2, <5>3 DEF Passed
      <4> QED BY <1>0, <2>2, <4>1, <4>2, <4>4, <4>5
    <3> QED BY <3>1, <3>2
  <2> QED BY <2>3, <2>4, <2>5, <2>6 DEF FeedInv
<1>6. ASSUME NEW s \in Sockets, Subscribe(s) PROVE FeedInv'
  <2>1. /\ socket[s] = "closed" /\ socket' = [socket EXCEPT ![s] = "subscribed"]
        /\ from' = [from EXCEPT ![s] = lastId + 1]
        /\ UNCHANGED <<nextId, insert, events, late, lastId, rows, queue, got>>
    BY <1>6 DEF Subscribe, tableVars
  <2>2. \A t \in Sockets : /\ socket'[t] = IF t = s THEN "subscribed" ELSE socket[t]
                           /\ from'[t] = IF t = s THEN lastId + 1 ELSE from[t]
    BY <1>0, <2>1
  <2>3. FeedTypes'
    BY <1>0, <2>1 DEF FeedTypes
  <2>4. IdsUnique' /\ RowsComplete'
    BY <2>1 DEF FeedInv, IdsUnique, RowsComplete
  <2>5. SocketsExact'
    <3>1. Passed(s, events, late, lastId, from') = {}
      <4>1. \A e \in Nat : ~(from'[s] <= e /\ e <= lastId)
        BY <1>0, <2>2
      <4> QED BY <1>0, <4>1 DEF Passed
    <3>2. queue[s] = <<>> /\ got[s] = <<>>
      BY <2>1 DEF FeedInv, SocketsExact
    <3>3. Exactly(got[s] \o queue[s], {})
      BY <3>2 DEF Exactly
    <3>4. \A t \in Sockets \ {s} : Passed(t, events, late, lastId, from') = Passed(t, events, late, lastId, from)
      BY <2>2 DEF Passed
    <3> SUFFICES ASSUME NEW t \in Sockets
        PROVE  /\ socket'[t] = "closed" => queue[t] = <<>> /\ got[t] = <<>>
               /\ socket'[t] = "subscribed" =>
                   /\ from'[t] <= lastId + 1
                   /\ Exactly(got[t] \o queue[t], Passed(t, events, late, lastId, from'))
      BY <2>1 DEF SocketsExact
    <3>5. CASE t = s
      <4>1. from'[s] <= lastId + 1 /\ socket'[s] = "subscribed"
        BY <1>0, <2>2
      <4> QED BY <3>1, <3>2, <3>3, <3>5, <4>1
    <3>6. CASE t # s
      BY <2>2, <3>4, <3>6 DEF FeedInv, SocketsExact
    <3> QED BY <3>5, <3>6
  <2> QED BY <2>3, <2>4, <2>5 DEF FeedInv
<1>7. ASSUME NEW s \in Sockets, SendText(s) PROVE FeedInv'
  <2>1. /\ queue[s] # <<>>
        /\ got' = [got EXCEPT ![s] = Append(got[s], Head(queue[s]))]
        /\ queue' = [queue EXCEPT ![s] = Tail(queue[s])]
        /\ UNCHANGED <<nextId, insert, events, late, lastId, rows, socket, from>>
    BY <1>7 DEF SendText, tableVars
  <2>2. /\ Append(got[s], Head(queue[s])) \in Seq(Nat) /\ Tail(queue[s]) \in Seq(Nat)
        /\ Append(got[s], Head(queue[s])) \o Tail(queue[s]) = got[s] \o queue[s]
    BY <1>0, <2>1, SentOn
  <2>3. \A t \in Sockets : got'[t] \o queue'[t] = got[t] \o queue[t] /\ (t # s => got'[t] = got[t] /\ queue'[t] = queue[t])
    BY <1>0, <2>1, <2>2
  <2>4. FeedTypes'
    BY <1>0, <2>1, <2>2 DEF FeedTypes
  <2>5. IdsUnique' /\ RowsComplete'
    BY <2>1 DEF FeedInv, IdsUnique, RowsComplete
  <2>6. SocketsExact'
    BY <2>1, <2>3 DEF FeedInv, SocketsExact
  <2> QED BY <2>4, <2>5, <2>6 DEF FeedInv
<1>8. ASSUME NEW s \in Sockets, Disconnect(s) PROVE FeedInv'
  <2>1. /\ socket' = [socket EXCEPT ![s] = "closed"] /\ queue' = [queue EXCEPT ![s] = <<>>]
        /\ got' = [got EXCEPT ![s] = <<>>]
        /\ UNCHANGED <<nextId, insert, events, late, lastId, rows, from>>
    BY <1>8 DEF Disconnect, tableVars
  <2>2. FeedTypes'
    BY <1>0, <2>1 DEF FeedTypes
  <2>3. IdsUnique' /\ RowsComplete'
    BY <2>1 DEF FeedInv, IdsUnique, RowsComplete
  <2>4. \A t \in Sockets : IF t = s THEN socket'[t] = "closed" /\ queue'[t] = <<>> /\ got'[t] = <<>>
                           ELSE socket'[t] = socket[t] /\ queue'[t] = queue[t] /\ got'[t] = got[t]
    BY <1>0, <2>1
  <2>5. SocketsExact'
    BY <2>1, <2>4 DEF FeedInv, SocketsExact
  <2> QED BY <2>2, <2>3, <2>5 DEF FeedInv
<1>9. CASE FeedRestart
  <2>1. /\ lastId' = 0 /\ rows' = {} /\ late' = {}
        /\ socket' = [s \in Sockets |-> "closed"]
        /\ queue' = [s \in Sockets |-> <<>>] /\ got' = [s \in Sockets |-> <<>>]
        /\ UNCHANGED <<nextId, insert, events, from>>
    BY <1>9 DEF FeedRestart
  <2>2. FeedTypes'
    BY <1>0, <2>1 DEF FeedTypes
  <2>3. IdsUnique' /\ RowsComplete' /\ SocketsExact'
    BY <2>1 DEF FeedInv, IdsUnique, RowsComplete, SocketsExact
  <2> QED BY <2>2, <2>3 DEF FeedInv
<1>10. CASE UNCHANGED feedVars
  BY <1>10 DEF feedVars, FeedInv, FeedTypes, IdsUnique, RowsComplete, SocketsExact
<1> QED BY <1>1, <1>2, <1>3, <1>4, <1>5, <1>6, <1>7, <1>8, <1>9, <1>10 DEF FeedNext

(* A subscriber receives the events the pump has passed since it           *)
(* subscribed, in order and once each, but for the late ones               *)
(* (src/src/control_api.py:977-1041).                                      *)
THEOREM FeedDelivers == FeedSpec => []FeedExact
<1>1. FeedInit => FeedInv
  <2> SUFFICES ASSUME FeedInit PROVE FeedInv
    OBVIOUS
  <2>1. IsFiniteSet(events)
    BY FS_EmptySet DEF FeedInit
  <2> QED BY <2>1 DEF FeedInit, FeedInv, FeedTypes, IdsUnique, RowsComplete, SocketsExact
<1>2. FeedInv => FeedExact
  BY DEF FeedInv, FeedExact, SocketsExact, Exactly, Passed, Received, Subscribed
<1> QED BY <1>1, <1>2, FeedStep, PTL DEF FeedSpec

=============================================================================
