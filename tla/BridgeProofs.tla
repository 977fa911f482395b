---------------------------- MODULE BridgeProofs ----------------------------
(***************************************************************************)
(* Proofs about AwsBridge, for any calls, durations and faults.            *)
(***************************************************************************)
EXTENDS AwsBridge, TLAPS

(* The domains of what the arguments speak of. *)
BridgeTypes ==
    /\ status \in [Calls -> {"new"} \cup Active \cup Ended]
    /\ waited \in [Calls -> Nat]
    /\ msg    \in [Calls -> {"none", "visible", "hidden", "gone"}]
    /\ age    \in [Calls -> 0 .. Retention]
    /\ hidden \in [Calls -> Nat]
    /\ taken  \in [Calls -> 0 .. 2]
    /\ bridge \in [pc : {"poll", "dispatch", "put", "delete", "down"}, call : Calls \cup {NoCall}]

(* While the Lambda polls, its clock is ahead of the queue's: a message can *)
(* only come back once the Lambda has waited for a visibility timeout, but  *)
(* for a duplicate of the queue's own.                                      *)
Behind(c) ==
    /\ status[c] = "new" => msg[c] = "none" /\ taken[c] = 0 /\ bridge.call # c
    /\ status[c] = "waiting" /\ c \notin doubled =>
        /\ msg[c] = "hidden" => hidden[c] <= waited[c]
        /\ taken[c] >= 1 /\ msg[c] = "visible" => waited[c] >= Visibility
        /\ taken[c] = 2 => waited[c] >= Visibility

ClockInv == BridgeTypes /\ \A c \in Calls : Behind(c)

(* The bridge writes and deletes only for a call it has dispatched. *)
Dispatched == bridge.pc \in {"put", "delete"} => bridge.call \in tried

DropInv == BridgeTypes /\ Dispatched /\ NoCallDropped

-----------------------------------------------------------------------------
(* The types hold for ever. *)
LEMMA TypesInit == Init => BridgeTypes
  BY TimesAssumption DEF Init, BridgeTypes, Idle

LEMMA TypesStep == BridgeTypes /\ [Next]_vars => BridgeTypes'
<1> SUFFICES ASSUME BridgeTypes, [Next]_vars PROVE BridgeTypes'
  OBVIOUS
<1> USE TimesAssumption
<1>1. ASSUME NEW c \in Calls, LambdaStep(c) PROVE BridgeTypes'
  BY <1>1 DEF BridgeTypes, LambdaStep, Reject, Notify, Request, RequestFails, Poll, DeleteAnswer,
     GiveUp, LambdaFails, Kill, Goes, Send, queueVars, bridgeVars, Active, Ended
<1>2. ASSUME NEW c \in Calls, AwsStep(c) PROVE BridgeTypes'
  BY <1>2 DEF BridgeTypes, AwsStep, Reappear, Redeliver, DropMessage, ExpireAnswer, lambdaVars, queueVars, bridgeVars
<1>3. ASSUME NEW c \in Calls, Receive(c) PROVE BridgeTypes'
  BY <1>3 DEF BridgeTypes, Receive, lambdaVars
<1>4. CASE Dispatch
  BY <1>4 DEF BridgeTypes, Dispatch, To, lambdaVars, queueVars
<1>5. CASE PutAnswer
  BY <1>5 DEF BridgeTypes, PutAnswer, To, lambdaVars, queueVars
<1>6. CASE DeleteMessage
  BY <1>6 DEF BridgeTypes, DeleteMessage, Idle, lambdaVars
<1>7. CASE Drained \/ Crash \/ Start \/ SigTerm
  BY <1>7 DEF BridgeTypes, Drained, Crash, Start, SigTerm, Idle, Off, lambdaVars, queueVars
<1>8. CASE Tick
  <2>1. age' \in [Calls -> 0 .. Retention]
    BY <1>8 DEF BridgeTypes, Tick, Older
  <2>2. waited' \in [Calls -> Nat] /\ hidden' \in [Calls -> Nat]
    BY <1>8 DEF BridgeTypes, Tick, Older
  <2> QED BY <1>8, <2>1, <2>2 DEF BridgeTypes, Tick, bridgeVars
<1>9. CASE UNCHANGED vars
  BY <1>9 DEF BridgeTypes, vars, lambdaVars, queueVars, bridgeVars
<1> QED
  BY <1>1, <1>2, <1>3, <1>4, <1>5, <1>6, <1>7, <1>8, <1>9 DEF Next, BridgeStep

-----------------------------------------------------------------------------
(* The clocks. *)
LEMMA ClockStep == ClockInv /\ [Next]_vars => ClockInv'
<1> SUFFICES ASSUME ClockInv, [Next]_vars, NEW c \in Calls PROVE Behind(c)'
  BY TypesStep DEF ClockInv
<1> USE TimesAssumption DEF ClockInv
<1>1. ASSUME NEW e \in Calls, LambdaStep(e) PROVE Behind(c)'
  BY <1>1 DEF Behind, BridgeTypes, LambdaStep, Reject, Notify, Request, RequestFails, Poll,
     DeleteAnswer, GiveUp, LambdaFails, Kill, Goes, Send, queueVars, bridgeVars
<1>2. ASSUME NEW e \in Calls, AwsStep(e) PROVE Behind(c)'
  BY <1>2 DEF Behind, BridgeTypes, AwsStep, Reappear, Redeliver, DropMessage, ExpireAnswer, Queued,
     lambdaVars, queueVars, bridgeVars
<1>3. ASSUME NEW e \in Calls, Receive(e) PROVE Behind(c)'
  BY <1>3 DEF Behind, BridgeTypes, Receive, lambdaVars
<1>4. CASE Dispatch \/ PutAnswer
  BY <1>4 DEF Behind, BridgeTypes, Dispatch, PutAnswer, To, lambdaVars, queueVars
<1>5. CASE DeleteMessage
  <2>1. UNCHANGED <<status, waited, taken, doubled>>
    BY <1>5 DEF DeleteMessage, lambdaVars
  <2>2. msg'[c] \in {msg[c], "gone"}
    BY <1>5 DEF DeleteMessage, BridgeTypes
  <2>3. msg'[c] = "hidden" => hidden'[c] = hidden[c]
    BY <1>5 DEF DeleteMessage, BridgeTypes
  <2>4. status[c] = "new" => msg'[c] = "none" /\ bridge'.call # c
    BY <1>5, CallsAssumption DEF DeleteMessage, Behind, BridgeTypes, Idle
  <2> QED BY <2>1, <2>2, <2>3, <2>4 DEF Behind
<1>6. CASE Drained \/ Crash \/ Start \/ SigTerm
  BY <1>6, CallsAssumption DEF Behind, Drained, Crash, Start, SigTerm, Idle, Off, lambdaVars, queueVars
<1>7. CASE Tick
  BY <1>7 DEF Behind, BridgeTypes, Tick, Older, Waiting, Active, bridgeVars
<1>8. CASE UNCHANGED vars
  BY <1>8 DEF Behind, vars, lambdaVars, queueVars, bridgeVars
<1> QED
  BY <1>1, <1>2, <1>3, <1>4, <1>5, <1>6, <1>7, <1>8 DEF Next, BridgeStep

(* No client is told the result of a second execution, for any visibility  *)
(* timeout that is at least as long as the Lambda waits, of a call whose   *)
(* message the queue did not deliver again before that timeout.            *)
THEOREM RerunsUnheard == Spec => []RerunUnheard
<1>1. Init => ClockInv
  BY TypesInit, CallsAssumption DEF Init, ClockInv, Behind, Idle
<1>2. ClockInv => RerunUnheard
  BY TimesAssumption DEF ClockInv, Behind, BridgeTypes, RerunUnheard
<1> QED
  BY <1>1, <1>2, ClockStep, PTL DEF Spec

-----------------------------------------------------------------------------
(* A call leaves the queue dispatched, or at the end of its retention,     *)
(* whatever AWS and the bridge do.                                         *)
THEOREM CallsNotDropped == Spec => []NoCallDropped
<1>1. Init => DropInv
  BY TypesInit DEF Init, DropInv, Dispatched, NoCallDropped, Calls, Idle
<1>2. DropInv /\ [Next]_vars => DropInv'
  <2> SUFFICES ASSUME DropInv, [Next]_vars PROVE Dispatched' /\ NoCallDropped'
    BY TypesStep DEF DropInv
  <2> USE TimesAssumption DEF DropInv
  <2>1. ASSUME NEW c \in Calls, LambdaStep(c) PROVE Dispatched' /\ NoCallDropped'
    <3>1. UNCHANGED <<bridge, tried, age>>
      BY <2>1 DEF LambdaStep, Reject, Notify, Request, RequestFails, Poll, DeleteAnswer, GiveUp,
         LambdaFails, Kill, queueVars, bridgeVars
    <3>2. \A e \in Calls : msg'[e] = "gone" => msg[e] = "gone"
      BY <2>1 DEF BridgeTypes, LambdaStep, Reject, Notify, Request, RequestFails, Poll, DeleteAnswer,
         GiveUp, LambdaFails, Kill, Send, queueVars, bridgeVars
    <3> QED BY <3>1, <3>2 DEF Dispatched, NoCallDropped, Calls
  <2>2. ASSUME NEW c \in Calls, AwsStep(c) PROVE Dispatched' /\ NoCallDropped'
    <3>1. UNCHANGED <<bridge, tried, age>>
      BY <2>2 DEF AwsStep, Reappear, Redeliver, DropMessage, ExpireAnswer, queueVars, bridgeVars
    <3>2. \A e \in Calls : msg'[e] = "gone" => msg[e] = "gone" \/ age[e] = Retention
      BY <2>2 DEF BridgeTypes, AwsStep, Reappear, Redeliver, DropMessage, ExpireAnswer, queueVars
    <3> QED BY <3>1, <3>2 DEF Dispatched, NoCallDropped, Calls
  <2>3. ASSUME NEW c \in Calls, Receive(c) PROVE Dispatched' /\ NoCallDropped'
    BY <2>3 DEF Dispatched, NoCallDropped, Calls, BridgeTypes, Receive
  <2>4. CASE Dispatch \/ PutAnswer
    BY <2>4 DEF Dispatched, NoCallDropped, BridgeTypes, Dispatch, PutAnswer, At, To, queueVars
  <2>5. CASE DeleteMessage
    <3>1. bridge.call \in tried /\ UNCHANGED <<tried, age>> /\ bridge' = Idle
      BY <2>5 DEF DeleteMessage, At, Dispatched
    <3>2. \A e \in Calls : msg'[e] = "gone" => msg[e] = "gone" \/ e = bridge.call
      BY <2>5 DEF DeleteMessage, BridgeTypes
    <3> QED BY <3>1, <3>2 DEF Dispatched, NoCallDropped, Calls, Idle
  <2>6. CASE Drained \/ Crash \/ Start \/ SigTerm
    BY <2>6 DEF Dispatched, NoCallDropped, Drained, Crash, Start, SigTerm, Idle, Off, queueVars
  <2>7. CASE Tick
    <3>1. UNCHANGED <<msg, bridge, tried>> /\ \A e \in Calls : msg[e] = "gone" => age'[e] = age[e]
      BY <2>7 DEF Tick, Queued, bridgeVars
    <3> QED BY <3>1 DEF Dispatched, NoCallDropped, Calls
  <2>8. CASE UNCHANGED vars
    BY <2>8 DEF Dispatched, NoCallDropped, vars, queueVars, bridgeVars
  <2> QED
    BY <2>1, <2>2, <2>3, <2>4, <2>5, <2>6, <2>7, <2>8 DEF Next, BridgeStep
<1>3. DropInv => NoCallDropped
  BY DEF DropInv
<1> QED
  BY <1>1, <1>2, <1>3, PTL DEF Spec

=============================================================================
