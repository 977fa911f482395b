------------------------------ MODULE AwsBridge ------------------------------
(***************************************************************************)
(* A client of the public endpoint calls a Lambda function; the function   *)
(* puts the call on an SQS queue and polls a DynamoDB table for the        *)
(* answer.  The bridge, a service on the RAG host, takes the calls off the *)
(* queue one at a time, runs the tool and writes the answer.  A call is    *)
(* also the name of its message (msg_id, a fresh UUID).  Time is discrete; *)
(* the four durations of the code are constants.                           *)
(***************************************************************************)
EXTENDS Naturals

CONSTANTS
    Requests,       \* calls with a JSON-RPC id, which expect an answer
    Notices,        \* calls without one: notifications
    Strangers,      \* calls with another method, credential or body
    NoCall,
    MaxWait,        \* MAX_WAIT_SEC of the Lambda
    LambdaTimeout,  \* AWS ends the Lambda then
    Visibility,     \* VisibilityTimeout of a received message
    Retention,      \* SQS drops a message this old
    AnswerTTL,      \* RESP_TTL_SEC of an answer
    Doubles,        \* bound: calls whose message SQS may deliver twice
    Faults          \* among "aws", "crash", "stop"

Calls == Requests \cup Notices \cup Strangers

ASSUME CallsAssumption ==
    /\ NoCall \notin Calls
    /\ Requests \cap Notices = {}
    /\ Strangers \cap (Requests \cup Notices) = {}
ASSUME TimesAssumption ==
    /\ {MaxWait, LambdaTimeout, Visibility, Retention, AnswerTTL} \subseteq Nat \ {0}
    /\ MaxWait <= LambdaTimeout
    /\ MaxWait <= Visibility
ASSUME FaultsAssumption == Faults \subseteq {"aws", "crash", "stop"} /\ Doubles \subseteq Calls

VARIABLES
    status,   \* per call: where its Lambda is, or what the client got
    waited,   \* per call: time since its message was sent, while it polls
    msg,      \* per call: its message on the queue
    age,      \* per call: time since the message was sent
    hidden,   \* per call: time since the message was received
    answer,   \* per call: the age of its item in the table, or NoAnswer
    bridge,   \* the bridge process: pc and the call it works on
    stop,     \* _stop of the bridge
    taken,    \* per call: how often the bridge received it, 2 for more
    tried,    \* calls dispatched to the end at least once
    doubled   \* calls whose message SQS delivered again before its time

lambdaVars == <<status, waited>>
queueVars  == <<msg, age, hidden>>
bridgeVars == <<bridge, stop, taken, tried, doubled>>
vars == <<lambdaVars, queueVars, answer, bridgeVars>>

-----------------------------------------------------------------------------
Active     == {"waiting", "found"}
Ended      == {"rejected", "s200", "s202", "s504", "s500", "killed"}
NoAnswer   == AnswerTTL + 1     \* older than any item
Waiting(c) == status[c] \in Active
Stored(c)  == answer[c] # NoAnswer
Queued(c)  == msg[c] \in {"visible", "hidden"}

Idle   == [pc |-> "poll", call |-> NoCall]
Off    == [pc |-> "down", call |-> NoCall]
Init ==
    /\ status = [c \in Calls |-> "new"]
    /\ waited = [c \in Calls |-> 0]
    /\ msg    = [c \in Calls |-> "none"]
    /\ age    = [c \in Calls |-> 0]
    /\ hidden = [c \in Calls |-> 0]
    /\ answer = [c \in Calls |-> NoAnswer]
    /\ bridge = Idle
    /\ stop   = FALSE
    /\ taken  = [c \in Calls |-> 0]
    /\ tried  = {}
    /\ doubled = {}

-----------------------------------------------------------------------------
(* The Lambda function *)

Goes(c, s) ==
    /\ status' = [status EXCEPT ![c] = s]
    /\ waited' = [waited EXCEPT ![c] = 0]

Send(c) == msg' = [msg EXCEPT ![c] = "visible"]

(* An item of AUTH_MAP matches the header. *)
Known(c) == c \notin Strangers

(* OPTIONS, another method, a bad credential, a bad body: nothing is sent. *)
Reject(c) ==
    /\ status[c] = "new" /\ ~Known(c)
    /\ Goes(c, "rejected")
    /\ UNCHANGED <<queueVars, answer, bridgeVars>>

(* A notification is sent, or fails to be; the client cannot tell. *)
Notify(c) ==
    /\ status[c] = "new" /\ c \in Notices
    /\ \/ Send(c)
       \/ "aws" \in Faults /\ UNCHANGED msg
    /\ Goes(c, "s202")
    /\ UNCHANGED <<age, hidden, answer, bridgeVars>>

Request(c) ==
    /\ status[c] = "new" /\ c \in Requests
    /\ Send(c)
    /\ Goes(c, "waiting")
    /\ UNCHANGED <<age, hidden, answer, bridgeVars>>

(* send_message raises, also when SQS has accepted the message. *)
RequestFails(c) ==
    /\ "aws" \in Faults
    /\ status[c] = "new" /\ c \in Requests
    /\ Send(c) \/ UNCHANGED msg
    /\ Goes(c, "s500")
    /\ UNCHANGED <<age, hidden, answer, bridgeVars>>

(* A poll that finds nothing leaves everything as it is. *)
Poll(c) ==
    /\ status[c] = "waiting"
    /\ waited[c] < MaxWait
    /\ Stored(c)
    /\ status' = [status EXCEPT ![c] = "found"]
    /\ UNCHANGED <<waited, queueVars, answer, bridgeVars>>

DeleteAnswer(c) ==
    /\ status[c] = "found"
    /\ answer' = [answer EXCEPT ![c] = NoAnswer]
    /\ Goes(c, "s200")
    /\ UNCHANGED <<queueVars, bridgeVars>>

GiveUp(c) ==
    /\ status[c] = "waiting"
    /\ waited[c] >= MaxWait
    /\ Goes(c, "s504")
    /\ UNCHANGED <<queueVars, answer, bridgeVars>>

(* get_item or delete_item raises. *)
LambdaFails(c) ==
    /\ "aws" \in Faults
    /\ Waiting(c)
    /\ \/ UNCHANGED answer
       \/ /\ status[c] = "found"
          /\ answer' = [answer EXCEPT ![c] = NoAnswer]
    /\ Goes(c, "s500")
    /\ UNCHANGED <<queueVars, bridgeVars>>

(* A call of AWS that hangs, until AWS ends the function. *)
Kill(c) ==
    /\ Waiting(c)
    /\ waited[c] >= LambdaTimeout
    /\ Goes(c, "killed")
    /\ UNCHANGED <<queueVars, answer, bridgeVars>>

LambdaStep(c) ==
    \/ Reject(c) \/ Notify(c) \/ Request(c) \/ RequestFails(c)
    \/ Poll(c) \/ DeleteAnswer(c) \/ GiveUp(c) \/ LambdaFails(c) \/ Kill(c)

-----------------------------------------------------------------------------
(* The bridge *)

At(pc) == bridge.pc = pc
To(pc) == bridge' = [bridge EXCEPT !.pc = pc]

\* Mutant: the message is deleted before the call is dispatched.
ReceiveDeletes(c) ==
    /\ At("poll") /\ ~stop
    /\ msg[c] = "visible"
    /\ msg'    = [msg EXCEPT ![c] = "gone"]
    /\ taken'  = [taken EXCEPT ![c] = IF @ = 0 THEN 1 ELSE 2]
    /\ bridge' = [pc |-> "dispatch", call |-> c]
    /\ UNCHANGED <<lambdaVars, age, hidden, answer, stop, tried, doubled>>

(* One message at a time; a receive that raises is tried again. *)
Receive(c) ==
    /\ At("poll") /\ ~stop
    /\ msg[c] = "visible"
    /\ msg'    = [msg EXCEPT ![c] = "hidden"]
    /\ hidden' = [hidden EXCEPT ![c] = 0]
    /\ taken'  = [taken EXCEPT ![c] = IF @ = 0 THEN 1 ELSE 2]
    /\ bridge' = [pc |-> "dispatch", call |-> c]
    /\ UNCHANGED <<lambdaVars, age, answer, stop, tried, doubled>>

(* The tool runs, however long; an exception becomes an error envelope.    *)
(* A notification is dispatched too, its envelope dropped.                 *)
Dispatch ==
    /\ At("dispatch")
    /\ To(IF bridge.call \in Notices THEN "delete" ELSE "put")
    /\ tried' = tried \cup {bridge.call}
    /\ UNCHANGED <<lambdaVars, queueVars, answer, stop, taken, doubled>>

(* put_item replaces an item of the same msg_id. *)
PutAnswer ==
    /\ At("put")
    /\ \/ answer' = [answer EXCEPT ![bridge.call] = 0]
       \/ "aws" \in Faults /\ UNCHANGED answer
    /\ To("delete")
    /\ UNCHANGED <<lambdaVars, queueVars, stop, taken, tried, doubled>>

\* Mutant: a call whose answer was not written is sent again.
DeleteMessageResends ==
    /\ At("delete")
    /\ IF Stored(bridge.call) \/ bridge.call \in Notices
       THEN msg' = [msg EXCEPT ![bridge.call] = "gone"] /\ UNCHANGED age
       ELSE msg' = [msg EXCEPT ![bridge.call] = "visible"] /\ age' = [age EXCEPT ![bridge.call] = 0]
    /\ hidden' = [hidden EXCEPT ![bridge.call] = 0]
    /\ bridge' = Idle
    /\ UNCHANGED <<lambdaVars, answer, stop, taken, tried, doubled>>

(* Also when the answer was not written.  The receipt of one delivery need *)
(* not take the message from a queue that has delivered it twice.          *)
DeleteMessage ==
    /\ At("delete")
    /\ \/ /\ msg'    = [msg EXCEPT ![bridge.call] = "gone"]
          /\ hidden' = [hidden EXCEPT ![bridge.call] = 0]
       \/ /\ "aws" \in Faults \/ bridge.call \in doubled
          /\ UNCHANGED <<msg, hidden>>
    /\ bridge' = Idle
    /\ UNCHANGED <<lambdaVars, age, answer, stop, taken, tried, doubled>>

(* SIGTERM sets a flag that the loop reads before it receives again. *)
SigTerm ==
    /\ "stop" \in Faults
    /\ ~At("down") /\ ~stop
    /\ stop' = TRUE
    /\ UNCHANGED <<lambdaVars, queueVars, answer, bridge, taken, tried, doubled>>

Drained ==
    /\ At("poll") /\ stop
    /\ bridge' = Off
    /\ UNCHANGED <<lambdaVars, queueVars, answer, stop, taken, tried, doubled>>

Crash ==
    /\ "crash" \in Faults
    /\ ~At("down")
    /\ bridge' = Off
    /\ UNCHANGED <<lambdaVars, queueVars, answer, stop, taken, tried, doubled>>

Start ==
    /\ At("down")
    /\ bridge' = Idle /\ stop' = FALSE
    /\ UNCHANGED <<lambdaVars, queueVars, answer, taken, tried, doubled>>

BridgeStep ==
    \/ \E c \in Calls : Receive(c)
    \/ Dispatch \/ PutAnswer \/ DeleteMessage \/ Drained \/ Start

-----------------------------------------------------------------------------
(* Time and the services of AWS *)

Older(n, limit) == IF n < limit THEN n + 1 ELSE n

\* Mutant: each poll of the Lambda renews its deadline.
TickRenewed ==
    /\ age'    = [c \in Calls |-> IF Queued(c) THEN Older(age[c], Retention) ELSE age[c]]
    /\ hidden' = [c \in Calls |->
                    IF msg[c] = "hidden" THEN Older(hidden[c], Visibility) ELSE hidden[c]]
    /\ answer' = [c \in Calls |-> IF Stored(c) THEN Older(answer[c], AnswerTTL) ELSE answer[c]]
    /\ UNCHANGED <<lambdaVars, msg, bridgeVars>>

(* A Lambda does not outlive its timeout. *)
Tick ==
    /\ \A c \in Calls : Waiting(c) => waited[c] < LambdaTimeout
    /\ waited' = [c \in Calls |-> IF Waiting(c) THEN waited[c] + 1 ELSE waited[c]]
    /\ age'    = [c \in Calls |-> IF Queued(c) THEN Older(age[c], Retention) ELSE age[c]]
    /\ hidden' = [c \in Calls |->
                    IF msg[c] = "hidden" THEN Older(hidden[c], Visibility) ELSE hidden[c]]
    /\ answer' = [c \in Calls |-> IF Stored(c) THEN Older(answer[c], AnswerTTL) ELSE answer[c]]
    /\ UNCHANGED <<status, msg, bridgeVars>>

\* Mutant: a visibility timeout shorter than the Lambda waits.
ReappearEarly(c) ==
    /\ msg[c] = "hidden" /\ hidden[c] >= Visibility - 1
    /\ msg'    = [msg EXCEPT ![c] = "visible"]
    /\ hidden' = [hidden EXCEPT ![c] = 0]
    /\ UNCHANGED <<lambdaVars, age, answer, bridgeVars>>

(* A received message that was not deleted in time is visible again. *)
Reappear(c) ==
    /\ msg[c] = "hidden" /\ hidden[c] >= Visibility
    /\ msg'    = [msg EXCEPT ![c] = "visible"]
    /\ hidden' = [hidden EXCEPT ![c] = 0]
    /\ UNCHANGED <<lambdaVars, age, answer, bridgeVars>>

(* The queue is a standard one: it may deliver a message a second time     *)
(* while it should be hidden.  Bound: once per call of Doubles.            *)
Redeliver(c) ==
    /\ c \in Doubles \ doubled
    /\ msg[c] = "hidden"
    /\ msg'     = [msg EXCEPT ![c] = "visible"]
    /\ hidden'  = [hidden EXCEPT ![c] = 0]
    /\ doubled' = doubled \cup {c}
    /\ UNCHANGED <<lambdaVars, age, answer, bridge, stop, taken, tried>>

DropMessage(c) ==
    /\ Queued(c) /\ age[c] >= Retention
    /\ msg'    = [msg EXCEPT ![c] = "gone"]
    /\ hidden' = [hidden EXCEPT ![c] = 0]
    /\ UNCHANGED <<lambdaVars, age, answer, bridgeVars>>

ExpireAnswer(c) ==
    /\ Stored(c) /\ answer[c] >= AnswerTTL
    /\ answer' = [answer EXCEPT ![c] = NoAnswer]
    /\ UNCHANGED <<lambdaVars, queueVars, bridgeVars>>

AwsStep(c) == Reappear(c) \/ Redeliver(c) \/ DropMessage(c) \/ ExpireAnswer(c)

Next ==
    \/ \E c \in Calls : LambdaStep(c) \/ AwsStep(c)
    \/ BridgeStep \/ SigTerm \/ Crash
    \/ Tick

Spec == Init /\ [][Next]_vars

(* Time passes, the Lambda runs and AWS keeps its promises; the bridge may *)
(* be down or stuck for ever.                                              *)
FairSpec ==
    /\ Spec
    /\ WF_vars(Tick)
    /\ \A c \in Calls :
        /\ WF_vars(GiveUp(c)) /\ WF_vars(Kill(c)) /\ WF_vars(DeleteAnswer(c))
        /\ WF_vars(DropMessage(c)) /\ WF_vars(ExpireAnswer(c))

-----------------------------------------------------------------------------
(* Properties *)

(* A call that the bridge takes up again, because a crash or a slow tool    *)
(* kept it past the visibility timeout, is no longer polled for: no client *)
(* is ever told the result of a second execution, unless the queue itself  *)
(* delivered the message again before that timeout                         *)
(* (src/src/aws_bridge.py:204, src/infra/aws/lambda/mcp_handler.py:155).   *)
RerunUnheard ==
    \A c \in Calls \ doubled : taken[c] = 2 => ~(status[c] = "waiting" /\ waited[c] < MaxWait)

(* Whatever crashes, a message leaves the queue only after its call was    *)
(* dispatched, or when it is older than the retention                      *)
(* (src/src/aws_bridge.py:228-247).                                        *)
NoCallDropped ==
    \A c \in Requests \cup Notices :
        msg[c] = "gone" => c \in tried \/ age[c] = Retention

(* The message was deleted although the answer was not written             *)
(* (src/src/aws_bridge.py:243-247).                                        *)
Lost(c) ==
    /\ status[c] = "waiting"
    /\ msg[c] = "gone" /\ ~Stored(c) /\ bridge.call # c

(* Such a call is not answered any more, and its client is told so.        *)
LostCallEnds ==
    \A c \in Requests : Lost(c) ~> status[c] \in {"s504", "s500", "killed"}

(* Neither a Lambda that gave up, nor a bridge that died, nor a write that *)
(* failed leaves a message or an answer behind for ever.                   *)
EventuallyClean == <>[](\A c \in Calls : ~Queued(c) /\ ~Stored(c))

=============================================================================
