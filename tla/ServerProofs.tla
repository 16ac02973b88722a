---------------------------- MODULE ServerProofs ----------------------------
(***************************************************************************)
(* Proofs about Server, for any number of producers, consumers, calls and  *)
(* deliveries and any capacity: the types, the order of the shutdown, the  *)
(* life of a subscription, which answer a call of a producer returns, and  *)
(* the order of what a consumer receives.                                  *)
(***************************************************************************)
EXTENDS Server, TLAPS

\* The tuples of variables are always looked into.
USE DEF wire, clientVars, handlerVars, subVars, brokerVars, processVars,
        serverVars, vars

\* A step that names no prover is given more time than the default.
USE SMTT(30), ZenonT(30)

-----------------------------------------------------------------------------
(* Types. *)

\* A request that is built from a known type is a request.
LEMMA RequestType ==
    ASSUME NEW t \in RequestTypes, NEW n \in Nat, NEW k \in Nat
    PROVE  Request(t, n, k) \in Requests
BY ZenonT(30) DEF Request, Requests

\* A response to a request is a response.
LEMMA ResponseType ==
    ASSUME NEW q \in Requests, NEW ok \in BOOLEAN, NEW s \in Nat
    PROVE  Response(q, ok, s) \in Responses
BY ZenonT(30) DEF Response, Responses, Requests

\* Appending to one queue of a connection keeps the type of them all.
LEMMA AppendType ==
    ASSUME NEW D, NEW S, NEW f \in [D -> Seq(S)], NEW c \in D, NEW e \in S
    PROVE  [f EXCEPT ![c] = Append(@, e)] \in [D -> Seq(S)]
OBVIOUS

\* So does taking the first element, which is of that type.
LEMMA TailType ==
    ASSUME NEW D, NEW S, NEW f \in [D -> Seq(S)], NEW c \in D, f[c] # <<>>
    PROVE  /\ [f EXCEPT ![c] = Tail(@)] \in [D -> Seq(S)]
           /\ Head(f[c]) \in S
OBVIOUS

\* What a call returns is an outcome.
LEMMA ReturnType ==
    ASSUME outcome \in [Producers -> Seq(Outcomes)], NEW p \in Producers,
           NEW r \in {"ok", "error", "timeout"},
           NEW t \in RequestTypes \cup {"delivery", "none"}, NEW n \in Nat,
           Return(p, r, t, n)
    PROVE  outcome' \in [Producers -> Seq(Outcomes)]
<1>1. Outcome(r, t, n) \in Outcomes
  BY ZenonT(30) DEF Outcome, Outcomes
<1>2. [outcome EXCEPT ![p] = Append(@, Outcome(r, t, n))]
          \in [Producers -> Seq(Outcomes)]
  BY ZenonT(30), <1>1, AppendType
<1> QED
  BY ZenonT(30), <1>2 DEF Return

\* What a step of a client leaves typed.
LEMMA ProducerType ==
    ASSUME ClientTypeOK, NEW p \in Producers, ProducerStep(p)
    PROVE  ClientTypeOK'
<1> p \in Conns
  BY ZenonT(30) DEF Conns
<1> USE DEF ClientTypeOK
<1>1. ASSUME NEW t, Call(p, t)
      PROVE  ClientTypeOK'
  <2>1. t \in RequestTypes /\ calls[p] \in Nat /\ calls[p] + 1 \in 0 .. MaxCalls
    BY <1>1, ClientAssumption DEF Call, RequestTypes
  <2>2. toServer' \in [Conns -> Seq(Requests)]
    <3>1. Request(t, calls[p] + 1, 0) \in Requests
      BY <2>1, RequestType
    <3>2. [toServer EXCEPT ![p] = Append(@, Request(t, calls[p] + 1, 0))]
              \in [Conns -> Seq(Requests)]
      BY <3>1, AppendType
    <3> QED
      BY ZenonT(30), <1>1, <3>2 DEF Call
  <2>3. calls' \in [Conns -> 0 .. MaxCalls]
    BY ZenonT(30), <1>1, <2>1 DEF Call
  <2>4. phase' \in [Conns -> {"idle", "waiting"}]
    BY ZenonT(30), <1>1 DEF Call
  <2>5. outcome' \in [Producers -> Seq(Outcomes)]
    BY ZenonT(30), <1>1, ReturnType DEF Call
  <2> QED
    BY ZenonT(30), <1>1, <2>2, <2>3, <2>4, <2>5 DEF Call
<1>2. CASE Answered(p)
  <2>1. /\ toClient' \in [Conns -> Seq(Responses)]
        /\ Head(toClient[p]) \in Responses
    BY ZenonT(30), <1>2, TailType DEF Answered
  <2>2. outcome' \in [Producers -> Seq(Outcomes)]
    <3> DEFINE r == Head(toClient[p])
    <3>1. /\ r.re \in RequestTypes \cup {"delivery", "none"} /\ r.no \in Nat
          /\ (IF r.ok THEN "ok" ELSE "error") \in {"ok", "error", "timeout"}
      BY ZenonT(30), <2>1 DEF Responses
    <3>2. Return(p, IF r.ok THEN "ok" ELSE "error", r.re, r.no)
      BY ZenonT(30), <1>2 DEF Answered
    <3> HIDE DEF r
    <3> QED
      BY ZenonT(30), <3>1, <3>2, ReturnType
  <2> QED
    BY ZenonT(30), <1>2, <2>1, <2>2 DEF Answered
<1>3. ASSUME NEW r \in {"timeout", "error"}, DecodeFails(p, r)
      PROVE  ClientTypeOK'
  <2>1. outcome' \in [Producers -> Seq(Outcomes)]
    <3>1. Return(p, r, "none", 0) /\ r \in {"ok", "error", "timeout"}
      BY ZenonT(30), <1>3 DEF DecodeFails
    <3> QED
      BY ZenonT(30), <3>1, ReturnType
  <2> QED
    BY ZenonT(30), <1>3, <2>1 DEF DecodeFails
<1> QED
  BY ZenonT(30), <1>1, <1>2, <1>3
     DEF ProducerStep, Publish, GetMetrics, ManageQueues, ManageExchanges,
         CallOther

\* The same for a Consumer.
LEMMA ConsumerType ==
    ASSUME ClientTypeOK, NEW c \in Consumers, ConsumerStep(c)
    PROVE  ClientTypeOK'
<1> c \in Conns
  BY ZenonT(30) DEF Conns
<1> USE DEF ClientTypeOK
<1>1. ASSUME NEW t \in RequestTypes, NEW k \in Nat, Send(c, t, k)
      PROVE  ClientTypeOK'
  <2>1. calls[c] \in Nat /\ calls[c] + 1 \in 0 .. MaxCalls
    BY <1>1, ClientAssumption DEF Send
  <2>2. toServer' \in [Conns -> Seq(Requests)]
    <3>1. Request(t, calls[c] + 1, k) \in Requests
      BY <2>1, RequestType
    <3>2. [toServer EXCEPT ![c] = Append(@, Request(t, calls[c] + 1, k))]
              \in [Conns -> Seq(Requests)]
      BY <3>1, AppendType
    <3> QED
      BY ZenonT(30), <1>1, <3>2 DEF Send
  <2> QED
    BY ZenonT(30), <1>1, <2>1, <2>2 DEF Send
<1>2. CASE Subscribe(c) \/ Unsubscribe(c)
  BY ZenonT(30), <1>1, <1>2 DEF Subscribe, Unsubscribe, RequestTypes
<1>3. CASE Ack(c)
  <2>1. PICK i \in DOMAIN received[c] : Send(c, "ack", received[c][i].tok)
    BY ZenonT(30), <1>3 DEF Ack
  <2>2. received[c][i].tok \in Nat
    <3>1. received[c] \in Seq(Responses)
      BY ZenonT(30)
    <3>2. received[c][i] \in Responses
      BY <3>1, <2>1
    <3> QED
      BY ZenonT(30), <3>2 DEF Responses
  <2> QED
    BY ZenonT(30), <1>1, <2>1, <2>2 DEF RequestTypes
<1>4. CASE Receive(c)
  BY ZenonT(30), <1>4 DEF Receive
<1>5. CASE ReceiveReturns(c)
  <2>1. /\ toClient' \in [Conns -> Seq(Responses)]
        /\ Head(toClient[c]) \in Responses
    BY ZenonT(30), <1>5, TailType DEF ReceiveReturns
  <2>2. received' \in [Consumers -> Seq(Responses)]
    <3>1. [received EXCEPT ![c] = Append(@, Head(toClient[c]))]
              \in [Consumers -> Seq(Responses)]
      BY ZenonT(30), <2>1, AppendType
    <3> QED
      BY ZenonT(30), <1>5, <3>1 DEF ReceiveReturns
  <2> QED
    BY ZenonT(30), <1>5, <2>1, <2>2 DEF ReceiveReturns
<1>6. CASE ReceiveFails(c)
  BY ZenonT(30), <1>6 DEF ReceiveFails
<1>7. CASE Cancel(c)
  BY ZenonT(30), <1>7 DEF Cancel
<1>8. CASE WatcherEnds(c)
  BY ZenonT(30), <1>8 DEF WatcherEnds
<1> QED
  BY ZenonT(30), <1>2, <1>3, <1>4, <1>5, <1>6, <1>7, <1>8 DEF ConsumerStep

\* The steps of a handler and of its subscription goroutine on the connection.
LEMMA DecodeType ==
    ASSUME ClientTypeOK, NEW c \in Conns, toServer[c] # <<>>
    PROVE  /\ [toServer EXCEPT ![c] = Tail(@)] \in [Conns -> Seq(Requests)]
           /\ Head(toServer[c]) \in Requests
BY ZenonT(30), TailType DEF ClientTypeOK

\* encode appends a response or keeps the error.
LEMMA EncodeType ==
    ASSUME ClientTypeOK, NEW c \in Conns, NEW r \in Responses, EncodeOk(c, r)
    PROVE  toClient' \in [Conns -> Seq(Responses)]
<1>1. [toClient EXCEPT ![c] = Append(@, r)] \in [Conns -> Seq(Responses)]
  BY ZenonT(30), AppendType DEF ClientTypeOK
<1> QED
  BY ZenonT(30), <1>1 DEF EncodeOk

\* The response a handler prepares is a response.
LEMMA PrepareType ==
    ASSUME HandlerTypeOK, NEW c \in Conns, NEW q \in Requests,
           NEW ok \in BOOLEAN, NEW l \in {"reply", "refuse", "publish", "stopping"},
           Prepare(c, q, ok, l)
    PROVE  /\ handler' = [handler EXCEPT ![c] = l]
           /\ reply' \in [Conns -> Responses]
<1>1. Response(q, ok, sessions[c]) \in Responses
  BY ZenonT(30), ResponseType DEF HandlerTypeOK
<1> QED
  BY ZenonT(30), <1>1 DEF Prepare, Goto, HandlerTypeOK

\* So is the one it completes after a call of the broker.
LEMMA CompleteType ==
    ASSUME HandlerTypeOK, NEW c \in Conns, NEW ok \in BOOLEAN, Complete(c, ok)
    PROVE  /\ handler' = [handler EXCEPT ![c] = "reply"]
           /\ reply' \in [Conns -> Responses]
<1>1. reply[c] \in Responses
  BY ZenonT(30) DEF HandlerTypeOK
<1>2. [reply[c] EXCEPT !.ok = ok] \in Responses
  BY ZenonT(30), <1>1 DEF Responses
<1> QED
  BY ZenonT(30), <1>2 DEF Complete, Goto, HandlerTypeOK

\* The cases of the switch over the request type.
LEMMA RequestStepType ==
    ASSUME ClientTypeOK, HandlerTypeOK, NEW c \in Conns, HandleRequest(c)
    PROVE  ClientTypeOK' /\ HandlerTypeOK'
<1> DEFINE q == Head(toServer[c])
<1>1. /\ [toServer EXCEPT ![c] = Tail(@)] \in [Conns -> Seq(Requests)]
      /\ q \in Requests
  BY ZenonT(30), DecodeType DEF HandleRequest
<1> HIDE DEF q
<1>2. ASSUME NEW t, Decode(c, q, t)
      PROVE  ClientTypeOK'
  BY ZenonT(30), <1>1, <1>2 DEF Decode, ClientTypeOK
<1>3. CASE HandleVersion(c, q)
  <2>1. Prepare(c, q, FALSE, "refuse") /\ ClientTypeOK'
    BY ZenonT(30), <1>2, <1>3 DEF HandleVersion
  <2> QED
    BY ZenonT(30), <1>1, <1>3, <2>1, PrepareType
       DEF HandleVersion, Decode, HandlerTypeOK
<1>4. CASE HandlePublish(c, q)
  <2>1. /\ Prepare(c, q, FALSE, "reply") \/ Prepare(c, q, FALSE, "publish")
        /\ ClientTypeOK'
    BY ZenonT(30), <1>2, <1>4 DEF HandlePublish, Respond
  <2> QED
    BY ZenonT(30), <1>1, <1>4, <2>1, PrepareType
       DEF HandlePublish, Decode, HandlerTypeOK
<1>5. ASSUME NEW t, HandleCall(c, q, t)
      PROVE  ClientTypeOK' /\ HandlerTypeOK'
  <2>1. PICK ok \in BOOLEAN : Prepare(c, q, ok, "reply")
    BY ZenonT(30), <1>5 DEF HandleCall, Respond
  <2>2. ClientTypeOK'
    BY ZenonT(30), <1>2, <1>5 DEF HandleCall
  <2> QED
    BY ZenonT(30), <1>1, <1>5, <2>1, <2>2, PrepareType
       DEF HandleCall, Decode, HandlerTypeOK
<1>6. CASE HandleUnknown(c, q)
  <2>1. Prepare(c, q, FALSE, "reply") /\ ClientTypeOK'
    BY ZenonT(30), <1>2, <1>6 DEF HandleUnknown, Respond
  <2> QED
    BY ZenonT(30), <1>1, <1>6, <2>1, PrepareType
       DEF HandleUnknown, Decode, HandlerTypeOK
<1>7. CASE HandleAck(c, q)
  <2>1. ClientTypeOK'
    BY ZenonT(30), <1>2, <1>7 DEF HandleAck
  <2>2. CASE Prepare(c, q, FALSE, "reply")
    BY ZenonT(30), <1>1, <1>7, <2>1, <2>2, PrepareType
       DEF HandleAck, Decode, HandlerTypeOK
  <2>3. CASE handler' = [handler EXCEPT ![c] = "top"] /\ UNCHANGED reply
    BY ZenonT(30), <1>7, <2>1, <2>3 DEF HandleAck, Decode, HandlerTypeOK
  <2> QED
    BY ZenonT(30), <1>7, <2>2, <2>3 DEF HandleAck, Respond, Goto
<1>8. CASE HandleSubscribe(c, q)
  <2>1. /\ ClientTypeOK'
        /\ UNCHANGED <<encErr, depth, stored, lastToken, processVars>>
    BY ZenonT(30), <1>2, <1>8 DEF HandleSubscribe, Decode
  <2>2. CASE Prepare(c, q, FALSE, "reply") /\ UNCHANGED <<subVars, registered>>
    BY ZenonT(30), <1>1, <2>1, <2>2, PrepareType DEF HandlerTypeOK
  <2>3. CASE /\ registered' = registered \cup {c}
             /\ sessions' = [sessions EXCEPT ![c] = @ + 1]
             /\ deliveries' = [deliveries EXCEPT ![c] = <<>>]
             /\ stopSubscribe' = [stopSubscribe EXCEPT ![c] = "open"]
             /\ subscriber' = [subscriber EXCEPT ![c] = "select"]
             /\ Goto(c, "top")
             /\ UNCHANGED <<reply, delivery>>
    BY <2>1, <2>3 DEF HandlerTypeOK, Goto
  <2> QED
    BY ZenonT(30), <1>8, <2>2, <2>3 DEF HandleSubscribe, Respond
<1>9. CASE HandleUnsubscribe(c, q)
  <2>1. /\ Prepare(c, q, TRUE, "reply") \/ Prepare(c, q, FALSE, "stopping")
        /\ ClientTypeOK'
    BY ZenonT(30), <1>2, <1>9 DEF HandleUnsubscribe, Respond
  <2> QED
    BY ZenonT(30), <1>1, <1>9, <2>1, PrepareType
       DEF HandleUnsubscribe, Decode, HandlerTypeOK
<1> QED
  BY ZenonT(30), <1>3, <1>4, <1>5, <1>6, <1>7, <1>8, <1>9
     DEF HandleRequest, HandleMetrics, HandleQueues, HandleExchanges, q

\* The other steps of handleConnection.
LEMMA HandlerStepType ==
    ASSUME ClientTypeOK, HandlerTypeOK, NEW c \in Conns, HandlerStep(c)
    PROVE  ClientTypeOK' /\ HandlerTypeOK'
<1>1. CASE LoopTop(c)
  BY ZenonT(30), <1>1 DEF LoopTop, Goto, ClientTypeOK, HandlerTypeOK
<1>2. CASE DecodeError(c)
  BY ZenonT(30), <1>2 DEF DecodeError, Goto, ClientTypeOK, HandlerTypeOK
<1>3. CASE HandleRequest(c)
  BY ZenonT(30), <1>3, RequestStepType
<1>4. CASE PublishReturns(c)
  <2>1. PICK ok \in BOOLEAN : Complete(c, ok)
    BY ZenonT(30), <1>4 DEF PublishReturns
  <2>2. handler' = [handler EXCEPT ![c] = "reply"] /\ reply' \in [Conns -> Responses]
    BY ZenonT(30), <2>1, CompleteType
  <2>3. depth' \in 0 .. Capacity
    <3>1. depth' = depth \/ (depth < Capacity /\ depth' = depth + 1)
      BY ZenonT(30), <1>4 DEF PublishReturns
    <3>2. depth \in 0 .. Capacity /\ Capacity \in Nat
      BY ZenonT(30), HandlerAssumption DEF HandlerTypeOK
    <3> QED
      BY <3>1, <3>2
  <2>4. stored' \subseteq Conns \X Nat
    <3>1. reply[c].no \in Nat
      BY ZenonT(30) DEF HandlerTypeOK, Responses
    <3>2. stored' = stored \/ stored' = stored \cup {<<c, reply[c].no>>}
      BY ZenonT(30), <1>4 DEF PublishReturns
    <3>3. stored \subseteq Conns \X Nat
      BY ZenonT(30) DEF HandlerTypeOK
    <3> QED
      BY <3>1, <3>2, <3>3
  <2> QED
    BY ZenonT(30), <1>4, <2>2, <2>3, <2>4 DEF PublishReturns, ClientTypeOK, HandlerTypeOK
<1>5. CASE Stopped(c)
  <2>1. handler' = [handler EXCEPT ![c] = "reply"] /\ reply' \in [Conns -> Responses]
    BY ZenonT(30), <1>5, CompleteType DEF Stopped
  <2> QED
    BY ZenonT(30), <1>5, <2>1 DEF Stopped, ClientTypeOK, HandlerTypeOK
<1>6. CASE Encode(c)
  <2>1. toClient' \in [Conns -> Seq(Responses)]
    <3>1. CASE EncodeOk(c, reply[c])
      BY ZenonT(30), <3>1, EncodeType DEF HandlerTypeOK
    <3>2. CASE EncodeFails(c)
      BY ZenonT(30), <3>2 DEF EncodeFails, ClientTypeOK
    <3> QED
      BY ZenonT(30), <1>6, <3>1, <3>2 DEF Encode
  <2>2. encErr' \in [Conns -> BOOLEAN]
    BY ZenonT(30), <1>6 DEF Encode, EncodeOk, EncodeFails, HandlerTypeOK
  <2>3. NoReply \in Responses
    BY ZenonT(30) DEF NoReply, Response, Request, Responses, RequestTypes
  <2>4. handler' \in [Conns -> {"none", "top", "decode", "publish", "stopping",
                                "reply", "refuse", "exit", "exiting",
                                "returned", "done"}]
    BY ZenonT(30), <1>6 DEF Encode, Goto, HandlerTypeOK
  <2>5. reply' \in [Conns -> Responses]
    BY ZenonT(30), <1>6, <2>3 DEF Encode, HandlerTypeOK
  <2>6. ClientTypeOK'
    BY ZenonT(30), <1>6, <2>1 DEF Encode, ClientTypeOK
  <2>7. HandlerTypeOK'
    BY ZenonT(30), <1>6, <2>2, <2>4, <2>5 DEF Encode, HandlerTypeOK
  <2> QED
    BY ZenonT(30), <2>6, <2>7
<1>7. CASE StopSubscriber(c)
  BY ZenonT(30), <1>7 DEF StopSubscriber, Goto, ClientTypeOK, HandlerTypeOK
<1>8. CASE CloseConn(c)
  BY ZenonT(30), <1>8 DEF CloseConn, Goto, ClientTypeOK, HandlerTypeOK
<1> QED
  BY ZenonT(30), <1>1, <1>2, <1>3, <1>4, <1>5, <1>6, <1>7, <1>8 DEF HandlerStep

\* The subscription goroutine and the distributor.
LEMMA SubscriberType ==
    ASSUME ClientTypeOK, HandlerTypeOK, NEW c \in Conns,
           SubscriberStep(c) \/ Distribute(c)
    PROVE  ClientTypeOK' /\ HandlerTypeOK'
<1>1. CASE TakeDelivery(c)
  <2>1. /\ [deliveries EXCEPT ![c] = Tail(@)] \in [Conns -> Seq(Nat)]
        /\ Head(deliveries[c]) \in Nat
    BY ZenonT(30), <1>1, TailType DEF TakeDelivery, HandlerTypeOK
  <2> QED
    BY ZenonT(30), <1>1, <2>1 DEF TakeDelivery, ClientTypeOK, HandlerTypeOK
<1>2. CASE Deliver(c)
  <2> DEFINE r == [ok |-> TRUE, re |-> "delivery", no |-> 0,
                   tok |-> delivery[c], session |-> sessions[c]]
  <2>1. r \in Responses
    BY ZenonT(30) DEF Responses, HandlerTypeOK
  <2>2. toClient' \in [Conns -> Seq(Responses)]
    <3>1. CASE EncodeOk(c, r)
      <4> HIDE DEF r
      <4> QED
        BY ZenonT(30), <2>1, <3>1, EncodeType
    <3>2. CASE EncodeFails(c)
      BY ZenonT(30), <3>2 DEF EncodeFails, ClientTypeOK
    <3> QED
      BY ZenonT(30), <1>2, <3>1, <3>2 DEF Deliver
  <2>3. encErr' \in [Conns -> BOOLEAN]
    BY ZenonT(30), <1>2 DEF Deliver, EncodeOk, EncodeFails, HandlerTypeOK
  <2>4. subscriber' \in [Conns -> {"none", "select", "encode", "leave"}]
    BY ZenonT(30), <1>2 DEF Deliver, HandlerTypeOK
  <2> QED
    BY ZenonT(30), <1>2, <2>2, <2>3, <2>4 DEF Deliver, ClientTypeOK, HandlerTypeOK
<1>3. CASE SeeStop(c)
  BY ZenonT(30), <1>3 DEF SeeStop, ClientTypeOK, HandlerTypeOK
<1>4. CASE Leave(c)
  BY ZenonT(30), <1>4 DEF Leave, ClientTypeOK, HandlerTypeOK
<1>5. CASE Distribute(c)
  <2>1. /\ lastToken + 1 \in Nat /\ lastToken' \in 0 .. MaxDeliveries
        /\ depth' \in 0 .. Capacity
    BY <1>5, HandlerAssumption DEF Distribute, HandlerTypeOK
  <2>2. [deliveries EXCEPT ![c] = Append(@, lastToken + 1)]
            \in [Conns -> Seq(Nat)]
    BY <2>1, AppendType DEF HandlerTypeOK
  <2> QED
    BY ZenonT(30), <1>5, <2>1, <2>2 DEF Distribute, ClientTypeOK, HandlerTypeOK
<1> QED
  BY ZenonT(30), <1>1, <1>2, <1>3, <1>4, <1>5 DEF SubscriberStep

\* The initial state is typed.
LEMMA InitType == Init => TypeOK
<1> SUFFICES ASSUME Init PROVE TypeOK
  BY ZenonT(30)
<1>1. ClientTypeOK
  BY ClientAssumption DEF Init, ClientInit, ClientTypeOK, Conns
<1>2. NoReply \in Responses
  BY ZenonT(30) DEF NoReply, Response, Request, Responses, RequestTypes
<1>3. HandlerTypeOK
  <2>1. /\ HandlerInit
        /\ ctxDone = FALSE /\ brokerClosed = FALSE /\ workers = FALSE
    BY ZenonT(30) DEF Init
  <2>2. depth \in 0 .. Capacity /\ lastToken \in 0 .. MaxDeliveries
    BY <2>1, HandlerAssumption DEF HandlerInit
  <2>3. reply \in [Conns -> Responses]
    BY ZenonT(30), <1>2, <2>1 DEF HandlerInit
  <2>4. deliveries \in [Conns -> Seq(Nat)]
    BY <2>1 DEF HandlerInit
  <2> QED
    BY ZenonT(30), <2>1, <2>2, <2>3, <2>4 DEF HandlerInit, HandlerTypeOK
<1>4. /\ main = "start" /\ conn = NoConn /\ listener = FALSE /\ conns = {}
      /\ closer = "none" /\ wal = TRUE
  BY ZenonT(30) DEF Init
<1> QED
  BY ZenonT(30), <1>1, <1>3, <1>4 DEF TypeOK

\* The steps of the process.
ProcessStep ==
    \/ MainStep \/ CloserStep \/ Signal \/ WorkersEnd
    \/ \E c \in Conns : Dial(c) \/ HandlerDone(c)

\* A step of the process, of a client or of a connection's goroutines.
LEMMA StepCases ==
    ASSUME [Next]_vars
    PROVE  \/ ProcessStep
           \/ /\ UNCHANGED <<processVars, serverVars>>
              /\ \/ ClientNext /\ UNCHANGED handlerVars
                 \/ \E c \in Conns :
                        HandlerStep(c) \/ SubscriberStep(c) \/ Distribute(c)
           \/ UNCHANGED vars
<1>1. ASSUME NEW c \in Conns,
             HandlerStep(c) \/ SubscriberStep(c) \/ Distribute(c)
      PROVE  UNCHANGED processVars
  <2>1. CASE HandlerStep(c)
    BY ZenonT(30), <2>1
       DEF HandlerStep, LoopTop, DecodeError, HandleRequest, HandleVersion,
           HandlePublish, HandleMetrics, HandleQueues, HandleExchanges,
           HandleCall, HandleUnknown, HandleAck, HandleSubscribe,
           HandleUnsubscribe, Decode, PublishReturns, Stopped, Encode,
           StopSubscriber, CloseConn
  <2>2. CASE SubscriberStep(c) \/ Distribute(c)
    BY ZenonT(30), <2>2
       DEF SubscriberStep, TakeDelivery, Deliver, SeeStop, Leave, Distribute
  <2> QED
    BY ZenonT(30), <1>1, <2>1, <2>2
<1> QED
  BY ZenonT(30), <1>1 DEF Next, HandlerNext, ProcessStep

\* runServer, Server.Start and its goroutine, and the system around them.
LEMMA ProcessType ==
    ASSUME TypeOK, ProcessStep
    PROVE  TypeOK'
<1> USE ServerAssumption DEF TypeOK
<1>1. CASE StartBroker
  BY ZenonT(30), <1>1 DEF StartBroker, ClientTypeOK, HandlerTypeOK
<1>2. CASE ListenFails
  BY ZenonT(30), <1>2 DEF ListenFails, ClientTypeOK, HandlerTypeOK
<1>3. CASE Listen
  BY ZenonT(30), <1>3 DEF Listen, ClientTypeOK, HandlerTypeOK
<1>4. ASSUME NEW c \in Conns, Accept(c)
      PROVE  TypeOK'
  <2>1. ClientTypeOK'
    BY ZenonT(30), <1>4 DEF Accept, ClientTypeOK
  <2>2. HandlerTypeOK'
    BY ZenonT(30), <1>4 DEF Accept, HandlerTypeOK
  <2> QED
    BY ZenonT(30), <1>4, <2>1, <2>2 DEF Accept
<1>5. CASE TrackConn
  BY ZenonT(30), <1>5 DEF TrackConn, ClientTypeOK, HandlerTypeOK
<1>6. CASE CheckContext
  <2>1. conn \in Conns
    BY ZenonT(30), <1>6 DEF CheckContext
  <2>2. ClientTypeOK'
    BY ZenonT(30), <1>6, <2>1 DEF CheckContext, ClientTypeOK
  <2>3. HandlerTypeOK'
    BY ZenonT(30), <1>6, <2>1 DEF CheckContext, Goto, HandlerTypeOK
  <2> QED
    BY ZenonT(30), <1>6, <2>2, <2>3 DEF CheckContext
<1>7. CASE AcceptClosed
  BY ZenonT(30), <1>7 DEF AcceptClosed, ClientTypeOK, HandlerTypeOK
<1>8. CASE ShutdownBroker
  <2>1. ClientTypeOK'
    BY ZenonT(30), <1>8 DEF ShutdownBroker, ClientTypeOK
  <2>2. HandlerTypeOK'
    BY ZenonT(30), <1>8 DEF ShutdownBroker, HandlerTypeOK
  <2> QED
    BY ZenonT(30), <1>8, <2>1, <2>2 DEF ShutdownBroker
<1>9. CASE BrokerStopped
  BY ZenonT(30), <1>9 DEF BrokerStopped, ClientTypeOK, HandlerTypeOK
<1>10. CASE CloseWal
  BY ZenonT(30), <1>10 DEF CloseWal, ClientTypeOK, HandlerTypeOK
<1>11. CASE CloseListener
  BY ZenonT(30), <1>11 DEF CloseListener, ClientTypeOK, HandlerTypeOK
<1>12. CASE CloseConns
  BY ZenonT(30), <1>12 DEF CloseConns, ClientTypeOK, HandlerTypeOK
<1>13. CASE Signal \/ WorkersEnd
  <2>1. ClientTypeOK'
    BY ZenonT(30), <1>13 DEF Signal, WorkersEnd, ClientTypeOK
  <2>2. HandlerTypeOK'
    BY ZenonT(30), <1>13 DEF Signal, WorkersEnd, HandlerTypeOK
  <2> QED
    BY <1>13, <2>1, <2>2 DEF Signal, WorkersEnd
<1>14. ASSUME NEW c \in Conns, Dial(c)
       PROVE  TypeOK'
  <2>1. ClientTypeOK'
    BY ZenonT(30), <1>14 DEF Dial, ClientTypeOK
  <2>2. HandlerTypeOK'
    BY ZenonT(30), <1>14 DEF Dial, HandlerTypeOK
  <2> QED
    BY ZenonT(30), <1>14, <2>1, <2>2 DEF Dial
<1>15. ASSUME NEW c \in Conns, HandlerDone(c)
       PROVE  TypeOK'
  <2>1. ClientTypeOK'
    BY ZenonT(30), <1>15 DEF HandlerDone, ClientTypeOK
  <2>2. HandlerTypeOK'
    BY ZenonT(30), <1>15 DEF HandlerDone, Goto, HandlerTypeOK
  <2> QED
    BY ZenonT(30), <1>15, <2>1, <2>2 DEF HandlerDone
<1> QED
  BY ZenonT(30), <1>1, <1>2, <1>3, <1>4, <1>5, <1>6, <1>7, <1>8, <1>9, <1>10, <1>11,
     <1>12, <1>13, <1>14, <1>15
     DEF ProcessStep, MainStep, CloserStep

\* Every step keeps the types.
LEMMA TypeStep == TypeOK /\ [Next]_vars => TypeOK'
<1> SUFFICES ASSUME TypeOK, [Next]_vars PROVE TypeOK'
  BY ZenonT(30)
<1>1. CASE ProcessStep
  BY ZenonT(30), <1>1, ProcessType
<1>2. CASE UNCHANGED <<processVars, serverVars>> /\ ClientNext
           /\ UNCHANGED handlerVars
  <2>1. ClientTypeOK'
    <3>1. ASSUME NEW c \in Conns, Close(c)
          PROVE  ClientTypeOK'
      BY ZenonT(30), <3>1 DEF Close, TypeOK, ClientTypeOK
    <3> QED
      BY ZenonT(30), <1>2, <3>1, ProducerType, ConsumerType DEF ClientNext, TypeOK
  <2>2. HandlerTypeOK'
    BY ZenonT(30), <1>2 DEF TypeOK, HandlerTypeOK
  <2> QED
    BY ZenonT(30), <1>2, <2>1, <2>2 DEF TypeOK
<1>3. ASSUME NEW c \in Conns, UNCHANGED <<processVars, serverVars>>,
             HandlerStep(c) \/ SubscriberStep(c) \/ Distribute(c)
      PROVE  TypeOK'
  <2>1. ClientTypeOK' /\ HandlerTypeOK'
    BY ZenonT(30), <1>3, HandlerStepType, SubscriberType DEF TypeOK
  <2> QED
    BY ZenonT(30), <1>3, <2>1 DEF TypeOK
<1>4. CASE UNCHANGED vars
  <2>1. ClientTypeOK'
    BY ZenonT(30), <1>4 DEF TypeOK, ClientTypeOK
  <2>2. HandlerTypeOK'
    BY ZenonT(30), <1>4 DEF TypeOK, HandlerTypeOK
  <2> QED
    BY ZenonT(30), <1>4, <2>1, <2>2 DEF TypeOK
<1> QED
  BY ZenonT(30), <1>1, <1>2, <1>3, <1>4, StepCases

\* Every variable of the clients, the handlers and the process holds a value
\* of its kind; in particular the queue never holds more than its capacity.
THEOREM TypeCorrect == Spec => []TypeOK
BY InitType, TypeStep, PTL DEF Spec

-----------------------------------------------------------------------------
(* The shutdown. *)

\* Where a handler is while its goroutine runs handleConnection.
Active == {"top", "decode", "publish", "stopping", "reply", "refuse", "exit",
           "exiting"}

\* What the goroutines of a connection do to it: they move its handler, and
\* the last thing a handler does is to close the connection.
LEMMA HandlerEffect ==
    ASSUME TypeOK, NEW c \in Conns,
           HandlerStep(c) \/ SubscriberStep(c) \/ Distribute(c)
    PROVE  /\ UNCHANGED cliEnd
           /\ \/ UNCHANGED <<handler, srvEnd>>
              \/ /\ UNCHANGED srvEnd
                 /\ handler[c] \in Active
                 /\ \E l \in Active : handler' = [handler EXCEPT ![c] = l]
              \/ /\ handler[c] \in Active
                 /\ handler' = [handler EXCEPT ![c] = "returned"]
                 /\ srvEnd' = [srvEnd EXCEPT ![c] = "closed"]
<1> USE DEF Active
<1>1. CASE SubscriberStep(c) \/ Distribute(c)
  BY ZenonT(30), <1>1
     DEF SubscriberStep, TakeDelivery, Deliver, SeeStop, Leave, Distribute
<1>2. CASE LoopTop(c) \/ DecodeError(c) \/ PublishReturns(c) \/ Stopped(c)
           \/ StopSubscriber(c)
  BY ZenonT(30), <1>2
     DEF LoopTop, DecodeError, PublishReturns, Stopped, StopSubscriber,
         Complete, Goto
<1>3. CASE HandleRequest(c)
  BY ZenonT(30), <1>3
     DEF HandleRequest, HandleVersion, HandlePublish, HandleMetrics,
         HandleQueues, HandleExchanges, HandleCall, HandleUnknown, HandleAck,
         HandleSubscribe, HandleUnsubscribe, Decode, Respond, Prepare, Goto
<1>4. CASE Encode(c)
  BY ZenonT(30), <1>4 DEF Encode, Goto
<1>5. CASE CloseConn(c)
  BY ZenonT(30), <1>5 DEF CloseConn, Goto
<1> QED
  BY ZenonT(30), <1>1, <1>2, <1>3, <1>4, <1>5 DEF HandlerStep

\* What a client does to its connection: at most it closes its own end.
LEMMA ClientEffect ==
    ASSUME TypeOK, ClientNext
    PROVE  /\ UNCHANGED srvEnd
           /\ \A c \in Conns : cliEnd'[c] = "none" => cliEnd[c] = "none"
<1> USE DEF Conns
<1>1. ASSUME NEW p \in Producers, ProducerStep(p)
      PROVE  UNCHANGED <<srvEnd, cliEnd>>
  BY ZenonT(30), <1>1
     DEF ProducerStep, Publish, GetMetrics, ManageQueues, ManageExchanges,
         CallOther, Call, Answered, DecodeFails
<1>2. ASSUME NEW c \in Consumers, ConsumerStep(c)
      PROVE  /\ UNCHANGED srvEnd
             /\ UNCHANGED cliEnd \/ cliEnd' = [cliEnd EXCEPT ![c] = "closed"]
  BY ZenonT(30), <1>2
     DEF ConsumerStep, Subscribe, Unsubscribe, Ack, Send, Receive,
         ReceiveReturns, ReceiveFails, Cancel, WatcherEnds
<1>3. ASSUME NEW c \in Conns, Close(c)
      PROVE  /\ UNCHANGED srvEnd
             /\ cliEnd' = [cliEnd EXCEPT ![c] = "closed"]
  BY ZenonT(30), <1>3 DEF Close
<1>4. cliEnd \in [Conns -> {"none", "open", "closed"}]
  BY ZenonT(30) DEF TypeOK, ClientTypeOK
<1> QED
  BY ZenonT(30), <1>1, <1>2, <1>3, <1>4 DEF ClientNext

\* Why no connection is left: every connection with a handler is tracked until
\* it is closed, and no handler starts once the context is done.
Tracked ==
    /\ closer \in {"closing", "done"} => ctxDone
    /\ main = "check" => conn \in conns
    /\ \A c \in Conns :
           /\ cliEnd[c] = "none" => srvEnd[c] = "none"
           /\ handler[c] \in Active => c \in conns
           /\ handler[c] \in {"returned", "done"} => srvEnd[c] = "closed"
           /\ handler[c] # "none" \/ c \in conns \/ c = conn
                  => srvEnd[c] \in {"open", "closed"}
           /\ c = conn => handler[c] = "none"
    /\ NoConnectionLeft

\* Every step keeps track of the connections.
LEMMA TrackedStep ==
    ASSUME TypeOK, Tracked, [Next]_vars
    PROVE  Tracked'
<1> USE DEF Tracked, NoConnectionLeft
<1>0. /\ srvEnd \in [Conns -> {"none", "backlog", "open", "closed"}]
      /\ cliEnd \in [Conns -> {"none", "open", "closed"}]
      /\ \A c \in Conns : handler[c] \in Active \cup {"none", "returned", "done"}
      /\ DOMAIN handler = Conns /\ handler = [c \in Conns |-> handler[c]]
      /\ NoConn \notin Conns
      /\ conn # NoConn <=> main \in {"track", "check"}
      /\ conn \in Conns \cup {NoConn}
  BY ServerAssumption DEF TypeOK, ClientTypeOK, HandlerTypeOK, Active
<1>1. CASE StartBroker \/ ListenFails \/ Listen \/ AcceptClosed \/ ShutdownBroker
           \/ BrokerStopped \/ CloseWal \/ Signal \/ WorkersEnd
  <2>1. /\ UNCHANGED <<srvEnd, cliEnd, handler, conns, conn>>
        /\ main' # "check" \/ UNCHANGED main
        /\ closer' \in {closer, "waiting"}
        /\ ctxDone => ctxDone'
    BY ZenonT(30), <1>1
       DEF StartBroker, ListenFails, Listen, AcceptClosed, ShutdownBroker,
           BrokerStopped, CloseWal, Signal, WorkersEnd
  <2> QED
    BY ZenonT(30), <2>1
<1>2. ASSUME NEW d \in Conns, Accept(d)
      PROVE  Tracked'
  BY <1>0, <1>2 DEF Accept
<1>3. CASE TrackConn
  BY ZenonT(30), <1>0, <1>3 DEF TrackConn
<1>4. CASE CheckContext
  <2>0. /\ main = "check" /\ conn \in Conns /\ conn \in conns
        /\ main' = "accept" /\ conn' = NoConn
        /\ UNCHANGED <<cliEnd, ctxDone, closer>>
    BY ZenonT(30), <1>0, <1>4 DEF CheckContext
  <2>1. CASE ctxDone
    <3>1. /\ conns' = conns \ {conn} /\ UNCHANGED handler
          /\ srvEnd' = [srvEnd EXCEPT ![conn] = "closed"]
      BY ZenonT(30), <1>4, <2>1 DEF CheckContext
    <3> QED
      BY <1>0, <2>0, <3>1 DEF Active
  <2>2. CASE ~ctxDone
    <3>1. /\ handler' = [handler EXCEPT ![conn] = "top"]
          /\ UNCHANGED <<conns, srvEnd>>
      BY ZenonT(30), <1>4, <2>2 DEF CheckContext, Goto
    <3> QED
      BY <1>0, <2>0, <2>2, <3>1 DEF Active
  <2> QED
    BY ZenonT(30), <2>1, <2>2
<1>5. CASE CloseListener
  BY ZenonT(30), <1>0, <1>5 DEF CloseListener
<1>6. CASE CloseConns
  BY <1>0, <1>6 DEF CloseConns
<1>7. ASSUME NEW d \in Conns, Dial(d)
      PROVE  Tracked'
  BY <1>0, <1>7 DEF Dial, Active
<1>8. ASSUME NEW d \in Conns, HandlerDone(d)
      PROVE  Tracked'
  BY <1>0, <1>8 DEF HandlerDone, Goto, Active
<1>9. CASE UNCHANGED <<processVars, serverVars>> /\ ClientNext
           /\ UNCHANGED handlerVars
  BY ZenonT(30), <1>9, ClientEffect
<1>10. ASSUME NEW d \in Conns, UNCHANGED <<processVars, serverVars>>,
              HandlerStep(d) \/ SubscriberStep(d) \/ Distribute(d)
       PROVE  Tracked'
  <2>1. UNCHANGED cliEnd
    BY ZenonT(30), <1>10, HandlerEffect
  <2>2. CASE UNCHANGED <<handler, srvEnd>>
    BY ZenonT(30), <1>10, <2>1, <2>2
  <2>3. CASE /\ UNCHANGED srvEnd
             /\ handler[d] \in Active
             /\ \E l \in Active : handler' = [handler EXCEPT ![d] = l]
    BY <1>0, <1>10, <2>1, <2>3 DEF Active
  <2>4. CASE /\ handler[d] \in Active
             /\ handler' = [handler EXCEPT ![d] = "returned"]
             /\ srvEnd' = [srvEnd EXCEPT ![d] = "closed"]
    BY <1>0, <1>10, <2>1, <2>4 DEF Active
  <2> QED
    BY ZenonT(30), <1>10, <2>2, <2>3, <2>4, HandlerEffect
<1>11. CASE UNCHANGED vars
  BY ZenonT(30), <1>11
<1> QED
  BY ZenonT(30), <1>1, <1>2, <1>3, <1>4, <1>5, <1>6, <1>7, <1>8, <1>9, <1>10, <1>11,
     StepCases
     DEF ProcessStep, MainStep, CloserStep

\* The order in which runServer takes the process apart.
Ordered ==
    /\ main \in {"start", "listen"} => closer = "none"
    /\ main \in {"accept", "track", "check", "wait", "shutdown"}
           => closer # "none"
    /\ main \in {"shutdown", "return", "exited"} /\ closer # "none"
           => \A c \in Conns : handler[c] \in {"none", "done"}
    /\ main \in {"return", "exited"} /\ closer # "none" => ~workers
    /\ ~wal => main = "exited"

\* Every step keeps to the order.
LEMMA OrderedStep ==
    ASSUME TypeOK, Ordered, [Next]_vars
    PROVE  Ordered'
<1> USE DEF Ordered
<1>0. /\ \A c \in Conns : handler[c] \in Active \cup {"none", "returned", "done"}
      /\ DOMAIN handler = Conns /\ handler = [c \in Conns |-> handler[c]]
  BY ZenonT(30) DEF TypeOK, HandlerTypeOK, Active
<1>1. CASE MainStep
  <2>1. CASE StartBroker \/ ListenFails \/ Listen
    BY ZenonT(30), <2>1 DEF StartBroker, ListenFails, Listen
  <2>2. ASSUME NEW d \in Conns, Accept(d)
        PROVE  Ordered'
    BY ZenonT(30), <2>2 DEF Accept
  <2>3. CASE TrackConn \/ CheckContext \/ AcceptClosed
    BY ZenonT(30), <2>3 DEF TrackConn, CheckContext, AcceptClosed
  <2>4. CASE ShutdownBroker \/ BrokerStopped
    BY <2>4 DEF ShutdownBroker, BrokerStopped
  <2>5. CASE CloseWal
    BY ZenonT(30), <2>5 DEF CloseWal
  <2> QED
    BY ZenonT(30), <1>1, <2>1, <2>2, <2>3, <2>4, <2>5 DEF MainStep
<1>2. CASE CloserStep \/ Signal \/ WorkersEnd
  <2>1. CASE CloseListener \/ CloseConns
    <3>1. /\ UNCHANGED <<main, handler, workers, wal>>
          /\ closer # "none" /\ closer' # "none"
      BY ZenonT(30), <2>1 DEF CloseListener, CloseConns
    <3> QED
      BY ZenonT(30), <3>1
  <2>2. CASE Signal \/ WorkersEnd
    <3>1. UNCHANGED <<main, handler, closer, wal>> /\ workers' \in {workers, FALSE}
      BY ZenonT(30), <2>2 DEF Signal, WorkersEnd
    <3>2. CASE workers' = workers
      BY ZenonT(30), <3>1, <3>2
    <3>3. CASE workers' = FALSE
      BY ZenonT(30), <3>1, <3>3
    <3> QED
      BY ZenonT(30), <3>1, <3>2, <3>3
  <2> QED
    BY ZenonT(30), <1>2, <2>1, <2>2 DEF CloserStep
<1>3. ASSUME NEW d \in Conns, Dial(d) \/ HandlerDone(d)
      PROVE  Ordered'
  BY <1>0, <1>3 DEF Dial, HandlerDone, Goto
<1>4. CASE UNCHANGED <<processVars, serverVars>> /\ ClientNext
           /\ UNCHANGED handlerVars
  BY ZenonT(30), <1>4
<1>5. ASSUME NEW d \in Conns, UNCHANGED <<processVars, serverVars>>,
             HandlerStep(d) \/ SubscriberStep(d) \/ Distribute(d)
      PROVE  Ordered'
  <2>1. handler' = handler \/ handler[d] \in Active
    BY ZenonT(30), <1>5, HandlerEffect
  <2>2. CASE handler' = handler
    BY ZenonT(30), <1>5, <2>2
  <2>3. CASE handler[d] \in Active
    BY ZenonT(30), <1>5, <2>3 DEF Active
  <2> QED
    BY ZenonT(30), <2>1, <2>2, <2>3
<1>6. CASE UNCHANGED vars
  BY ZenonT(30), <1>6
<1> QED
  BY ZenonT(30), <1>1, <1>2, <1>3, <1>4, <1>5, <1>6, StepCases DEF ProcessStep

\* Nothing is tracked or torn down at the start.
LEMMA InitShutdown == Init => Tracked /\ Ordered
BY ServerAssumption
   DEF Init, ClientInit, HandlerInit, Tracked, Ordered, NoConnectionLeft,
       Active

-----------------------------------------------------------------------------
(* Subscriptions. *)

\* A subscription goroutine runs only under an active handler, and ends only
\* after it was stopped or could not write.
Served ==
    \A c \in Conns :
        /\ c \in registered => subscriber[c] # "none"
        /\ subscriber[c] # "none" => handler[c] \in Active
        /\ stopSubscribe[c] = "nil" => subscriber[c] = "none"
        /\ stopSubscribe[c] = "open" /\ subscriber[c] = "none" => encErr[c]
        /\ subscriber[c] = "leave" => stopSubscribe[c] = "closed" \/ encErr[c]

\* The handler starts the goroutine, stops it and waits for it.
LEMMA ServedHandler ==
    ASSUME TypeOK, Served, NEW d \in Conns, HandlerStep(d)
    PROVE  Served'
<1> USE DEF Served
<1>0. /\ handler = [c \in Conns |-> handler[c]]
      /\ stopSubscribe = [c \in Conns |-> stopSubscribe[c]]
      /\ subscriber = [c \in Conns |-> subscriber[c]]
      /\ encErr \in [Conns -> BOOLEAN]
  BY ZenonT(30) DEF TypeOK, HandlerTypeOK
<1>1. CASE LoopTop(d) \/ DecodeError(d) \/ PublishReturns(d)
  <2>1. /\ UNCHANGED <<registered, subscriber, stopSubscribe, encErr>>
        /\ \E l \in Active : handler' = [handler EXCEPT ![d] = l]
    BY ZenonT(30), <1>1
       DEF LoopTop, DecodeError, PublishReturns, Complete, Goto, Active
  <2> QED
    BY ZenonT(30), <1>0, <2>1
<1>2. CASE Stopped(d)
  BY ZenonT(30), <1>0, <1>2 DEF Stopped, Complete, Goto, Active
<1>3. CASE StopSubscriber(d)
  BY ZenonT(30), <1>0, <1>3 DEF StopSubscriber, Goto, Active
<1>4. CASE CloseConn(d)
  BY ZenonT(30), <1>0, <1>4 DEF CloseConn, Goto, Active
<1>5. CASE Encode(d)
  <2>1. /\ UNCHANGED <<registered, subscriber, stopSubscribe>>
        /\ \E l \in Active : handler' = [handler EXCEPT ![d] = l]
        /\ \A c \in Conns : encErr[c] => encErr'[c]
    BY ZenonT(30), <1>0, <1>5 DEF Encode, EncodeOk, EncodeFails, Goto, Active
  <2> QED
    BY ZenonT(30), <1>0, <2>1
<1>6. CASE HandleRequest(d)
  <2> DEFINE q == Head(toServer[d])
  <2>1. CASE HandleSubscribe(d, q)
    <3>1. CASE Prepare(d, q, FALSE, "reply")
               /\ UNCHANGED <<subVars, registered>>
      BY ZenonT(30), <1>0, <2>1, <3>1 DEF HandleSubscribe, Decode, Prepare, Goto, Active
    <3>2. CASE /\ stopSubscribe[d] = "nil"
               /\ registered' = registered \cup {d}
               /\ stopSubscribe' = [stopSubscribe EXCEPT ![d] = "open"]
               /\ subscriber' = [subscriber EXCEPT ![d] = "select"]
               /\ Goto(d, "top")
      BY ZenonT(30), <1>0, <2>1, <3>2 DEF HandleSubscribe, Decode, Goto, Active
    <3> QED
      BY ZenonT(30), <2>1, <3>1, <3>2 DEF HandleSubscribe, Respond
  <2>2. CASE HandleUnsubscribe(d, q)
    BY ZenonT(30), <1>0, <2>2
       DEF HandleUnsubscribe, Decode, Respond, Prepare, Goto, Active
  <2>3. CASE ~HandleSubscribe(d, q) /\ ~HandleUnsubscribe(d, q)
    <3>1. /\ UNCHANGED <<registered, subscriber, stopSubscribe, encErr>>
          /\ \E l \in Active : handler' = [handler EXCEPT ![d] = l]
      BY ZenonT(30), <1>6, <2>3
         DEF HandleRequest, HandleVersion, HandlePublish, HandleMetrics,
             HandleQueues, HandleExchanges, HandleCall, HandleUnknown,
             HandleAck, Decode, Respond, Prepare, Goto, Active
    <3> QED
      BY ZenonT(30), <1>0, <3>1
  <2> QED
    BY ZenonT(30), <2>1, <2>2, <2>3
<1> QED
  BY ZenonT(30), <1>1, <1>2, <1>3, <1>4, <1>5, <1>6 DEF HandlerStep

\* Every step keeps subscriptions served.
LEMMA ServedStep ==
    ASSUME TypeOK, Served, [Next]_vars
    PROVE  Served'
<1> USE DEF Served
<1>0. /\ handler = [c \in Conns |-> handler[c]]
      /\ stopSubscribe = [c \in Conns |-> stopSubscribe[c]]
      /\ subscriber = [c \in Conns |-> subscriber[c]]
      /\ encErr \in [Conns -> BOOLEAN]
  BY ZenonT(30) DEF TypeOK, HandlerTypeOK
<1>1. CASE ProcessStep
  <2>1. /\ UNCHANGED <<subscriber, stopSubscribe, encErr>>
        /\ registered' \in {registered, {}}
    BY ZenonT(30), <1>1
       DEF ProcessStep, MainStep, CloserStep, StartBroker, ListenFails, Listen,
           Accept, TrackConn, CheckContext, AcceptClosed, ShutdownBroker,
           BrokerStopped, CloseWal, CloseListener, CloseConns, Signal,
           WorkersEnd, Dial, HandlerDone
  <2>2. \A c \in Conns : handler[c] \in Active => handler'[c] \in Active
    <3>1. CASE CheckContext
      BY ZenonT(30), <1>0, <3>1 DEF CheckContext, Goto, Active
    <3>2. ASSUME NEW d \in Conns, HandlerDone(d)
          PROVE  \A c \in Conns : handler[c] \in Active => handler'[c] \in Active
      BY ZenonT(30), <1>0, <3>2 DEF HandlerDone, Goto, Active
    <3>3. CASE ~CheckContext /\ ~\E d \in Conns : HandlerDone(d)
      BY ZenonT(30), <1>1, <3>3
         DEF ProcessStep, MainStep, CloserStep, StartBroker, ListenFails,
             Listen, Accept, TrackConn, AcceptClosed, ShutdownBroker,
             BrokerStopped, CloseWal, CloseListener, CloseConns, Signal,
             WorkersEnd, Dial
    <3> QED
      BY ZenonT(30), <3>1, <3>2, <3>3
  <2> QED
    BY ZenonT(30), <2>1, <2>2
<1>2. CASE UNCHANGED handlerVars \/ UNCHANGED vars
  <2>1. UNCHANGED <<registered, subscriber, stopSubscribe, encErr, handler>>
    BY ZenonT(30), <1>2
  <2> QED
    BY ZenonT(30), <2>1
<1>3. ASSUME NEW d \in Conns, SubscriberStep(d)
      PROVE  Served'
  <2>1. CASE TakeDelivery(d)
    BY ZenonT(30), <1>0, <2>1 DEF TakeDelivery
  <2>2. CASE Deliver(d)
    BY ZenonT(30), <1>0, <2>2 DEF Deliver, EncodeOk, EncodeFails
  <2>3. CASE SeeStop(d)
    BY ZenonT(30), <1>0, <2>3 DEF SeeStop
  <2>4. CASE Leave(d)
    BY ZenonT(30), <1>0, <2>4 DEF Leave
  <2> QED
    BY ZenonT(30), <1>3, <2>1, <2>2, <2>3, <2>4 DEF SubscriberStep
<1>4. ASSUME NEW d \in Conns, Distribute(d)
      PROVE  Served'
  BY ZenonT(30), <1>4 DEF Distribute
<1> QED
  BY ZenonT(30), <1>1, <1>2, <1>3, <1>4, ServedHandler, StepCases

\* There are no subscriptions at the start.
LEMMA InitServed == Init => Served
BY ZenonT(30) DEF Init, ClientInit, HandlerInit, Served

(***************************************************************************)
(* No handler is left on an open connection once closeConns has run:       *)
(* trackConn and the look at the context after it leave no gap.            *)
(***************************************************************************)
THEOREM ConnectionsClosed == Spec => []NoConnectionLeft
<1>1. Tracked => NoConnectionLeft
  BY ZenonT(30) DEF Tracked
<1> QED
  BY <1>1, InitShutdown, TypeCorrect, TrackedStep, PTL DEF Spec

(***************************************************************************)
(* runServer closes the log after every goroutine that appends to it has   *)
(* ended, if the server had started.                                       *)
(***************************************************************************)
THEOREM OrderlyShutdown == Spec => []LogClosedLast
<1>1. Ordered => LogClosedLast
  BY ZenonT(30) DEF Ordered, LogClosedLast
<1> QED
  BY <1>1, InitShutdown, TypeCorrect, OrderedStep, PTL DEF Spec

(***************************************************************************)
(* A registered session has its goroutine, and the goroutine its handler.  *)
(***************************************************************************)
THEOREM Subscriptions == Spec => []SessionsServed
<1>1. Served => SessionsServed
  BY ZenonT(30) DEF Served, SessionsServed, Active
<1> QED
  BY <1>1, InitServed, TypeCorrect, ServedStep, PTL DEF Spec

-----------------------------------------------------------------------------
(* What passes between a client and its handler: the parts of a message. *)

\* The parts of a response.
LEMMA ResponseFields ==
    ASSUME NEW q, NEW ok, NEW s
    PROVE  /\ Response(q, ok, s).ok = ok /\ Response(q, ok, s).re = q.type
           /\ Response(q, ok, s).no = q.no /\ Response(q, ok, s).session = s
BY ZenonT(30) DEF Response

\* What Append leaves where.
LEMMA AppendFacts ==
    ASSUME NEW S, NEW s \in Seq(S), NEW e \in S
    PROVE  /\ Len(s) \in Nat /\ Len(Append(s, e)) = Len(s) + 1
           /\ Append(s, e)[Len(s) + 1] = e
           /\ \A i \in 1 .. Len(s) : Append(s, e)[i] = s[i]
           /\ \A i \in 1 .. Len(s) + 1 : i \in 1 .. Len(s) \/ i = Len(s) + 1
OBVIOUS

\* What Tail leaves where.
LEMMA TailFacts ==
    ASSUME NEW S, NEW s \in Seq(S), s # <<>>
    PROVE  /\ Len(s) \in Nat /\ Len(s) # 0 /\ Len(Tail(s)) = Len(s) - 1
           /\ Head(s) = s[1] /\ Head(s) \in S /\ 1 \in 1 .. Len(s)
           /\ \A i \in 1 .. Len(Tail(s)) :
                  Tail(s)[i] = s[i + 1] /\ i + 1 \in 1 .. Len(s)
           /\ \A i, j \in 1 .. Len(Tail(s)) : i < j => i + 1 < j + 1
OBVIOUS

-----------------------------------------------------------------------------
(* What a step does to the conversation on one connection. *)

\* What a connection and its two ends hold of the conversation on it.
Conversation(x) ==
    <<toServer[x], toClient[x], phase[x], calls[x], broken[x], reply[x],
      stopSubscribe[x], subscriber[x], sessions[x]>>

\* Steps of a client change only its own conversation.
LEMMA ClientElsewhere ==
    ASSUME TypeOK, NEW x \in Conns, ClientNext, UNCHANGED handlerVars
    PROVE  \/ /\ Conversation(x)' = Conversation(x)
              /\ x \in Producers => outcome'[x] = outcome[x]
           \/ x \in Producers /\ ProducerStep(x)
           \/ x \in Consumers /\ ConsumerStep(x)
<1>0. /\ toServer = [c \in Conns |-> toServer[c]]
      /\ toClient = [c \in Conns |-> toClient[c]]
      /\ phase = [c \in Conns |-> phase[c]]
      /\ calls = [c \in Conns |-> calls[c]]
      /\ broken = [c \in Conns |-> broken[c]]
      /\ outcome = [c \in Producers |-> outcome[c]]
  BY ZenonT(30) DEF TypeOK, ClientTypeOK
<1>1. ASSUME NEW p \in Producers, ProducerStep(p), p # x
      PROVE  /\ UNCHANGED <<toServer[x], toClient[x], phase[x], calls[x], broken[x]>>
             /\ x \in Producers => outcome'[x] = outcome[x]
  <2>1. p \in Conns
    BY ZenonT(30) DEF Conns
  <2>2. ASSUME NEW t, Call(p, t)
        PROVE  /\ UNCHANGED <<toServer[x], toClient[x], phase[x], calls[x],
                              broken[x]>>
               /\ x \in Producers => outcome'[x] = outcome[x]
    BY ZenonT(30), <1>0, <1>1, <2>1, <2>2 DEF Call, Return
  <2>3. CASE Answered(p)
    BY ZenonT(30), <1>0, <1>1, <2>1, <2>3 DEF Answered, Return
  <2>4. ASSUME NEW r, DecodeFails(p, r)
        PROVE  /\ UNCHANGED <<toServer[x], toClient[x], phase[x], calls[x],
                              broken[x]>>
               /\ x \in Producers => outcome'[x] = outcome[x]
    BY ZenonT(30), <1>0, <1>1, <2>1, <2>4 DEF DecodeFails, Return
  <2> QED
    BY ZenonT(30), <1>1, <2>2, <2>3, <2>4
       DEF ProducerStep, Publish, GetMetrics, ManageQueues, ManageExchanges,
           CallOther
<1>2. ASSUME NEW c \in Consumers, ConsumerStep(c), c # x
      PROVE  UNCHANGED <<toServer[x], toClient[x], phase[x], calls[x], broken[x],
                         outcome>>
  <2>1. c \in Conns
    BY ZenonT(30) DEF Conns
  <2>2. ASSUME NEW t, NEW k, Send(c, t, k)
        PROVE  UNCHANGED <<toServer[x], toClient[x], phase[x], calls[x],
                           broken[x], outcome>>
    BY ZenonT(30), <1>0, <1>2, <2>1, <2>2 DEF Send
  <2>3. CASE Receive(c) \/ ReceiveReturns(c) \/ ReceiveFails(c) \/ Cancel(c)
             \/ WatcherEnds(c)
    BY ZenonT(30), <1>0, <1>2, <2>1, <2>3
       DEF Receive, ReceiveReturns, ReceiveFails, Cancel, WatcherEnds
  <2> QED
    BY ZenonT(30), <1>2, <2>2, <2>3 DEF ConsumerStep, Subscribe, Unsubscribe, Ack
<1>3. ASSUME NEW c \in Conns, Close(c)
      PROVE  UNCHANGED <<toServer, toClient, phase, calls, broken, outcome>>
  BY ZenonT(30), <1>3 DEF Close
<1> QED
  BY ZenonT(30), <1>1, <1>2, <1>3 DEF ClientNext, Conversation

\* So do the goroutines of a connection.
LEMMA HandlerElsewhere ==
    ASSUME TypeOK, NEW x \in Conns, NEW d \in Conns, d # x,
           HandlerStep(d) \/ SubscriberStep(d) \/ Distribute(d)
    PROVE  /\ Conversation(x)' = Conversation(x)
           /\ UNCHANGED <<handler[x], outcome>>
<1>0. /\ toServer = [c \in Conns |-> toServer[c]]
      /\ toClient = [c \in Conns |-> toClient[c]]
      /\ handler = [c \in Conns |-> handler[c]]
      /\ reply = [c \in Conns |-> reply[c]]
      /\ stopSubscribe = [c \in Conns |-> stopSubscribe[c]]
      /\ subscriber = [c \in Conns |-> subscriber[c]]
      /\ sessions = [c \in Conns |-> sessions[c]]
  BY DEF TypeOK, ClientTypeOK, HandlerTypeOK
<1> DEFINE Same == /\ toServer'[x] = toServer[x] /\ toClient'[x] = toClient[x]
                   /\ handler'[x] = handler[x] /\ reply'[x] = reply[x]
                   /\ stopSubscribe'[x] = stopSubscribe[x]
                   /\ subscriber'[x] = subscriber[x]
                   /\ sessions'[x] = sessions[x]
                   /\ UNCHANGED clientVars
<1>1. CASE LoopTop(d) \/ DecodeError(d) \/ StopSubscriber(d) \/ CloseConn(d)
  <2>1. Same
    BY ZenonT(30), <1>0, <1>1 DEF LoopTop, DecodeError, StopSubscriber, CloseConn, Goto
  <2> QED
    BY ZenonT(30), <2>1 DEF Conversation
<1>2. CASE PublishReturns(d) \/ Stopped(d)
  <2>1. Same
    BY ZenonT(30), <1>0, <1>2 DEF PublishReturns, Stopped, Complete, Goto
  <2> QED
    BY ZenonT(30), <2>1 DEF Conversation
<1>3. CASE Encode(d)
  <2>1. Same
    BY ZenonT(30), <1>0, <1>3 DEF Encode, EncodeOk, EncodeFails, Goto
  <2> QED
    BY ZenonT(30), <2>1 DEF Conversation
<1>4. CASE HandleRequest(d)
  <2> DEFINE q == Head(toServer[d])
  <2>1. CASE HandleSubscribe(d, q)
    <3>1. Same
      BY ZenonT(30), <1>0, <2>1 DEF HandleSubscribe, Decode, Respond, Prepare, Goto
    <3> QED
      BY ZenonT(30), <3>1 DEF Conversation
  <2>2. CASE HandleUnsubscribe(d, q)
    <3>1. Same
      BY ZenonT(30), <1>0, <2>2
         DEF HandleUnsubscribe, Decode, Respond, Prepare, Goto
    <3> QED
      BY ZenonT(30), <3>1 DEF Conversation
  <2>3. CASE ~HandleSubscribe(d, q) /\ ~HandleUnsubscribe(d, q)
    <3>1. Same
      BY ZenonT(30), <1>0, <1>4, <2>3
         DEF HandleRequest, HandleVersion, HandlePublish, HandleMetrics,
             HandleQueues, HandleExchanges, HandleCall, HandleUnknown,
             HandleAck, Decode, Respond, Prepare, Goto
    <3> QED
      BY ZenonT(30), <3>1 DEF Conversation
  <2> QED
    BY ZenonT(30), <2>1, <2>2, <2>3
<1>5. CASE SubscriberStep(d) \/ Distribute(d)
  <2>1. Same
    BY ZenonT(30), <1>0, <1>5
       DEF SubscriberStep, TakeDelivery, Deliver, SeeStop, Leave, Distribute,
           EncodeOk, EncodeFails
  <2> QED
    BY ZenonT(30), <2>1 DEF Conversation
<1> QED
  BY ZenonT(30), <1>1, <1>2, <1>3, <1>4, <1>5 DEF HandlerStep

\* The steps of the process move handlers that do not converse.
LEMMA ProcessElsewhere ==
    ASSUME TypeOK, NEW x \in Conns, ProcessStep
    PROVE  /\ Conversation(x)' = Conversation(x)
           /\ UNCHANGED <<stored, outcome>>
           /\ handler'[x] = handler[x] \/ handler'[x] \in {"top", "done"}
<1>0. handler = [c \in Conns |-> handler[c]]
  BY ZenonT(30) DEF TypeOK, HandlerTypeOK
<1>1. /\ UNCHANGED <<toServer, toClient, clientVars, reply, subVars, stored>>
      /\ \/ UNCHANGED handler
         \/ handler' = [handler EXCEPT ![conn] = "top"]
         \/ \E d \in Conns : handler' = [handler EXCEPT ![d] = "done"]
  BY ZenonT(30)
     DEF ProcessStep, MainStep, CloserStep, StartBroker, ListenFails, Listen,
         Accept, TrackConn, CheckContext, AcceptClosed, ShutdownBroker,
         BrokerStopped, CloseWal, CloseListener, CloseConns, Signal,
         WorkersEnd, Dial, HandlerDone, Goto
<1> QED
  BY ZenonT(30), <1>0, <1>1 DEF Conversation

-----------------------------------------------------------------------------
(* A producer and its handler. *)

\* The handler works on a request.
Busy == {"publish", "stopping", "reply", "refuse"}

\* As long as the decoder has kept no error, the request of the call that
\* waits is in one place at most: on its way, with the handler, or answered.
Paired(p) ==
    /\ stopSubscribe[p] = "nil" /\ subscriber[p] = "none"
    /\ handler[p] # "stopping"
    /\ \A i \in 1 .. Len(toServer[p]) : toServer[p][i].type \in ProducerTypes
    /\ phase[p] = "idle" => Len(outcome[p]) = calls[p]
    /\ phase[p] = "waiting" => Len(outcome[p]) + 1 = calls[p] /\ ~broken[p]
    /\ phase[p] = "idle" /\ ~broken[p] =>
           /\ Len(toServer[p]) = 0 /\ Len(toClient[p]) = 0
           /\ handler[p] \notin Busy
    /\ phase[p] = "waiting" =>
           /\ Len(toServer[p]) + Len(toClient[p]) <= 1
           /\ handler[p] \in Busy =>
                  /\ Len(toServer[p]) = 0 /\ Len(toClient[p]) = 0
                  /\ reply[p].no = calls[p]
           /\ Len(toServer[p]) = 1 => toServer[p][1].no = calls[p]
           /\ Len(toClient[p]) = 1 => toClient[p][1].no = calls[p]

\* The producer sends one request at a time and takes one answer for it.
LEMMA PairedProducer ==
    ASSUME TypeOK, NEW p \in Producers, Paired(p), ProducerStep(p),
           UNCHANGED handlerVars
    PROVE  Paired(p)'
<1>0. /\ p \in Conns
      /\ toServer[p] \in Seq(Requests) /\ toClient[p] \in Seq(Responses)
      /\ outcome[p] \in Seq(Outcomes) /\ calls[p] \in Nat
      /\ DOMAIN toServer = Conns /\ DOMAIN toClient = Conns
      /\ DOMAIN phase = Conns /\ DOMAIN calls = Conns
      /\ DOMAIN broken = Conns /\ DOMAIN outcome = Producers
      /\ phase[p] \in {"idle", "waiting"} /\ broken[p] \in BOOLEAN
  BY ClientAssumption DEF TypeOK, ClientTypeOK, Conns
<1>1. ASSUME NEW t, Call(p, t)
      PROVE  Paired(p)'
  <2> DEFINE q == Request(t, calls[p] + 1, 0)
  <2>0. /\ q \in Requests /\ q.type \in ProducerTypes /\ q.no = calls[p] + 1
    <3>1. t \in ProducerTypes /\ t \in RequestTypes /\ calls[p] + 1 \in Nat
      BY <1>0, <1>1 DEF Call, RequestTypes
    <3>2. q \in Requests
      BY ZenonT(30), <3>1, RequestType
    <3> QED
      BY ZenonT(30), <3>1, <3>2 DEF Request
  <2>1. /\ phase[p] = "idle" /\ calls'[p] = calls[p] + 1
        /\ UNCHANGED <<toClient[p], broken[p]>>
    BY ZenonT(30), <1>0, <1>1 DEF Call
  <2>2. CASE Return(p, "error", "none", 0) /\ UNCHANGED <<toServer, phase>>
    <3>1. Len(outcome'[p]) = Len(outcome[p]) + 1
      BY <1>0, <2>2 DEF Return
    <3> QED
      BY ZenonT(30), <2>1, <2>2, <3>1 DEF Paired
  <2>3. CASE toServer' = [toServer EXCEPT ![p] = Append(@, q)]
    <3>1. /\ toServer'[p] = Append(toServer[p], q)
          /\ Len(toServer'[p]) = Len(toServer[p]) + 1
          /\ toServer'[p][Len(toServer[p]) + 1] = q
          /\ \A i \in 1 .. Len(toServer[p]) : toServer'[p][i] = toServer[p][i]
      <4>1. toServer'[p] = Append(toServer[p], q)
        BY ZenonT(30), <1>0, <2>3
      <4> HIDE DEF q
      <4> DEFINE s == Append(toServer[p], q)
      <4>2. /\ Len(s) = Len(toServer[p]) + 1 /\ s[Len(toServer[p]) + 1] = q
            /\ \A i \in 1 .. Len(toServer[p]) : s[i] = toServer[p][i]
        BY <1>0, <2>0, AppendFacts
      <4> QED
        BY ZenonT(30), <4>1, <4>2
    <3>2. \A i \in 1 .. Len(toServer'[p]) : toServer'[p][i].type \in ProducerTypes
      BY <1>0, <2>0, <3>1 DEF Paired
    <3>3. CASE broken[p] /\ Return(p, "error", "none", 0) /\ UNCHANGED phase
      <4>1. Len(outcome'[p]) = Len(outcome[p]) + 1
        BY <1>0, <3>3 DEF Return
      <4> QED
        BY ZenonT(30), <2>1, <3>2, <3>3, <4>1 DEF Paired
    <3>4. CASE ~broken[p] /\ phase'[p] = "waiting" /\ UNCHANGED outcome
      BY <1>0, <2>0, <2>1, <3>1, <3>2, <3>4 DEF Paired
    <3> QED
      BY <1>0, <1>1, <2>3, <3>3, <3>4 DEF Call
  <2> HIDE DEF q
  <2> QED
    BY ZenonT(30), <1>1, <2>2, <2>3 DEF Call, q
<1>2. CASE Answered(p)
  <2>1. /\ phase[p] = "waiting" /\ phase'[p] = "idle"
        /\ Len(toClient[p]) = 1 /\ Len(toClient'[p]) = 0
        /\ UNCHANGED <<toServer, calls, broken>>
    <3>1. /\ phase[p] = "waiting" /\ toClient[p] # <<>>
          /\ toClient'[p] = Tail(toClient[p]) /\ phase'[p] = "idle"
          /\ UNCHANGED <<toServer, calls, broken>>
      BY ZenonT(30), <1>0, <1>2 DEF Answered
    <3>2. Len(toClient[p]) = 1
      <4>1. Len(toClient[p]) # 0 /\ Len(toClient[p]) \in Nat
            /\ Len(toServer[p]) \in Nat
        BY <1>0, <3>1
      <4>2. Len(toServer[p]) + Len(toClient[p]) <= 1
        BY ZenonT(30), <3>1 DEF Paired
      <4>3. \A a, b \in Nat : a + b <= 1 /\ b # 0 => b = 1
        OBVIOUS
      <4> QED
        BY ZenonT(30), <4>1, <4>2, <4>3
    <3> QED
      BY <1>0, <3>1, <3>2
  <2>2. Len(outcome'[p]) = Len(outcome[p]) + 1
    BY <1>0, <1>2 DEF Answered, Return
  <2> QED
    BY <1>0, <2>1, <2>2 DEF Paired
<1>3. ASSUME NEW r, DecodeFails(p, r)
      PROVE  Paired(p)'
  <2>1. /\ phase[p] = "waiting" /\ phase'[p] = "idle" /\ broken'[p]
        /\ UNCHANGED <<toServer, toClient, calls>>
    BY ZenonT(30), <1>0, <1>3 DEF DecodeFails
  <2>2. Len(outcome'[p]) = Len(outcome[p]) + 1
    BY <1>0, <1>3 DEF DecodeFails, Return
  <2> QED
    BY ZenonT(30), <1>0, <2>1, <2>2 DEF Paired
<1> QED
  BY ZenonT(30), <1>1, <1>2, <1>3
     DEF ProducerStep, Publish, GetMetrics, ManageQueues, ManageExchanges,
         CallOther

\* What the handler of a producer decodes is one of its requests.
LEMMA ProducerRequest ==
    ASSUME TypeOK, NEW p \in Producers, Paired(p), HandleRequest(p)
    PROVE  /\ handler[p] = "decode" /\ toServer[p] # <<>>
           /\ toServer'[p] = Tail(toServer[p])
           /\ handler'[p] \in Busy \ {"stopping"}
           /\ reply'[p].no = Head(toServer[p]).no
           /\ UNCHANGED <<stopSubscribe, subscriber, toClient, clientVars, stored>>
           /\ reply'[p].re = "publish" => ~reply'[p].ok
<1> DEFINE q == Head(toServer[p])
<1>0. /\ p \in Conns
      /\ toServer[p] \in Seq(Requests)
      /\ DOMAIN toServer = Conns /\ DOMAIN handler = Conns
      /\ DOMAIN reply = Conns
  BY ZenonT(30) DEF TypeOK, ClientTypeOK, HandlerTypeOK, Conns
<1>1. q.type \notin {"subscribe", "unsubscribe", "ack"}
  <2>1. toServer[p] # <<>>
    BY ZenonT(30) DEF HandleRequest
  <2>2. 1 \in 1 .. Len(toServer[p]) /\ q = toServer[p][1]
    BY <1>0, <2>1
  <2>3. q.type \in ProducerTypes
    BY ZenonT(30), <2>2 DEF Paired
  <2> QED
    BY ZenonT(30), <2>3, ClientAssumption
<1> HIDE DEF q
<1>2. \E ok \in BOOLEAN, l \in {"reply", "refuse", "publish"} :
          /\ Decode(p, q, q.type) /\ Prepare(p, q, ok, l)
          /\ q.type = "publish" => ~ok
          /\ UNCHANGED <<subVars, brokerVars>>
  <2>1. CASE HandleVersion(p, q) \/ HandleUnknown(p, q) \/ HandlePublish(p, q)
    BY ZenonT(30), <2>1
       DEF HandleVersion, HandleUnknown, HandlePublish, Decode, Respond
  <2>2. CASE \E t \in {"metrics", "queue", "exchange"} : HandleCall(p, q, t)
    BY ZenonT(30), <2>2 DEF HandleCall, Decode, Respond
  <2>3. CASE HandleAck(p, q) \/ HandleSubscribe(p, q) \/ HandleUnsubscribe(p, q)
    BY ZenonT(30), <1>1, <2>3
       DEF HandleAck, HandleSubscribe, HandleUnsubscribe, Decode
  <2> QED
    BY ZenonT(30), <2>1, <2>2, <2>3
       DEF HandleRequest, HandleMetrics, HandleQueues, HandleExchanges, q
<1>3. PICK ok \in BOOLEAN, l \in {"reply", "refuse", "publish"} :
          /\ Decode(p, q, q.type) /\ Prepare(p, q, ok, l)
          /\ q.type = "publish" => ~ok
          /\ UNCHANGED <<subVars, brokerVars>>
  BY ZenonT(30), <1>2
<1>4. /\ reply'[p] = Response(q, ok, sessions[p]) /\ handler'[p] = l
  BY ZenonT(30), <1>0, <1>3 DEF Prepare, Goto
<1>5. reply'[p].no = q.no /\ reply'[p].re = q.type /\ reply'[p].ok = ok
  <2> DEFINE r == Response(q, ok, sessions[p])
  <2>1. r.no = q.no /\ r.re = q.type /\ r.ok = ok
    BY ResponseFields
  <2> QED
    BY ZenonT(30), <1>4, <2>1
<1>6. /\ toServer' = [toServer EXCEPT ![p] = Tail(@)] /\ handler[p] = "decode"
      /\ UNCHANGED <<toClient, clientVars>>
  BY ZenonT(30), <1>3 DEF Decode
<1> QED
  BY ZenonT(30), <1>0, <1>3, <1>4, <1>5, <1>6 DEF HandleRequest, Busy, q

\* The handler turns the request into its one answer.
LEMMA PairedHandler ==
    ASSUME TypeOK, NEW p \in Producers, Paired(p), HandlerStep(p)
    PROVE  Paired(p)'
<1>0. /\ p \in Conns
      /\ toServer[p] \in Seq(Requests) /\ toClient[p] \in Seq(Responses)
      /\ reply[p] \in Responses /\ phase[p] \in {"idle", "waiting"}
      /\ DOMAIN toServer = Conns /\ DOMAIN toClient = Conns
      /\ DOMAIN handler = Conns /\ DOMAIN reply = Conns
      /\ DOMAIN stopSubscribe = Conns
  BY ZenonT(30) DEF TypeOK, ClientTypeOK, HandlerTypeOK, Conns
<1>1. CASE LoopTop(p) \/ DecodeError(p) \/ StopSubscriber(p) \/ CloseConn(p)
  <2>1. /\ UNCHANGED <<toServer, toClient, reply, subscriber, clientVars>>
        /\ stopSubscribe[p] = "nil" => stopSubscribe'[p] = "nil"
        /\ handler'[p] \notin Busy
    BY ZenonT(30), <1>0, <1>1
       DEF LoopTop, DecodeError, StopSubscriber, CloseConn, Goto, Busy
  <2> QED
    BY ZenonT(30), <2>1 DEF Paired, Busy
<1>2. CASE PublishReturns(p) \/ Stopped(p)
  <2>1. /\ UNCHANGED <<toServer, toClient, subscriber, clientVars>>
        /\ stopSubscribe[p] = "nil" => stopSubscribe'[p] = "nil"
        /\ handler[p] \in Busy /\ handler'[p] # "stopping"
        /\ \E ok \in BOOLEAN : Complete(p, ok)
    BY ZenonT(30), <1>0, <1>2 DEF PublishReturns, Stopped, Busy, Complete, Goto
  <2>2. reply'[p].no = reply[p].no
    BY <1>0, <2>1 DEF Complete, Responses
  <2> QED
    BY ZenonT(30), <2>1, <2>2 DEF Paired
<1>3. CASE Encode(p)
  <2>1. /\ UNCHANGED <<toServer, subscriber, stopSubscribe, clientVars>>
        /\ handler[p] \in Busy
        /\ handler'[p] \notin Busy /\ handler'[p] # "stopping"
        /\ toClient'[p] \in {toClient[p], Append(toClient[p], reply[p])}
    BY ZenonT(30), <1>0, <1>3 DEF Encode, EncodeOk, EncodeFails, Goto, Busy
  <2>2. CASE toClient'[p] = toClient[p]
    BY ZenonT(30), <2>1, <2>2 DEF Paired
  <2>3. CASE toClient'[p] = Append(toClient[p], reply[p])
    <3>1. /\ Len(toClient'[p]) = Len(toClient[p]) + 1
          /\ toClient'[p][Len(toClient[p]) + 1] = reply[p]
      BY <1>0, <2>3
    <3> QED
      BY <1>0, <2>1, <3>1 DEF Paired
  <2> QED
    BY ZenonT(30), <2>1, <2>2, <2>3
<1>4. CASE HandleRequest(p)
  <2>1. /\ toServer[p] # <<>>
        /\ toServer'[p] = Tail(toServer[p])
        /\ reply'[p].no = Head(toServer[p]).no /\ handler'[p] # "stopping"
        /\ UNCHANGED <<stopSubscribe, subscriber, toClient, clientVars>>
    BY ZenonT(30), <1>4, ProducerRequest
  <2>2. /\ Len(toServer'[p]) = Len(toServer[p]) - 1 /\ Len(toServer[p]) \in Nat
        /\ Len(toServer[p]) # 0 /\ Len(toClient[p]) \in Nat
        /\ Head(toServer[p]) = toServer[p][1]
        /\ \A i \in 1 .. Len(toServer'[p]) : toServer'[p][i] = toServer[p][i + 1]
    BY <1>0, <2>1
  <2>3. \A i \in 1 .. Len(toServer'[p]) : i + 1 \in 1 .. Len(toServer[p])
    BY <2>2
  <2>4. \A i \in 1 .. Len(toServer'[p]) : toServer'[p][i].type \in ProducerTypes
    BY ZenonT(30), <2>2, <2>3 DEF Paired
  <2>5. CASE phase[p] = "idle"
    BY ZenonT(30), <2>1, <2>2, <2>4, <2>5 DEF Paired
  <2>6. CASE phase[p] = "waiting"
    <3>1. Len(toServer[p]) = 1 /\ Len(toClient[p]) = 0
      <4>1. Len(toServer[p]) + Len(toClient[p]) <= 1
        BY ZenonT(30), <2>6 DEF Paired
      <4>2. \A a, b \in Nat : a + b <= 1 /\ a # 0 => a = 1 /\ b = 0
        OBVIOUS
      <4> QED
        BY ZenonT(30), <2>2, <4>1, <4>2
    <3> QED
      BY <2>1, <2>2, <2>4, <2>6, <3>1 DEF Paired
  <2> QED
    BY ZenonT(30), <1>0, <2>5, <2>6
<1> QED
  BY ZenonT(30), <1>1, <1>2, <1>3, <1>4 DEF HandlerStep

\* A confirmed Publish of p, wherever the confirmation is, has its message
\* enqueued; what a call returned answers that call.
Confirmed(p) ==
    /\ reply[p].ok /\ reply[p].re = "publish" => <<p, reply[p].no>> \in stored
    /\ \A i \in 1 .. Len(toClient[p]) :
           toClient[p][i].ok /\ toClient[p][i].re = "publish" =>
               <<p, toClient[p][i].no>> \in stored
    /\ \A n \in 1 .. Len(outcome[p]) :
           /\ outcome[p][n].no # 0 => outcome[p][n].no = n
           /\ outcome[p][n].result = "ok" /\ outcome[p][n].re = "publish" =>
                  <<p, n>> \in stored

\* What a call of a Producer returns.
LEMMA ReturnEffect ==
    ASSUME TypeOK, NEW p \in Producers, Paired(p), ProducerStep(p)
    PROVE  \/ UNCHANGED <<outcome[p], toClient[p]>>
           \/ /\ UNCHANGED toClient[p]
              /\ \E r \in {"error", "timeout"} :
                     outcome'[p] = Append(outcome[p], Outcome(r, "none", 0))
           \/ /\ Len(toClient[p]) = 1 /\ Len(toClient'[p]) = 0
              /\ toClient[p][1].no = Len(outcome[p]) + 1
              /\ outcome'[p] =
                     Append(outcome[p],
                            Outcome(IF toClient[p][1].ok THEN "ok" ELSE "error",
                                    toClient[p][1].re, toClient[p][1].no))
<1>0. /\ p \in Conns /\ toClient[p] \in Seq(Responses)
      /\ toServer[p] \in Seq(Requests)
      /\ DOMAIN outcome = Producers /\ DOMAIN toClient = Conns
  BY ZenonT(30) DEF TypeOK, ClientTypeOK, Conns
<1>1. ASSUME NEW t, Call(p, t)
      PROVE  /\ UNCHANGED toClient
             /\ \/ UNCHANGED outcome
                \/ outcome'[p] = Append(outcome[p], Outcome("error", "none", 0))
  BY ZenonT(30), <1>0, <1>1 DEF Call, Return
<1>2. CASE Answered(p)
  <2>1. /\ phase[p] = "waiting" /\ toClient[p] # <<>>
        /\ toClient'[p] = Tail(toClient[p])
        /\ outcome'[p] =
               Append(outcome[p],
                      Outcome(IF Head(toClient[p]).ok THEN "ok" ELSE "error",
                              Head(toClient[p]).re, Head(toClient[p]).no))
    BY ZenonT(30), <1>0, <1>2 DEF Answered, Return
  <2>2. /\ Len(toServer[p]) + Len(toClient[p]) <= 1
        /\ Len(toClient[p]) = 1 => toClient[p][1].no = Len(outcome[p]) + 1
    BY ZenonT(30), <2>1 DEF Paired
  <2>3. /\ Len(toClient[p]) # 0 /\ Len(toClient[p]) \in Nat
        /\ Len(toServer[p]) \in Nat
    BY <1>0, <2>1
  <2>4. \A a, b \in Nat : a + b <= 1 /\ b # 0 => b = 1
    OBVIOUS
  <2>5. Len(toClient[p]) = 1
    BY ZenonT(30), <2>2, <2>3, <2>4
  <2>6. Len(toClient'[p]) = 0 /\ Head(toClient[p]) = toClient[p][1]
    BY <1>0, <2>1, <2>5
  <2> QED
    BY ZenonT(30), <2>1, <2>2, <2>5, <2>6
<1>3. ASSUME NEW r \in {"timeout", "error"}, DecodeFails(p, r)
      PROVE  /\ UNCHANGED toClient
             /\ outcome'[p] = Append(outcome[p], Outcome(r, "none", 0))
  BY ZenonT(30), <1>0, <1>3 DEF DecodeFails, Return
<1> QED
  BY ZenonT(30), <1>1, <1>2, <1>3
     DEF ProducerStep, Publish, GetMetrics, ManageQueues, ManageExchanges,
         CallOther

\* A call returns what the answer to it says.
LEMMA ConfirmedProducer ==
    ASSUME TypeOK, NEW p \in Producers, Paired(p), Confirmed(p),
           ProducerStep(p), UNCHANGED handlerVars
    PROVE  Confirmed(p)'
<1> USE DEF Confirmed
<1>0. outcome[p] \in Seq(Outcomes) /\ toClient[p] \in Seq(Responses)
  BY ZenonT(30) DEF TypeOK, ClientTypeOK, Conns
<1>1. ASSUME NEW o, outcome'[p] = Append(outcome[p], o)
      PROVE  /\ Len(outcome'[p]) = Len(outcome[p]) + 1
             /\ outcome'[p][Len(outcome[p]) + 1] = o
             /\ \A n \in 1 .. Len(outcome[p]) : outcome'[p][n] = outcome[p][n]
             /\ \A n \in 1 .. Len(outcome[p]) + 1 :
                    n \in 1 .. Len(outcome[p]) \/ n = Len(outcome[p]) + 1
  BY <1>0, <1>1
<1>2. CASE UNCHANGED <<outcome[p], toClient[p]>>
  BY ZenonT(30), <1>2
<1>3. CASE /\ UNCHANGED toClient[p]
           /\ \E r \in {"error", "timeout"} :
                  outcome'[p] = Append(outcome[p], Outcome(r, "none", 0))
  <2>1. PICK r \in {"error", "timeout"} :
            outcome'[p] = Append(outcome[p], Outcome(r, "none", 0))
    BY ZenonT(30), <1>3
  <2> DEFINE o == Outcome(r, "none", 0)
  <2>2. o.no = 0 /\ o.result # "ok"
    BY ZenonT(30) DEF Outcome
  <2> HIDE DEF o
  <2>3. outcome'[p] = Append(outcome[p], o)
    BY ZenonT(30), <2>1 DEF o
  <2> QED
    BY <1>1, <1>3, <2>2, <2>3
<1>4. CASE /\ Len(toClient[p]) = 1 /\ Len(toClient'[p]) = 0
           /\ toClient[p][1].no = Len(outcome[p]) + 1
           /\ outcome'[p] =
                  Append(outcome[p],
                         Outcome(IF toClient[p][1].ok THEN "ok" ELSE "error",
                                 toClient[p][1].re, toClient[p][1].no))
  <2> DEFINE o == Outcome(IF toClient[p][1].ok THEN "ok" ELSE "error",
                          toClient[p][1].re, toClient[p][1].no)
  <2>1. /\ o.no = Len(outcome[p]) + 1
        /\ o.result = "ok" /\ o.re = "publish" => <<p, o.no>> \in stored
    <3>1. 1 \in 1 .. Len(toClient[p])
      BY <1>4
    <3>2. /\ o.no = toClient[p][1].no /\ o.re = toClient[p][1].re
          /\ o.result = "ok" => toClient[p][1].ok
      BY ZenonT(30) DEF Outcome
    <3> HIDE DEF o
    <3> QED
      BY ZenonT(30), <1>4, <3>1, <3>2
  <2>2. outcome'[p] = Append(outcome[p], o)
    BY ZenonT(30), <1>4
  <2> HIDE DEF o
  <2>3. \A n \in 1 .. Len(outcome'[p]) :
            /\ outcome'[p][n].no # 0 => outcome'[p][n].no = n
            /\ outcome'[p][n].result = "ok" /\ outcome'[p][n].re = "publish" =>
                   <<p, n>> \in stored
    BY ZenonT(30), <1>1, <2>1, <2>2
  <2>4. 1 .. Len(toClient'[p]) = {}
    BY <1>4
  <2> QED
    BY ZenonT(30), <2>3, <2>4
<1> QED
  BY ZenonT(30), <1>2, <1>3, <1>4, ReturnEffect

\* The handler confirms a Publish once the message is enqueued.
LEMMA ConfirmedHandler ==
    ASSUME TypeOK, NEW p \in Producers, Paired(p), Confirmed(p), HandlerStep(p)
    PROVE  Confirmed(p)'
<1> USE DEF Confirmed
<1>0. /\ p \in Conns /\ toClient[p] \in Seq(Responses)
      /\ reply[p] \in Responses
      /\ DOMAIN toClient = Conns /\ DOMAIN reply = Conns
  BY ZenonT(30) DEF TypeOK, ClientTypeOK, HandlerTypeOK, Conns
<1>1. CASE LoopTop(p) \/ DecodeError(p) \/ StopSubscriber(p) \/ CloseConn(p)
  <2>1. UNCHANGED <<toClient, reply, clientVars, stored>>
    BY ZenonT(30), <1>1 DEF LoopTop, DecodeError, StopSubscriber, CloseConn
  <2> QED
    BY ZenonT(30), <2>1
<1>2. CASE PublishReturns(p)
  <2>1. /\ UNCHANGED <<toClient, clientVars>> /\ stored \subseteq stored'
        /\ \/ Complete(p, FALSE)
           \/ Complete(p, TRUE) /\ <<p, reply[p].no>> \in stored'
    BY ZenonT(30), <1>2 DEF PublishReturns
  <2>2. reply'[p].no = reply[p].no
    BY <1>0, <2>1 DEF Complete, Responses
  <2>3. reply'[p].ok => <<p, reply[p].no>> \in stored'
    BY <1>0, <2>1 DEF Complete, Responses
  <2> QED
    BY ZenonT(30), <2>1, <2>2, <2>3
<1>3. CASE Stopped(p)
  <2>1. /\ UNCHANGED <<toClient, clientVars, stored>>
        /\ reply' = [reply EXCEPT ![p].ok = TRUE] /\ handler[p] = "stopping"
    BY ZenonT(30), <1>3 DEF Stopped, Complete
  <2> QED
    BY ZenonT(30), <1>0, <2>1 DEF Paired
<1>4. CASE Encode(p)
  <2>1. /\ UNCHANGED <<clientVars, stored>> /\ ~reply'[p].ok
        /\ toClient'[p] \in {toClient[p], Append(toClient[p], reply[p])}
    BY ZenonT(30), <1>0, <1>4
       DEF Encode, EncodeOk, EncodeFails, NoReply, Response, Request
  <2>2. CASE toClient'[p] = toClient[p]
    BY ZenonT(30), <2>1, <2>2
  <2>3. CASE toClient'[p] = Append(toClient[p], reply[p])
    <3>1. /\ Len(toClient'[p]) = Len(toClient[p]) + 1
          /\ toClient'[p][Len(toClient[p]) + 1] = reply[p]
          /\ \A i \in 1 .. Len(toClient[p]) : toClient'[p][i] = toClient[p][i]
          /\ \A i \in 1 .. Len(toClient[p]) + 1 :
                 i \in 1 .. Len(toClient[p]) \/ i = Len(toClient[p]) + 1
      <4> DEFINE s == Append(toClient[p], reply[p])
      <4>1. /\ Len(s) = Len(toClient[p]) + 1 /\ s[Len(toClient[p]) + 1] = reply[p]
            /\ \A i \in 1 .. Len(toClient[p]) : s[i] = toClient[p][i]
            /\ \A i \in 1 .. Len(toClient[p]) + 1 :
                   i \in 1 .. Len(toClient[p]) \/ i = Len(toClient[p]) + 1
        BY <1>0, AppendFacts
      <4> QED
        BY ZenonT(30), <2>3, <4>1
    <3> QED
      BY ZenonT(30), <2>1, <3>1
  <2> QED
    BY ZenonT(30), <2>1, <2>2, <2>3
<1>5. CASE HandleRequest(p)
  <2>1. /\ UNCHANGED <<toClient, clientVars, stored>>
        /\ reply'[p].re = "publish" => ~reply'[p].ok
    BY ZenonT(30), <1>5, ProducerRequest
  <2> QED
    BY ZenonT(30), <2>1
<1> QED
  BY ZenonT(30), <1>1, <1>2, <1>3, <1>4, <1>5 DEF HandlerStep

\* What every producer, with its handler, keeps to.
Answers == \A p \in Producers : Paired(p) /\ Confirmed(p)

\* No step of the connections takes an enqueued message back.
LEMMA StoredGrows ==
    ASSUME NEW d \in Conns, HandlerStep(d) \/ SubscriberStep(d) \/ Distribute(d)
    PROVE  stored \subseteq stored'
BY ZenonT(30) DEF HandlerStep, LoopTop, DecodeError, HandleRequest, HandleVersion,
       HandlePublish, HandleMetrics, HandleQueues, HandleExchanges, HandleCall,
       HandleUnknown, HandleAck, HandleSubscribe, HandleUnsubscribe,
       PublishReturns, Stopped, Encode, StopSubscriber, CloseConn,
       SubscriberStep, TakeDelivery, Deliver, SeeStop, Leave, Distribute

\* Every step keeps every producer and its handler to that.
LEMMA AnswersStep ==
    ASSUME TypeOK, Answers, [Next]_vars
    PROVE  Answers'
<1> SUFFICES ASSUME NEW p \in Producers
             PROVE  Paired(p)' /\ Confirmed(p)'
  BY ZenonT(30) DEF Answers
<1>0. Paired(p) /\ Confirmed(p) /\ p \in Conns
  BY ZenonT(30) DEF Answers, Conns
<1>1. ASSUME Conversation(p)' = Conversation(p), UNCHANGED outcome[p],
             stored \subseteq stored',
             handler'[p] = handler[p] \/ handler'[p] \in {"top", "done"}
      PROVE  Paired(p)' /\ Confirmed(p)'
  <2>1. /\ UNCHANGED <<toServer[p], toClient[p], phase[p], calls[p], broken[p]>>
        /\ UNCHANGED <<reply[p], stopSubscribe[p], subscriber[p]>>
    BY ZenonT(30), <1>1 DEF Conversation
  <2>2. /\ handler'[p] \in Busy => handler[p] \in Busy
        /\ handler'[p] = "stopping" => handler[p] = "stopping"
    BY ZenonT(30), <1>1 DEF Busy
  <2>3. Paired(p)'
    BY ZenonT(30), <1>0, <1>1, <2>1, <2>2 DEF Paired
  <2>4. Confirmed(p)'
    BY ZenonT(30), <1>0, <1>1, <2>1 DEF Confirmed
  <2> QED
    BY ZenonT(30), <2>3, <2>4
<1>2. CASE ProcessStep
  BY ZenonT(30), <1>0, <1>1, <1>2, ProcessElsewhere
<1>3. CASE ClientNext /\ UNCHANGED handlerVars
  <2>1. CASE ProducerStep(p)
    BY ZenonT(30), <1>0, <1>3, <2>1, PairedProducer, ConfirmedProducer
  <2>2. p \notin Consumers
    BY ZenonT(30), ClientAssumption
  <2>3. CASE /\ Conversation(p)' = Conversation(p)
             /\ p \in Producers => outcome'[p] = outcome[p]
    BY ZenonT(30), <1>1, <1>3, <2>3
  <2> QED
    BY ZenonT(30), <1>0, <1>3, <2>1, <2>2, <2>3, ClientElsewhere
<1>4. ASSUME NEW d \in Conns,
             HandlerStep(d) \/ SubscriberStep(d) \/ Distribute(d)
      PROVE  Paired(p)' /\ Confirmed(p)'
  <2>1. CASE d # p
    BY ZenonT(30), <1>0, <1>1, <1>4, <2>1, HandlerElsewhere, StoredGrows
  <2>2. CASE HandlerStep(p)
    BY ZenonT(30), <1>0, <2>2, PairedHandler, ConfirmedHandler
  <2>3. CASE SubscriberStep(p)
    BY ZenonT(30), <1>0, <2>3
       DEF Paired, SubscriberStep, TakeDelivery, Deliver, SeeStop, Leave
  <2>4. CASE Distribute(p)
    <3>1. Conversation(p)' = Conversation(p) /\ UNCHANGED <<outcome, stored, handler>>
      BY ZenonT(30), <2>4 DEF Distribute, Conversation
    <3> QED
      BY ZenonT(30), <1>1, <3>1
  <2> QED
    BY ZenonT(30), <1>4, <2>1, <2>2, <2>3, <2>4
<1>5. CASE UNCHANGED vars
  BY ZenonT(30), <1>1, <1>5 DEF Conversation
<1> QED
  BY ZenonT(30), <1>2, <1>3, <1>4, <1>5, StepCases

\* Nothing has been asked or answered at the start.
LEMMA InitAnswers == Init => Answers
BY ClientAssumption
   DEF Init, ClientInit, HandlerInit, Answers, Paired, Confirmed, Busy,
       Conns, NoReply, Response

(***************************************************************************)
(* A response a Producer returns is the response to that call: the decoder *)
(* that kept a timeout reads no late response.                             *)
(***************************************************************************)
THEOREM Pairing == Spec => []PairedResponses
<1>1. ASSUME TypeOK, Answers PROVE PairedResponses
  <2>1. \A p \in Producers : DOMAIN outcome[p] = 1 .. Len(outcome[p])
    BY <1>1 DEF TypeOK, ClientTypeOK
  <2> QED
    BY ZenonT(30), <1>1, <2>1 DEF Answers, Confirmed, PairedResponses
<1> QED
  BY <1>1, InitAnswers, TypeCorrect, AnswersStep, PTL DEF Spec

(***************************************************************************)
(* A Publish that returns nil has put its message in a queue.              *)
(***************************************************************************)
THEOREM Confirmation == Spec => []OkIsStored
<1>1. ASSUME TypeOK, Answers PROVE OkIsStored
  <2>1. \A p \in Producers : DOMAIN outcome[p] = 1 .. Len(outcome[p])
    BY <1>1 DEF TypeOK, ClientTypeOK
  <2> QED
    BY ZenonT(30), <1>1, <2>1 DEF Answers, Confirmed, OkIsStored
<1> QED
  BY <1>1, InitAnswers, TypeCorrect, AnswersStep, PTL DEF Spec

-----------------------------------------------------------------------------
(* The end of a subscription. *)

\* An answer to Unsubscribe, prepared or on the connection, is of a session
\* that has no goroutine any more.
Quiet(c) ==
    /\ reply[c].re # "delivery"
    /\ handler[c] \in Busy /\ reply[c].re = "unsubscribe" =>
           /\ handler[c] # "publish"
           /\ reply[c].session <= sessions[c]
           /\ handler[c] # "stopping" => subscriber[c] = "none"
    /\ \A i \in 1 .. Len(toClient[c]) : toClient[c][i].re = "unsubscribe" =>
           /\ toClient[c][i].session <= sessions[c]
           /\ subscriber[c] # "none" => toClient[c][i].session < sessions[c]
    /\ \A i, j \in 1 .. Len(toClient[c]) :
           /\ i < j /\ toClient[c][i].re = "unsubscribe"
           /\ toClient[c][j].re = "delivery"
           => toClient[c][i].session < toClient[c][j].session

\* A response at the end of the connection.
LEMMA QuietAppend ==
    ASSUME TypeOK, NEW c \in Conns, Quiet(c), NEW r \in Responses,
           toClient'[c] = Append(toClient[c], r), UNCHANGED sessions[c],
           subscriber'[c] # "none" => subscriber[c] # "none",
           reply'[c].re # "delivery",
           handler'[c] \in Busy /\ reply'[c].re = "unsubscribe" =>
               handler'[c] = handler[c] /\ reply'[c] = reply[c],
           r.re = "unsubscribe" =>
               r.session <= sessions[c] /\ subscriber[c] = "none",
           r.re = "delivery" =>
               r.session = sessions[c] /\ subscriber[c] # "none"
    PROVE  Quiet(c)'
<1> USE DEF Quiet
<1>0. toClient[c] \in Seq(Responses) /\ sessions[c] \in Nat
  BY ZenonT(30) DEF TypeOK, ClientTypeOK, HandlerTypeOK
<1>1. /\ Len(toClient'[c]) = Len(toClient[c]) + 1 /\ Len(toClient[c]) \in Nat
      /\ toClient'[c][Len(toClient[c]) + 1] = r
      /\ \A i \in 1 .. Len(toClient[c]) : toClient'[c][i] = toClient[c][i]
  BY <1>0
<1>2. \A i \in 1 .. Len(toClient'[c]) :
          i \in 1 .. Len(toClient[c]) \/ i = Len(toClient'[c])
  BY <1>1
<1>3. \A i, j \in 1 .. Len(toClient'[c]) :
          i < j => i \in 1 .. Len(toClient[c])
  BY <1>1
<1>4. /\ reply'[c].re # "delivery"
      /\ handler'[c] \in Busy /\ reply'[c].re = "unsubscribe" =>
             /\ handler'[c] # "publish"
             /\ reply'[c].session <= sessions'[c]
             /\ handler'[c] # "stopping" => subscriber'[c] = "none"
  BY ZenonT(30)
<1>5. \A i \in 1 .. Len(toClient'[c]) : toClient'[c][i].re = "unsubscribe" =>
          /\ toClient'[c][i].session <= sessions'[c]
          /\ subscriber'[c] # "none" => toClient'[c][i].session < sessions'[c]
  BY ZenonT(30), <1>1, <1>2
<1>6. \A i, j \in 1 .. Len(toClient'[c]) :
          /\ i < j /\ toClient'[c][i].re = "unsubscribe"
          /\ toClient'[c][j].re = "delivery"
          => toClient'[c][i].session < toClient'[c][j].session
  <2> SUFFICES ASSUME NEW i \in 1 .. Len(toClient'[c]),
                      NEW j \in 1 .. Len(toClient'[c]),
                      i < j, toClient'[c][i].re = "unsubscribe",
                      toClient'[c][j].re = "delivery"
               PROVE  toClient'[c][i].session < toClient'[c][j].session
    BY ZenonT(30)
  <2>1. i \in 1 .. Len(toClient[c]) /\ toClient'[c][i] = toClient[c][i]
    BY ZenonT(30), <1>1, <1>3
  <2>2. CASE j \in 1 .. Len(toClient[c])
    BY ZenonT(30), <1>1, <2>1, <2>2
  <2>3. CASE j = Len(toClient'[c])
    BY ZenonT(30), <1>1, <2>1, <2>3
  <2> QED
    BY ZenonT(30), <1>2, <2>2, <2>3
<1> QED
  BY ZenonT(30), <1>4, <1>5, <1>6

\* Reading from the connection keeps it quiet.
LEMMA QuietTail ==
    ASSUME TypeOK, NEW c \in Conns, Quiet(c), toClient[c] # <<>>,
           toClient'[c] = Tail(toClient[c]),
           UNCHANGED <<handler, reply, sessions, subscriber>>
    PROVE  Quiet(c)'
<1> USE DEF Quiet
<1>0. toClient[c] \in Seq(Responses)
  BY ZenonT(30) DEF TypeOK, ClientTypeOK
<1>1. \A i \in 1 .. Len(toClient'[c]) : toClient'[c][i] = toClient[c][i + 1]
  BY ZenonT(30), <1>0, TailFacts
<1>2. /\ \A i \in 1 .. Len(toClient'[c]) : i + 1 \in 1 .. Len(toClient[c])
      /\ \A i, j \in 1 .. Len(toClient'[c]) : i < j => i + 1 < j + 1
  BY ZenonT(30), <1>0, TailFacts
<1>3. \A i \in 1 .. Len(toClient'[c]) : toClient'[c][i].re = "unsubscribe" =>
          /\ toClient'[c][i].session <= sessions[c]
          /\ subscriber[c] # "none" => toClient'[c][i].session < sessions[c]
  BY ZenonT(30), <1>1, <1>2
<1>4. \A i, j \in 1 .. Len(toClient'[c]) :
          /\ i < j /\ toClient'[c][i].re = "unsubscribe"
          /\ toClient'[c][j].re = "delivery"
          => toClient'[c][i].session < toClient'[c][j].session
  BY <1>1, <1>2
<1> QED
  BY ZenonT(30), <1>3, <1>4

\* The handler moves while the connection and the session stay.
LEMMA QuietMove ==
    ASSUME TypeOK, NEW c \in Conns, Quiet(c),
           UNCHANGED <<toClient[c], sessions[c]>>,
           subscriber'[c] # "none" => subscriber[c] # "none",
           reply'[c].re # "delivery",
           handler'[c] \in Busy /\ reply'[c].re = "unsubscribe" =>
               /\ handler'[c] # "publish"
               /\ reply'[c].session <= sessions[c]
               /\ handler'[c] # "stopping" => subscriber'[c] = "none"
    PROVE  Quiet(c)'
BY ZenonT(30) DEF Quiet

\* A request that is decoded, with a goroutine that is stopped or was never there.
LEMMA QuietRequest ==
    ASSUME TypeOK, Served, NEW c \in Conns, Quiet(c), HandleRequest(c)
    PROVE  Quiet(c)'
<1> DEFINE q == Head(toServer[c])
<1>0. /\ toServer[c] \in Seq(Requests) /\ sessions[c] \in Nat
      /\ DOMAIN handler = Conns /\ DOMAIN reply = Conns
      /\ DOMAIN sessions = Conns /\ DOMAIN subscriber = Conns
  BY ZenonT(30) DEF TypeOK, ClientTypeOK, HandlerTypeOK
<1>1. q.type # "delivery"
  <2>1. q \in Requests
    BY ZenonT(30), <1>0, TailFacts DEF HandleRequest
  <2> QED
    BY ZenonT(30), <2>1, ClientAssumption DEF Requests, RequestTypes
<1>2. PICK t : Decode(c, q, t)
  BY ZenonT(30) DEF HandleRequest, HandleVersion, HandlePublish, HandleMetrics,
         HandleQueues, HandleExchanges, HandleCall, HandleUnknown, HandleAck,
         HandleSubscribe, HandleUnsubscribe
<1>3. UNCHANGED toClient /\ handler[c] = "decode"
  BY ZenonT(30), <1>2 DEF Decode
<1> HIDE DEF q
<1>4. ASSUME NEW ok, NEW l, Prepare(c, q, ok, l), UNCHANGED <<subscriber, sessions>>,
             q.type = "unsubscribe" => /\ l # "publish"
                                       /\ l # "stopping" => subscriber[c] = "none"
      PROVE  Quiet(c)'
  <2>1. reply'[c] = Response(q, ok, sessions[c]) /\ handler'[c] = l
    BY ZenonT(30), <1>0, <1>4 DEF Prepare, Goto
  <2>2. reply'[c].re = q.type /\ reply'[c].session = sessions[c]
    <3> DEFINE r == Response(q, ok, sessions[c])
    <3>1. r.re = q.type /\ r.session = sessions[c]
      BY ResponseFields
    <3> QED
      BY ZenonT(30), <2>1, <3>1
  <2>3. \A n \in Nat : n <= n
    OBVIOUS
  <2>4. reply'[c].session <= sessions[c]
    BY ZenonT(30), <1>0, <2>2, <2>3
  <2>5. /\ UNCHANGED <<toClient[c], sessions[c]>>
        /\ subscriber'[c] # "none" => subscriber[c] # "none"
    BY ZenonT(30), <1>3, <1>4
  <2>6. handler'[c] \in Busy /\ reply'[c].re = "unsubscribe" =>
            /\ handler'[c] # "publish"
            /\ reply'[c].session <= sessions[c]
            /\ handler'[c] # "stopping" => subscriber'[c] = "none"
    BY ZenonT(30), <1>4, <2>1, <2>2, <2>4
  <2> QED
    BY ZenonT(30), <1>1, <2>2, <2>5, <2>6, QuietMove
<1>5. CASE HandleSubscribe(c, q)
  <2>1. CASE Respond(c, q, FALSE) /\ UNCHANGED <<subVars, registered>>
    <3>1. q.type # "unsubscribe"
      BY ZenonT(30), <1>5 DEF HandleSubscribe, Decode
    <3> QED
      BY ZenonT(30), <1>4, <2>1, <3>1 DEF Respond
  <2>2. CASE /\ sessions' = [sessions EXCEPT ![c] = @ + 1]
             /\ Goto(c, "top") /\ UNCHANGED reply
    <3>1. sessions'[c] = sessions[c] + 1 /\ handler'[c] = "top"
      BY ZenonT(30), <1>0, <2>2 DEF Goto
    <3>2. \A i \in 1 .. Len(toClient[c]) : toClient[c][i].session \in Nat
      <4>1. toClient[c] \in Seq(Responses)
        BY ZenonT(30) DEF TypeOK, ClientTypeOK
      <4>2. \A i \in 1 .. Len(toClient[c]) : toClient[c][i] \in Responses
        BY <4>1
      <4>3. \A r \in Responses : r.session \in Nat
        BY ZenonT(30) DEF Responses
      <4> QED
        BY ZenonT(30), <4>2, <4>3
    <3>3. \A i \in 1 .. Len(toClient[c]) : toClient[c][i].re = "unsubscribe" =>
              toClient[c][i].session < sessions'[c]
      BY <1>0, <3>1, <3>2 DEF Quiet
    <3>4. \A i \in 1 .. Len(toClient[c]) : toClient[c][i].re = "unsubscribe" =>
              toClient[c][i].session <= sessions'[c]
      BY <1>0, <3>1, <3>2, <3>3
    <3>5. handler'[c] \notin Busy
      BY ZenonT(30), <3>1 DEF Busy
    <3> QED
      BY ZenonT(30), <1>3, <2>2, <3>3, <3>4, <3>5 DEF Quiet
  <2> QED
    BY ZenonT(30), <1>5, <2>1, <2>2 DEF HandleSubscribe
<1>6. CASE HandleUnsubscribe(c, q)
  <2>1. UNCHANGED <<subscriber, sessions>>
    BY ZenonT(30), <1>6 DEF HandleUnsubscribe
  <2>2. CASE stopSubscribe[c] = "nil" /\ Prepare(c, q, TRUE, "reply")
    <3>1. subscriber[c] = "none"
      BY ZenonT(30), <2>2 DEF Served
    <3> QED
      BY ZenonT(30), <1>4, <2>1, <2>2, <3>1
  <2>3. CASE Prepare(c, q, FALSE, "stopping")
    BY ZenonT(30), <1>4, <2>1, <2>3
  <2> QED
    BY ZenonT(30), <1>6, <2>2, <2>3 DEF HandleUnsubscribe, Respond
<1>7. CASE HandleAck(c, q)
  <2>1. UNCHANGED <<subscriber, sessions>> /\ q.type # "unsubscribe"
    BY ZenonT(30), <1>7 DEF HandleAck, Decode
  <2>2. CASE Goto(c, "top") /\ UNCHANGED reply
    <3>1. handler'[c] \notin Busy
      BY ZenonT(30), <1>0, <2>2 DEF Goto, Busy
    <3> QED
      BY ZenonT(30), <1>3, <2>1, <2>2, <3>1 DEF Quiet
  <2> QED
    BY ZenonT(30), <1>4, <1>7, <2>1, <2>2 DEF HandleAck, Respond
<1>8. CASE HandleVersion(c, q) \/ HandlePublish(c, q) \/ HandleUnknown(c, q)
  <2>1. UNCHANGED <<subscriber, sessions>> /\ q.type # "unsubscribe"
        /\ \E ok, l : Prepare(c, q, ok, l)
    BY ZenonT(30), <1>8
       DEF HandleVersion, HandlePublish, HandleUnknown, Decode, Respond
  <2> QED
    BY ZenonT(30), <1>4, <2>1
<1>9. CASE HandleMetrics(c, q) \/ HandleQueues(c, q) \/ HandleExchanges(c, q)
  <2>1. UNCHANGED <<subscriber, sessions>> /\ q.type # "unsubscribe"
        /\ \E ok, l : Prepare(c, q, ok, l)
    BY ZenonT(30), <1>9
       DEF HandleMetrics, HandleQueues, HandleExchanges, HandleCall, Decode,
           Respond
  <2> QED
    BY ZenonT(30), <1>4, <2>1
<1> QED
  BY ZenonT(30), <1>5, <1>6, <1>7, <1>8, <1>9 DEF HandleRequest, q

\* The other steps of the handler: it encodes the answer of Unsubscribe alone.
LEMMA QuietHandler ==
    ASSUME TypeOK, Served, NEW c \in Conns, Quiet(c), HandlerStep(c)
    PROVE  Quiet(c)'
<1>0. /\ reply[c] \in Responses /\ sessions[c] \in Nat
      /\ DOMAIN handler = Conns /\ DOMAIN reply = Conns
      /\ DOMAIN toClient = Conns
  BY ZenonT(30) DEF TypeOK, ClientTypeOK, HandlerTypeOK
<1>1. CASE LoopTop(c) \/ DecodeError(c) \/ StopSubscriber(c) \/ CloseConn(c)
  <2>1. /\ UNCHANGED <<toClient, reply, sessions, subscriber>>
        /\ handler'[c] \notin Busy
    BY ZenonT(30), <1>0, <1>1
       DEF LoopTop, DecodeError, StopSubscriber, CloseConn, Goto, Busy
  <2> QED
    BY ZenonT(30), <2>1 DEF Quiet
<1>2. CASE PublishReturns(c) \/ Stopped(c)
  <2>1. /\ UNCHANGED <<toClient, sessions, subscriber>>
        /\ handler'[c] = "reply" /\ handler[c] \in Busy
        /\ handler[c] = "publish" \/ subscriber[c] = "none"
        /\ \E ok \in BOOLEAN : reply' = [reply EXCEPT ![c].ok = ok]
    BY ZenonT(30), <1>0, <1>2 DEF PublishReturns, Stopped, Complete, Goto, Busy
  <2>2. reply'[c].re = reply[c].re /\ reply'[c].session = reply[c].session
    BY <1>0, <2>1 DEF Responses
  <2> QED
    BY ZenonT(30), <2>1, <2>2 DEF Quiet
<1>3. CASE Encode(c)
  <2>1. /\ UNCHANGED <<sessions, subscriber>>
        /\ handler[c] \in Busy \ {"publish", "stopping"}
        /\ reply'[c].re = "subscribe"
        /\ toClient'[c] \in {toClient[c], Append(toClient[c], reply[c])}
    BY ZenonT(30), <1>0, <1>3
       DEF Encode, EncodeOk, EncodeFails, NoReply, Response, Request, Busy
  <2>2. CASE toClient'[c] = toClient[c]
    BY ZenonT(30), <2>1, <2>2 DEF Quiet
  <2>3. CASE toClient'[c] = Append(toClient[c], reply[c])
    <3>1. /\ reply[c].re # "delivery"
          /\ reply[c].re = "unsubscribe" =>
                 reply[c].session <= sessions[c] /\ subscriber[c] = "none"
      BY ZenonT(30), <2>1 DEF Quiet
    <3> QED
      BY ZenonT(30), <1>0, <2>1, <2>3, <3>1, QuietAppend
  <2> QED
    BY ZenonT(30), <2>1, <2>2, <2>3
<1> QED
  BY ZenonT(30), <1>1, <1>2, <1>3, QuietRequest DEF HandlerStep

\* The goroutine writes deliveries of the session that is current.
LEMMA QuietSubscriber ==
    ASSUME TypeOK, NEW c \in Conns, Quiet(c), SubscriberStep(c)
    PROVE  Quiet(c)'
<1>0. /\ sessions[c] \in Nat /\ delivery[c] \in Nat
      /\ DOMAIN subscriber = Conns /\ DOMAIN toClient = Conns
  BY ZenonT(30) DEF TypeOK, ClientTypeOK, HandlerTypeOK
<1>1. CASE TakeDelivery(c) \/ SeeStop(c) \/ Leave(c)
  <2>1. /\ UNCHANGED <<toClient, sessions, handler, reply>>
        /\ subscriber[c] # "none"
    BY ZenonT(30), <1>1 DEF TakeDelivery, SeeStop, Leave
  <2> QED
    BY ZenonT(30), <2>1 DEF Quiet
<1>2. CASE Deliver(c)
  <2> DEFINE r == [ok |-> TRUE, re |-> "delivery", no |-> 0,
                   tok |-> delivery[c], session |-> sessions[c]]
  <2>1. /\ UNCHANGED <<sessions, handler, reply>> /\ subscriber[c] # "none"
        /\ toClient'[c] \in {toClient[c], Append(toClient[c], r)}
    BY ZenonT(30), <1>0, <1>2 DEF Deliver, EncodeOk, EncodeFails
  <2>2. /\ r \in Responses /\ r.re = "delivery" /\ r.session = sessions[c]
    BY ZenonT(30), <1>0 DEF Responses
  <2> HIDE DEF r
  <2>3. CASE toClient'[c] = toClient[c]
    BY ZenonT(30), <2>1, <2>3 DEF Quiet
  <2>4. CASE toClient'[c] = Append(toClient[c], r)
    <3>1. reply'[c].re # "delivery"
      BY ZenonT(30), <2>1 DEF Quiet
    <3> QED
      BY ZenonT(30), <2>1, <2>2, <2>4, <3>1, QuietAppend
  <2> QED
    BY ZenonT(30), <2>1, <2>3, <2>4
<1> QED
  BY ZenonT(30), <1>1, <1>2 DEF SubscriberStep

\* Every connection of a consumer is quiet.
QuietAll == \A c \in Consumers : Quiet(c)

\* Every step keeps every consumer's connection quiet.
LEMMA QuietStep ==
    ASSUME TypeOK, Served, QuietAll, [Next]_vars
    PROVE  QuietAll'
<1> SUFFICES ASSUME NEW c \in Consumers
             PROVE  Quiet(c)'
  BY ZenonT(30) DEF QuietAll
<1>0. Quiet(c) /\ c \in Conns /\ c \notin Producers
  BY ZenonT(30), ClientAssumption DEF QuietAll, Conns
<1>1. ASSUME Conversation(c)' = Conversation(c),
             handler'[c] = handler[c] \/ handler'[c] \in {"top", "done"}
      PROVE  Quiet(c)'
  <2>1. UNCHANGED <<toClient[c], reply[c], subscriber[c], sessions[c]>>
    BY ZenonT(30), <1>1 DEF Conversation
  <2>2. handler'[c] = handler[c] \/ handler'[c] \notin Busy
    BY ZenonT(30), <1>1 DEF Busy
  <2> QED
    BY ZenonT(30), <1>0, <2>1, <2>2 DEF Quiet
<1>2. CASE ProcessStep
  BY ZenonT(30), <1>0, <1>1, <1>2, ProcessElsewhere
<1>3. CASE ClientNext /\ UNCHANGED handlerVars
  <2>1. CASE ConsumerStep(c)
    <3>1. DOMAIN toClient = Conns
      BY ZenonT(30) DEF TypeOK, ClientTypeOK
    <3>2. CASE ReceiveReturns(c)
      <4>1. toClient[c] # <<>> /\ toClient'[c] = Tail(toClient[c])
        BY ZenonT(30), <1>0, <3>1, <3>2 DEF ReceiveReturns
      <4> QED
        BY ZenonT(30), <1>0, <1>3, <4>1, QuietTail
    <3>3. CASE ~ReceiveReturns(c)
      <4>1. UNCHANGED toClient
        BY ZenonT(30), <2>1, <3>3
           DEF ConsumerStep, Subscribe, Unsubscribe, Ack, Send, Receive,
               ReceiveFails, Cancel, WatcherEnds
      <4> QED
        BY ZenonT(30), <1>0, <1>3, <4>1 DEF Quiet
    <3> QED
      BY ZenonT(30), <3>2, <3>3
  <2>2. CASE Conversation(c)' = Conversation(c)
    BY ZenonT(30), <1>1, <1>3, <2>2
  <2> QED
    BY ZenonT(30), <1>0, <1>3, <2>1, <2>2, ClientElsewhere
<1>4. ASSUME NEW d \in Conns,
             HandlerStep(d) \/ SubscriberStep(d) \/ Distribute(d)
      PROVE  Quiet(c)'
  <2>1. CASE d # c
    BY ZenonT(30), <1>0, <1>1, <1>4, <2>1, HandlerElsewhere
  <2>2. CASE HandlerStep(c)
    BY ZenonT(30), <1>0, <2>2, QuietHandler
  <2>3. CASE SubscriberStep(c)
    BY ZenonT(30), <1>0, <2>3, QuietSubscriber
  <2>4. CASE Distribute(c)
    <3>1. Conversation(c)' = Conversation(c) /\ UNCHANGED handler
      BY ZenonT(30), <2>4 DEF Distribute, Conversation
    <3> QED
      BY ZenonT(30), <1>1, <3>1
  <2> QED
    BY ZenonT(30), <1>4, <2>1, <2>2, <2>3, <2>4
<1>5. CASE UNCHANGED vars
  BY ZenonT(30), <1>1, <1>5 DEF Conversation
<1> QED
  BY ZenonT(30), <1>2, <1>3, <1>4, <1>5, StepCases

\* There is nothing on a connection at the start.
LEMMA InitQuiet == Init => QuietAll
<1> SUFFICES ASSUME Init, NEW c \in Consumers
             PROVE  Quiet(c)
  BY ZenonT(30) DEF QuietAll
<1>1. /\ reply[c] = NoReply /\ handler[c] = "none" /\ toClient[c] = <<>>
  BY ZenonT(30) DEF Init, ClientInit, HandlerInit, Conns
<1>2. reply[c].re = "subscribe"
  BY <1>1 DEF NoReply, Response, Request
<1>3. 1 .. Len(toClient[c]) = {}
  BY <1>1
<1> QED
  BY ZenonT(30), <1>1, <1>2, <1>3 DEF Quiet, Busy

(***************************************************************************)
(* No delivery of a session follows the answer to its Unsubscribe.         *)
(***************************************************************************)
THEOREM QuietEnd == Spec => []QuietAfterUnsubscribe
<1>1. ASSUME TypeOK, QuietAll PROVE QuietAfterUnsubscribe
  <2>1. \A c \in Consumers : DOMAIN toClient[c] = 1 .. Len(toClient[c])
    BY <1>1 DEF TypeOK, ClientTypeOK, Conns
  <2> QED
    BY ZenonT(30), <1>1, <2>1 DEF QuietAll, Quiet, QuietAfterUnsubscribe
<1> QED
  BY <1>1, InitServed, InitQuiet, TypeCorrect, ServedStep, QuietStep, PTL
     DEF Spec

-----------------------------------------------------------------------------
(* The order of what a consumer receives. *)

\* Response r may come before response s on a connection.
Before(r, s) ==
    /\ r.re = "delivery" /\ s.re = "delivery" => r.tok < s.tok
    /\ r.re = "unsubscribe" /\ s.re = "unsubscribe" => r.no < s.no

\* A sequence of responses in an order in which they may come.
InLine(s) == \A i, j \in 1 .. Len(s) : i < j => Before(s[i], s[j])

\* The elements of a sequence.
Items(s) == {s[i] : i \in 1 .. Len(s)}

\* What the consumer has received, and what is on its way.
Seen(c) == Items(received[c]) \cup Items(toClient[c])

\* What was received and what is to be received are in order, and an answer
\* that is not an error is a delivery or the answer to Unsubscribe.
Line(c) ==
    /\ InLine(received[c]) /\ InLine(toClient[c])
    /\ \A r \in Items(received[c]), s \in Items(toClient[c]) : Before(r, s)
    /\ \A r \in Seen(c) : r.ok => r.re \in {"delivery", "unsubscribe"}
    /\ \A r \in Items(received[c]) : r.ok

\* The tokens the goroutine and the session's channel hold are in order, and
\* later than those that were seen.
Tokens(c) ==
    /\ \A i, j \in 1 .. Len(deliveries[c]) :
           i < j => deliveries[c][i] < deliveries[c][j]
    /\ \A k \in Items(deliveries[c]) : k <= lastToken
    /\ subscriber[c] = "encode" =>
           /\ delivery[c] <= lastToken
           /\ \A k \in Items(deliveries[c]) : delivery[c] < k
    /\ \A r \in Seen(c) : r.re = "delivery" =>
           /\ r.tok <= lastToken
           /\ \A k \in Items(deliveries[c]) : r.tok < k
           /\ subscriber[c] = "encode" => r.tok < delivery[c]

\* The requests the handler and the connection hold are in order, and later
\* than those whose answers were seen.
Numbers(c) ==
    /\ \A i, j \in 1 .. Len(toServer[c]) :
           i < j => toServer[c][i].no < toServer[c][j].no
    /\ \A q \in Items(toServer[c]) :
           /\ q.no <= calls[c]
           /\ q.type \in {"subscribe", "ack", "unsubscribe"}
    /\ handler[c] \in Busy =>
           /\ reply[c].no <= calls[c]
           /\ \A q \in Items(toServer[c]) : reply[c].no < q.no
           /\ handler[c] # "publish"
           /\ reply[c].ok \/ handler[c] = "stopping" => reply[c].re = "unsubscribe"
    /\ \A r \in Seen(c) : r.re = "unsubscribe" =>
           /\ r.no <= calls[c]
           /\ \A q \in Items(toServer[c]) : r.no < q.no
           /\ handler[c] \in Busy => r.no < reply[c].no

\* The inductive invariant of the order.
Sequenced == \A c \in Consumers : Line(c) /\ Tokens(c) /\ Numbers(c)

\* What Append adds.
LEMMA ItemsAppend ==
    ASSUME NEW S, NEW s \in Seq(S), NEW e \in S
    PROVE  Items(Append(s, e)) = Items(s) \cup {e} /\ Items(s) \subseteq S
BY DEF Items

\* What Tail leaves.
LEMMA ItemsTail ==
    ASSUME NEW S, NEW s \in Seq(S), s # <<>>
    PROVE  /\ Head(s) \in Items(s) /\ Items(Tail(s)) \subseteq Items(s)
           /\ Items(s) \subseteq S
<1>1. \A i \in 1 .. Len(Tail(s)) : Tail(s)[i] = s[i + 1] /\ i + 1 \in 1 .. Len(s)
  BY ZenonT(30), TailFacts
<1>2. Items(Tail(s)) \subseteq Items(s)
  BY ZenonT(30), <1>1 DEF Items
<1>3. Head(s) \in Items(s) /\ Items(s) \subseteq S
  BY DEF Items
<1> QED
  BY ZenonT(30), <1>2, <1>3

\* A response joins the line when everything in the line may come before it.
LEMMA LineAppend ==
    ASSUME NEW s \in Seq(Responses), InLine(s), NEW e \in Responses,
           \A r \in Items(s) : Before(r, e)
    PROVE  InLine(Append(s, e))
<1> DEFINE t == Append(s, e)
<1>1. /\ Len(t) = Len(s) + 1 /\ Len(s) \in Nat /\ t[Len(s) + 1] = e
      /\ \A i \in 1 .. Len(s) : t[i] = s[i]
  BY AppendFacts
<1> HIDE DEF t
<1>2. \A i, j \in 1 .. Len(t) :
          i < j => i \in 1 .. Len(s) /\ (j \in 1 .. Len(s) \/ j = Len(s) + 1)
  BY <1>1
<1>3. \A i \in 1 .. Len(s) : Before(s[i], e)
  BY ZenonT(30) DEF Items
<1>4. ASSUME NEW i \in 1 .. Len(t), NEW j \in 1 .. Len(t), i < j
      PROVE  Before(t[i], t[j])
  <2>1. i \in 1 .. Len(s) /\ t[i] = s[i]
    BY ZenonT(30), <1>1, <1>2, <1>4
  <2>2. CASE j \in 1 .. Len(s)
    BY ZenonT(30), <1>1, <1>4, <2>1, <2>2 DEF InLine
  <2>3. CASE j = Len(s) + 1
    BY ZenonT(30), <1>1, <1>3, <2>1, <2>3
  <2> QED
    BY ZenonT(30), <1>2, <1>4, <2>2, <2>3
<1>5. InLine(t)
  BY ZenonT(30), <1>4 DEF InLine
<1> QED
  BY ZenonT(30), <1>5 DEF t

\* The first of the line comes before the others.
LEMMA LineTail ==
    ASSUME NEW s \in Seq(Responses), InLine(s), s # <<>>
    PROVE  InLine(Tail(s)) /\ \A r \in Items(Tail(s)) : Before(Head(s), r)
<1> DEFINE t == Tail(s)
<1>1. /\ Head(s) = s[1] /\ 1 \in 1 .. Len(s)
      /\ \A i \in 1 .. Len(t) : t[i] = s[i + 1] /\ i + 1 \in 1 .. Len(s)
      /\ \A i, j \in 1 .. Len(t) : i < j => i + 1 < j + 1
  BY ZenonT(30), TailFacts
<1>2. \A i \in 1 .. Len(t) : 1 < i + 1
  OBVIOUS
<1> HIDE DEF t
<1>3. InLine(t)
  BY ZenonT(30), <1>1 DEF InLine
<1>4. \A r \in Items(t) : Before(Head(s), r)
  BY ZenonT(30), <1>1, <1>2 DEF InLine, Items
<1> QED
  BY ZenonT(30), <1>3, <1>4 DEF t

\* A response that everything seen may precede is written to the connection.
LEMMA LineWrite ==
    ASSUME TypeOK, NEW c \in Consumers, Line(c), NEW e \in Responses,
           toClient'[c] = Append(toClient[c], e), received'[c] = received[c],
           e.ok => e.re \in {"delivery", "unsubscribe"},
           \A r \in Seen(c) : Before(r, e)
    PROVE  Line(c)' /\ Seen(c)' = Seen(c) \cup {e}
<1>1. toClient[c] \in Seq(Responses) /\ received[c] \in Seq(Responses)
  BY ZenonT(30) DEF TypeOK, ClientTypeOK, Conns
<1>2. Items(toClient'[c]) = Items(toClient[c]) \cup {e}
  BY <1>1, ItemsAppend
<1>3. InLine(toClient'[c])
  BY ZenonT(30), <1>1, LineAppend DEF Line, Seen
<1>4. Seen(c)' = Seen(c) \cup {e}
  BY ZenonT(30), <1>2 DEF Seen
<1>5. /\ \A r \in Items(received'[c]), s \in Items(toClient'[c]) : Before(r, s)
      /\ \A r \in Items(received'[c]) : r.ok
  BY ZenonT(30), <1>2 DEF Line, Seen
<1>6. \A r \in Seen(c)' : r.ok => r.re \in {"delivery", "unsubscribe"}
  BY ZenonT(30), <1>4 DEF Line
<1>7. InLine(received'[c])
  BY ZenonT(30) DEF Line
<1> QED
  BY ZenonT(30), <1>3, <1>4, <1>5, <1>6, <1>7 DEF Line

\* Receive takes the first response of the connection.
LEMMA LineRead ==
    ASSUME TypeOK, NEW c \in Consumers, Line(c), ReceiveReturns(c)
    PROVE  Line(c)' /\ Seen(c)' \subseteq Seen(c)
<1> DEFINE h == Head(toClient[c])
<1>1. /\ toClient[c] \in Seq(Responses) /\ received[c] \in Seq(Responses)
      /\ toClient[c] # <<>> /\ h \in Responses /\ c \in Conns
      /\ DOMAIN toClient = Conns /\ DOMAIN received = Consumers
  <2>1. /\ toClient[c] \in Seq(Responses) /\ received[c] \in Seq(Responses)
        /\ c \in Conns /\ DOMAIN toClient = Conns /\ DOMAIN received = Consumers
    BY ZenonT(30) DEF TypeOK, ClientTypeOK, Conns
  <2>2. toClient[c] # <<>>
    BY ZenonT(30) DEF ReceiveReturns
  <2> QED
    BY ZenonT(30), <2>1, <2>2, TailFacts
<1>2. toClient'[c] = Tail(toClient[c])
  BY ZenonT(30), <1>1 DEF ReceiveReturns
<1>3. /\ h.ok /\ received'[c] = Append(received[c], h)
      \/ received'[c] = received[c]
  BY ZenonT(30), <1>1 DEF ReceiveReturns
<1>4. /\ InLine(toClient'[c])
      /\ \A r \in Items(toClient'[c]) : Before(h, r)
  BY ZenonT(30), <1>1, <1>2, LineTail DEF Line
<1>5. h \in Items(toClient[c]) /\ Items(toClient'[c]) \subseteq Items(toClient[c])
  BY ZenonT(30), <1>1, <1>2, ItemsTail
<1> HIDE DEF h
<1>6. CASE h.ok /\ received'[c] = Append(received[c], h)
  <2>1. Items(received'[c]) = Items(received[c]) \cup {h}
    BY <1>1, <1>6, ItemsAppend
  <2>2. InLine(received'[c])
    BY ZenonT(30), <1>1, <1>5, <1>6, LineAppend DEF Line
  <2>3. Seen(c)' \subseteq Seen(c)
    BY ZenonT(30), <1>5, <2>1 DEF Seen
  <2>4. \A r \in Items(received'[c]), s \in Items(toClient'[c]) : Before(r, s)
    BY ZenonT(30), <1>4, <1>5, <2>1 DEF Line
  <2>5. \A r \in Items(received'[c]) : r.ok
    BY ZenonT(30), <1>6, <2>1 DEF Line
  <2>6. \A r \in Seen(c)' : r.ok => r.re \in {"delivery", "unsubscribe"}
    BY ZenonT(30), <2>3 DEF Line
  <2> QED
    BY ZenonT(30), <1>4, <2>2, <2>3, <2>4, <2>5, <2>6 DEF Line
<1>7. CASE received'[c] = received[c]
  <2>1. Seen(c)' \subseteq Seen(c)
    BY ZenonT(30), <1>5, <1>7 DEF Seen
  <2>2. /\ InLine(received'[c]) /\ \A r \in Items(received'[c]) : r.ok
        /\ \A r \in Items(received'[c]), s \in Items(toClient'[c]) : Before(r, s)
    BY ZenonT(30), <1>5, <1>7 DEF Line
  <2>3. \A r \in Seen(c)' : r.ok => r.re \in {"delivery", "unsubscribe"}
    BY ZenonT(30), <2>1 DEF Line
  <2> QED
    BY ZenonT(30), <1>4, <1>7, <2>1, <2>2, <2>3 DEF Line
<1> QED
  BY ZenonT(30), <1>3, <1>6, <1>7

\* The tokens of deliveries are numbers.
LEMMA SeenType ==
    ASSUME TypeOK, NEW c \in Consumers
    PROVE  /\ Seen(c) \subseteq Responses /\ c \in Conns
           /\ deliveries[c] \in Seq(Nat) /\ Items(deliveries[c]) \subseteq Nat
           /\ delivery[c] \in Nat /\ lastToken \in Nat
           /\ toServer[c] \in Seq(Requests) /\ Items(toServer[c]) \subseteq Requests
           /\ reply[c] \in Responses /\ calls[c] \in Nat
<1>1. /\ toClient[c] \in Seq(Responses) /\ received[c] \in Seq(Responses)
      /\ c \in Conns /\ deliveries[c] \in Seq(Nat) /\ delivery[c] \in Nat
      /\ toServer[c] \in Seq(Requests) /\ reply[c] \in Responses
  BY ZenonT(30) DEF TypeOK, ClientTypeOK, HandlerTypeOK, Conns
<1>2. lastToken \in Nat /\ calls[c] \in Nat
  <2>1. lastToken \in 0 .. MaxDeliveries /\ calls[c] \in 0 .. MaxCalls
    BY ZenonT(30), <1>1 DEF TypeOK, ClientTypeOK, HandlerTypeOK
  <2> QED
    BY <2>1
<1>3. Seen(c) \subseteq Responses
  BY <1>1 DEF Seen, Items
<1>4. Items(deliveries[c]) \subseteq Nat /\ Items(toServer[c]) \subseteq Requests
  BY <1>1 DEF Items
<1> QED
  BY ZenonT(30), <1>1, <1>2, <1>3, <1>4

\* No new token appears: the channel stays or is made anew, and the goroutine
\* keeps its token or has none.
LEMMA TokensKept ==
    ASSUME TypeOK, NEW c \in Consumers, Tokens(c),
           deliveries'[c] \in {deliveries[c], <<>>},
           subscriber'[c] = "encode" =>
               subscriber[c] = "encode" /\ delivery'[c] = delivery[c],
           lastToken' \in {lastToken, lastToken + 1},
           \A r \in Seen(c)' : r.re = "delivery" => r \in Seen(c)
    PROVE  Tokens(c)'
<1>1. /\ Items(deliveries'[c]) \subseteq Items(deliveries[c])
      /\ \A i, j \in 1 .. Len(deliveries'[c]) :
             i < j => deliveries'[c][i] < deliveries'[c][j]
  <2>1. CASE deliveries'[c] = deliveries[c]
    BY ZenonT(30), <2>1 DEF Tokens
  <2>2. CASE deliveries'[c] = <<>>
    BY <2>2 DEF Items
  <2> QED
    BY ZenonT(30), <2>1, <2>2
<1>2. \A k \in Nat : k <= lastToken => k <= lastToken'
  BY SeenType
<1>3. \A r \in Seen(c) : r.tok \in Nat
  BY ZenonT(30), SeenType DEF Responses
<1>4. /\ Items(deliveries[c]) \subseteq Nat /\ delivery[c] \in Nat
  BY ZenonT(30), SeenType
<1>5. \A k \in Items(deliveries'[c]) : k <= lastToken'
  BY ZenonT(30), <1>1, <1>2, <1>4 DEF Tokens
<1>6. subscriber'[c] = "encode" =>
          /\ delivery'[c] <= lastToken'
          /\ \A k \in Items(deliveries'[c]) : delivery'[c] < k
  BY ZenonT(30), <1>1, <1>2, <1>4 DEF Tokens
<1>7. ASSUME NEW r \in Seen(c)', r.re = "delivery"
      PROVE  /\ r.tok <= lastToken'
             /\ \A k \in Items(deliveries'[c]) : r.tok < k
             /\ subscriber'[c] = "encode" => r.tok < delivery'[c]
  BY ZenonT(30), <1>1, <1>2, <1>3, <1>7 DEF Tokens
<1> QED
  BY ZenonT(30), <1>1, <1>5, <1>6, <1>7 DEF Tokens

\* The distributor sends a token that is later than every other.
LEMMA TokensDistribute ==
    ASSUME TypeOK, NEW c \in Consumers, Tokens(c), Distribute(c)
    PROVE  Tokens(c)' /\ Seen(c)' = Seen(c)
<1> DEFINE e == lastToken + 1
           d == deliveries[c]
<1>1. /\ UNCHANGED <<received, toClient, subscriber, delivery>>
      /\ lastToken' = e /\ deliveries'[c] = Append(d, e)
  BY ZenonT(30), SeenType DEF Distribute, TypeOK, HandlerTypeOK
<1>2. /\ d \in Seq(Nat) /\ e \in Nat /\ Items(d) \subseteq Nat
      /\ \A k \in Nat : k <= lastToken => k <= e /\ k < e
      /\ e <= e
  BY SeenType
<1>3. /\ Len(deliveries'[c]) = Len(d) + 1 /\ Len(d) \in Nat
      /\ deliveries'[c][Len(d) + 1] = e
      /\ \A i \in 1 .. Len(d) : deliveries'[c][i] = d[i]
  BY <1>1, <1>2, AppendFacts
<1>4. Items(deliveries'[c]) = Items(d) \cup {e}
  BY <1>1, <1>2, ItemsAppend
<1>5. Seen(c)' = Seen(c)
  BY ZenonT(30), <1>1 DEF Seen
<1>6. \A r \in Seen(c) : r.tok \in Nat
  BY ZenonT(30), SeenType DEF Responses
<1>7. delivery[c] \in Nat
  BY ZenonT(30), SeenType
<1>8. ASSUME NEW i \in 1 .. Len(deliveries'[c]),
             NEW j \in 1 .. Len(deliveries'[c]), i < j
      PROVE  deliveries'[c][i] < deliveries'[c][j]
  <2>1. /\ i \in 1 .. Len(d)
        /\ j \in 1 .. Len(d) \/ j = Len(d) + 1
    BY <1>3, <1>8
  <2>2. d[i] \in Items(d) /\ deliveries'[c][i] = d[i]
    BY ZenonT(30), <1>3, <2>1 DEF Items
  <2>3. d[i] <= lastToken /\ d[i] \in Nat
    BY ZenonT(30), <1>2, <2>2 DEF Tokens
  <2>4. CASE j \in 1 .. Len(d)
    BY ZenonT(30), <1>3, <1>8, <2>1, <2>2, <2>4 DEF Tokens
  <2>5. CASE j = Len(d) + 1
    BY ZenonT(30), <1>2, <1>3, <2>2, <2>3, <2>5
  <2> QED
    BY ZenonT(30), <2>1, <2>4, <2>5
<1> HIDE DEF e, d
<1>9. \A k \in Items(deliveries'[c]) : k <= lastToken'
  BY ZenonT(30), <1>1, <1>2, <1>4 DEF Tokens, d
<1>10. subscriber'[c] = "encode" =>
           /\ delivery'[c] <= lastToken'
           /\ \A k \in Items(deliveries'[c]) : delivery'[c] < k
  BY ZenonT(30), <1>1, <1>2, <1>4, <1>7 DEF Tokens, d
<1>11. ASSUME NEW r \in Seen(c), r.re = "delivery"
       PROVE  /\ r.tok <= lastToken'
              /\ \A k \in Items(deliveries'[c]) : r.tok < k
              /\ subscriber'[c] = "encode" => r.tok < delivery'[c]
  BY ZenonT(30), <1>1, <1>2, <1>4, <1>6, <1>11 DEF Tokens, d
<1> QED
  BY ZenonT(30), <1>5, <1>8, <1>9, <1>10, <1>11 DEF Tokens

\* The goroutine takes the first token of its channel.
LEMMA TokensTake ==
    ASSUME TypeOK, NEW c \in Consumers, Tokens(c), TakeDelivery(c)
    PROVE  Tokens(c)' /\ Seen(c)' = Seen(c)
<1> DEFINE d == deliveries[c]
<1>1. /\ d \in Seq(Nat) /\ d # <<>> /\ c \in Conns
      /\ DOMAIN delivery = Conns /\ DOMAIN deliveries = Conns
  BY ZenonT(30), SeenType DEF TakeDelivery, TypeOK, HandlerTypeOK
<1>2. /\ UNCHANGED <<received, toClient, lastToken>>
      /\ delivery'[c] = Head(d) /\ deliveries'[c] = Tail(d)
  BY ZenonT(30), <1>1 DEF TakeDelivery
<1>3. Head(d) \in Items(d) /\ Items(deliveries'[c]) \subseteq Items(d)
  BY ZenonT(30), <1>1, <1>2, ItemsTail
<1>4. /\ Head(d) = d[1] /\ 1 \in 1 .. Len(d)
      /\ \A i \in 1 .. Len(Tail(d)) : Tail(d)[i] = d[i + 1] /\ i + 1 \in 1 .. Len(d)
      /\ \A i, j \in 1 .. Len(Tail(d)) : i < j => i + 1 < j + 1
  BY ZenonT(30), <1>1, TailFacts
<1>5. \A i \in 1 .. Len(Tail(d)) : 1 < i + 1
  OBVIOUS
<1>6. Seen(c)' = Seen(c)
  BY ZenonT(30), <1>2 DEF Seen
<1>7. \A i, j \in 1 .. Len(d) : i < j => d[i] < d[j]
  BY ZenonT(30) DEF Tokens
<1> HIDE DEF d
<1>8. /\ \A i, j \in 1 .. Len(deliveries'[c]) :
             i < j => deliveries'[c][i] < deliveries'[c][j]
      /\ \A k \in Items(deliveries'[c]) : delivery'[c] < k
  BY ZenonT(30), <1>2, <1>4, <1>5, <1>7 DEF Items
<1>9. /\ \A k \in Items(deliveries'[c]) : k <= lastToken'
      /\ delivery'[c] <= lastToken'
  BY ZenonT(30), <1>2, <1>3 DEF Tokens, d
<1>10. ASSUME NEW r \in Seen(c), r.re = "delivery"
       PROVE  /\ r.tok <= lastToken' /\ r.tok < delivery'[c]
              /\ \A k \in Items(deliveries'[c]) : r.tok < k
  BY ZenonT(30), <1>2, <1>3, <1>10 DEF Tokens, d
<1> QED
  BY ZenonT(30), <1>6, <1>8, <1>9, <1>10 DEF Tokens

\* The goroutine writes its token: it is later than those that were seen, and
\* earlier than those in the channel.
LEMMA TokensDeliver ==
    ASSUME TypeOK, NEW c \in Consumers, Line(c), Tokens(c), Deliver(c)
    PROVE  /\ Line(c)' /\ Tokens(c)'
           /\ \A r \in Seen(c)' : r.re = "unsubscribe" => r \in Seen(c)
<1> DEFINE e == [ok |-> TRUE, re |-> "delivery", no |-> 0,
                 tok |-> delivery[c], session |-> sessions[c]]
<1>1. /\ UNCHANGED <<received, lastToken, deliveries>>
      /\ subscriber[c] = "encode" /\ subscriber'[c] # "encode"
      /\ toClient'[c] \in {toClient[c], Append(toClient[c], e)}
  BY ZenonT(30), SeenType DEF Deliver, EncodeOk, EncodeFails, TypeOK, ClientTypeOK, HandlerTypeOK
<1>2. e \in Responses /\ e.re = "delivery" /\ e.tok = delivery[c] /\ e.ok
  BY ZenonT(30), SeenType DEF Responses, TypeOK, HandlerTypeOK
<1>3. delivery[c] <= lastToken /\ \A k \in Items(deliveries[c]) : delivery[c] < k
  BY ZenonT(30), <1>1 DEF Tokens
<1>4. \A r \in Seen(c) : r.re = "delivery" =>
          /\ r.tok <= lastToken /\ r.tok < delivery[c]
          /\ \A k \in Items(deliveries[c]) : r.tok < k
  BY ZenonT(30), <1>1 DEF Tokens
<1> HIDE DEF e
<1>5. CASE toClient'[c] = toClient[c]
  <2>1. Seen(c)' = Seen(c)
    BY ZenonT(30), <1>1, <1>5 DEF Seen
  <2>2. Line(c)'
    BY ZenonT(30), <1>1, <1>5, <2>1 DEF Line
  <2>3. Tokens(c)'
    BY ZenonT(30), <1>1, <2>1, TokensKept
  <2> QED
    BY ZenonT(30), <2>1, <2>2, <2>3
<1>6. CASE toClient'[c] = Append(toClient[c], e)
  <2>1. \A r \in Seen(c) : Before(r, e)
    BY ZenonT(30), <1>2, <1>4 DEF Before
  <2>2. Line(c)' /\ Seen(c)' = Seen(c) \cup {e}
    BY ZenonT(30), <1>1, <1>2, <1>6, <2>1, LineWrite
  <2>3. \A i, j \in 1 .. Len(deliveries'[c]) :
            i < j => deliveries'[c][i] < deliveries'[c][j]
    BY ZenonT(30), <1>1 DEF Tokens
  <2>4. \A k \in Items(deliveries'[c]) : k <= lastToken'
    BY ZenonT(30), <1>1 DEF Tokens
  <2>5. \A r \in Seen(c)' : r.re = "delivery" =>
            /\ r.tok <= lastToken'
            /\ \A k \in Items(deliveries'[c]) : r.tok < k
    BY ZenonT(30), <1>1, <1>2, <1>3, <1>4, <2>2
  <2>6. Tokens(c)'
    BY ZenonT(30), <1>1, <2>3, <2>4, <2>5 DEF Tokens
  <2>7. \A r \in Seen(c)' : r.re = "unsubscribe" => r \in Seen(c)
    BY ZenonT(30), <1>2, <2>2
  <2> QED
    BY ZenonT(30), <2>2, <2>6, <2>7
<1> QED
  BY ZenonT(30), <1>1, <1>5, <1>6

\* No request moves: the handler may go on with the one it has.
LEMMA NumbersKept ==
    ASSUME NEW c \in Consumers, Numbers(c),
           toServer'[c] = toServer[c], calls'[c] = calls[c],
           handler'[c] \in Busy =>
               /\ handler[c] \in Busy /\ reply'[c].no = reply[c].no
               /\ handler'[c] # "publish"
               /\ reply'[c].ok \/ handler'[c] = "stopping" =>
                      reply'[c].re = "unsubscribe",
           \A r \in Seen(c)' : r.re = "unsubscribe" => r \in Seen(c)
    PROVE  Numbers(c)'
<1>1. /\ \A i, j \in 1 .. Len(toServer'[c]) :
             i < j => toServer'[c][i].no < toServer'[c][j].no
      /\ \A q \in Items(toServer'[c]) :
             q.no <= calls'[c] /\ q.type \in {"subscribe", "ack", "unsubscribe"}
  BY ZenonT(30) DEF Numbers
<1>2. handler'[c] \in Busy =>
          /\ reply'[c].no <= calls'[c]
          /\ \A q \in Items(toServer'[c]) : reply'[c].no < q.no
  BY ZenonT(30) DEF Numbers
<1>3. \A r \in Seen(c)' : r.re = "unsubscribe" =>
          /\ r.no <= calls'[c]
          /\ \A q \in Items(toServer'[c]) : r.no < q.no
          /\ handler'[c] \in Busy => r.no < reply'[c].no
  BY ZenonT(30) DEF Numbers
<1> QED
  BY ZenonT(30), <1>1, <1>2, <1>3 DEF Numbers

\* A request that is sent has the highest number.
LEMMA NumbersSend ==
    ASSUME TypeOK, NEW c \in Consumers, Numbers(c),
           NEW t \in {"subscribe", "ack", "unsubscribe"}, NEW k \in Nat,
           Send(c, t, k), UNCHANGED handlerVars
    PROVE  Numbers(c)' /\ UNCHANGED <<received, toClient>>
<1> DEFINE n == calls[c] + 1
           e == Request(t, n, k)
           s == toServer[c]
<1>1. /\ UNCHANGED <<received, toClient, handler, reply>> /\ calls'[c] = n
      /\ toServer'[c] \in {s, Append(s, e)}
  BY ZenonT(30), SeenType DEF Send, TypeOK, ClientTypeOK
<1>2. /\ e \in Requests /\ e.type = t /\ e.no = n
      /\ s \in Seq(Requests) /\ Items(s) \subseteq Requests
  <2>1. t \in RequestTypes
    BY ZenonT(30) DEF RequestTypes
  <2>2. n \in Nat /\ s \in Seq(Requests) /\ Items(s) \subseteq Requests
    BY SeenType
  <2>3. e \in Requests
    BY ZenonT(30), <2>1, <2>2, RequestType
  <2>4. e.type = t /\ e.no = n
    BY ZenonT(30) DEF Request
  <2> QED
    BY ZenonT(30), <2>2, <2>3, <2>4
<1>3. /\ \A m \in Nat : m <= calls[c] => m <= n /\ m < n
      /\ n <= n
  BY SeenType
<1>4. /\ \A r \in Seen(c) : r.no \in Nat
      /\ reply[c].no \in Nat /\ \A q \in Items(s) : q.no \in Nat
  <2>1. Seen(c) \subseteq Responses /\ reply[c] \in Responses
    BY ZenonT(30), SeenType
  <2>2. \A r \in Responses : r.no \in Nat
    BY ZenonT(30) DEF Responses
  <2>3. \A q \in Requests : q.no \in Nat
    BY ZenonT(30) DEF Requests
  <2> QED
    BY ZenonT(30), <1>2, <2>1, <2>2, <2>3
<1>5. Seen(c)' = Seen(c)
  BY ZenonT(30), <1>1 DEF Seen
<1>6. Items(toServer'[c]) \subseteq Items(s) \cup {e}
  <2>1. Items(Append(s, e)) = Items(s) \cup {e}
    BY <1>2, ItemsAppend
  <2> QED
    BY ZenonT(30), <1>1, <2>1
<1>7. /\ \A i, j \in 1 .. Len(s) : i < j => s[i].no < s[j].no
      /\ \A q \in Items(s) :
             q.no <= calls[c] /\ q.type \in {"subscribe", "ack", "unsubscribe"}
      /\ handler[c] \in Busy =>
           /\ reply[c].no <= calls[c]
           /\ \A q \in Items(s) : reply[c].no < q.no
           /\ handler[c] # "publish"
           /\ reply[c].ok \/ handler[c] = "stopping" => reply[c].re = "unsubscribe"
  BY ZenonT(30) DEF Numbers
<1>8. \A r \in Seen(c) : r.re = "unsubscribe" =>
          /\ r.no <= calls[c]
          /\ \A q \in Items(s) : r.no < q.no
          /\ handler[c] \in Busy => r.no < reply[c].no
  BY ZenonT(30) DEF Numbers
<1>9. \A i, j \in 1 .. Len(toServer'[c]) :
          i < j => toServer'[c][i].no < toServer'[c][j].no
  <2>1. CASE toServer'[c] = s
    BY ZenonT(30), <1>7, <2>1
  <2>2. CASE toServer'[c] = Append(s, e)
    <3>1. /\ Len(toServer'[c]) = Len(s) + 1 /\ Len(s) \in Nat
          /\ toServer'[c][Len(s) + 1] = e
          /\ \A i \in 1 .. Len(s) : toServer'[c][i] = s[i]
      BY <1>2, <2>2, AppendFacts
    <3> HIDE DEF s, e, n
    <3> SUFFICES ASSUME NEW i \in 1 .. Len(toServer'[c]),
                        NEW j \in 1 .. Len(toServer'[c]), i < j
                 PROVE  toServer'[c][i].no < toServer'[c][j].no
      BY ZenonT(30)
    <3>2. i \in 1 .. Len(s) /\ (j \in 1 .. Len(s) \/ j = Len(s) + 1)
      BY <3>1
    <3>3. s[i] \in Items(s)
      BY ZenonT(30), <3>2 DEF Items
    <3>4. CASE j \in 1 .. Len(s)
      BY ZenonT(30), <1>7, <3>1, <3>2, <3>4
    <3>5. CASE j = Len(s) + 1
      BY ZenonT(30), <1>2, <1>3, <1>4, <1>7, <3>1, <3>2, <3>3, <3>5
    <3> QED
      BY ZenonT(30), <3>2, <3>4, <3>5
  <2> QED
    BY ZenonT(30), <1>1, <2>1, <2>2
<1> HIDE DEF s, e, n
<1>10. \A q \in Items(toServer'[c]) :
           q.no <= calls'[c] /\ q.type \in {"subscribe", "ack", "unsubscribe"}
  BY ZenonT(30), <1>1, <1>2, <1>3, <1>4, <1>6, <1>7
<1>11. handler'[c] \in Busy =>
           /\ reply'[c].no <= calls'[c]
           /\ \A q \in Items(toServer'[c]) : reply'[c].no < q.no
           /\ handler'[c] # "publish"
           /\ reply'[c].ok \/ handler'[c] = "stopping" =>
                  reply'[c].re = "unsubscribe"
  BY ZenonT(30), <1>1, <1>2, <1>3, <1>4, <1>6, <1>7
<1>12. ASSUME NEW r \in Seen(c), r.re = "unsubscribe"
       PROVE  /\ r.no <= calls'[c]
              /\ \A q \in Items(toServer'[c]) : r.no < q.no
              /\ handler'[c] \in Busy => r.no < reply'[c].no
  BY ZenonT(30), <1>1, <1>2, <1>3, <1>4, <1>6, <1>8, <1>12
<1> QED
  BY ZenonT(30), <1>1, <1>5, <1>9, <1>10, <1>11, <1>12 DEF Numbers

\* What the handler does with a request of a consumer.
LEMMA ConsumerRequest ==
    ASSUME NEW c \in Consumers, HandleRequest(c),
           Head(toServer[c]).type \in {"subscribe", "ack", "unsubscribe"}
    PROVE  \/ Goto(c, "top")
           \/ \E ok, l : /\ Prepare(c, Head(toServer[c]), ok, l) /\ l # "publish"
                         /\ ok \/ l = "stopping" =>
                                Head(toServer[c]).type = "unsubscribe"
<1> DEFINE q == Head(toServer[c])
<1> HIDE DEF q
<1>0. ASSUME Respond(c, q, FALSE)
      PROVE  \E ok, l : /\ Prepare(c, q, ok, l) /\ l # "publish"
                        /\ ok \/ l = "stopping" => q.type = "unsubscribe"
  <2>1. Prepare(c, q, FALSE, "reply")
    BY ZenonT(30), <1>0 DEF Respond
  <2>2. "reply" # "publish" /\ "reply" # "stopping"
    BY ZenonT(30)
  <2> QED
    BY ZenonT(30), <2>1, <2>2
<1>1. CASE HandleSubscribe(c, q)
  BY ZenonT(30), <1>0, <1>1 DEF HandleSubscribe, q
<1>2. CASE HandleAck(c, q)
  BY ZenonT(30), <1>0, <1>2 DEF HandleAck, q
<1>3. CASE HandleUnsubscribe(c, q)
  BY ZenonT(30), <1>3 DEF HandleUnsubscribe, Decode, Respond, q
<1>4. CASE \/ HandleVersion(c, q) \/ HandlePublish(c, q) \/ HandleMetrics(c, q)
           \/ HandleQueues(c, q) \/ HandleExchanges(c, q) \/ HandleUnknown(c, q)
  <2>1. q.type \in {"foreign", "publish", "metrics", "queue", "exchange", "unknown"}
    BY ZenonT(30), <1>4
       DEF HandleVersion, HandlePublish, HandleMetrics, HandleQueues,
           HandleExchanges, HandleCall, HandleUnknown, Decode
  <2> QED
    BY ZenonT(30), <2>1 DEF q
<1> QED
  BY ZenonT(30), <1>1, <1>2, <1>3, <1>4 DEF HandleRequest, q

\* The handler decodes the first request of the connection.
LEMMA NumbersRequest ==
    ASSUME TypeOK, NEW c \in Consumers, Numbers(c), HandleRequest(c)
    PROVE  Numbers(c)' /\ UNCHANGED <<received, toClient, calls>>
<1> DEFINE s == toServer[c]
           q == Head(s)
<1>1. PICK t : Decode(c, q, t)
  BY ZenonT(30) DEF HandleRequest, HandleVersion, HandlePublish, HandleMetrics,
         HandleQueues, HandleExchanges, HandleCall, HandleUnknown, HandleAck,
         HandleSubscribe, HandleUnsubscribe
<1>2. /\ s \in Seq(Requests) /\ s # <<>> /\ c \in Conns
      /\ DOMAIN toServer = Conns /\ DOMAIN handler = Conns
      /\ DOMAIN reply = Conns
  BY ZenonT(30), SeenType DEF HandleRequest, TypeOK, ClientTypeOK, HandlerTypeOK
<1>3. UNCHANGED <<received, toClient, calls>> /\ toServer'[c] = Tail(s)
  BY ZenonT(30), <1>1, <1>2 DEF Decode
<1>4. q \in Items(s) /\ Items(toServer'[c]) \subseteq Items(s)
  BY ZenonT(30), <1>2, <1>3, ItemsTail
<1>5. /\ q = s[1] /\ 1 \in 1 .. Len(s)
      /\ \A i \in 1 .. Len(Tail(s)) : Tail(s)[i] = s[i + 1] /\ i + 1 \in 1 .. Len(s)
      /\ \A i, j \in 1 .. Len(Tail(s)) : i < j => i + 1 < j + 1
  BY ZenonT(30), <1>2, TailFacts
<1>6. \A i \in 1 .. Len(Tail(s)) : 1 < i + 1
  OBVIOUS
<1>7. /\ \A i, j \in 1 .. Len(s) : i < j => s[i].no < s[j].no
      /\ \A p \in Items(s) :
             p.no <= calls[c] /\ p.type \in {"subscribe", "ack", "unsubscribe"}
      /\ \A r \in Seen(c) : r.re = "unsubscribe" =>
             /\ r.no <= calls[c]
             /\ \A p \in Items(s) : r.no < p.no
  BY ZenonT(30) DEF Numbers
<1>8. Seen(c)' = Seen(c)
  BY ZenonT(30), <1>3 DEF Seen
<1>9. /\ handler'[c] \in Busy => reply'[c].no = q.no
      /\ handler'[c] \in Busy =>
             /\ handler'[c] # "publish"
             /\ reply'[c].ok \/ handler'[c] = "stopping" =>
                    reply'[c].re = "unsubscribe"
  <2>1. CASE Goto(c, "top")
    BY ZenonT(30), <1>2, <2>1 DEF Goto, Busy
  <2>2. ASSUME NEW ok, NEW l, Prepare(c, q, ok, l), l # "publish",
               ok \/ l = "stopping" => q.type = "unsubscribe"
        PROVE  /\ reply'[c].no = q.no /\ handler'[c] # "publish"
               /\ reply'[c].ok \/ handler'[c] = "stopping" =>
                      reply'[c].re = "unsubscribe"
    <3>1. reply'[c] = Response(q, ok, sessions[c]) /\ handler'[c] = l
      BY ZenonT(30), <1>2, <2>2 DEF Prepare, Goto
    <3> HIDE DEF q
    <3>2. reply'[c].no = q.no /\ reply'[c].ok = ok /\ reply'[c].re = q.type
      <4> DEFINE r == Response(q, ok, sessions[c])
      <4>1. r.no = q.no /\ r.ok = ok /\ r.re = q.type
        BY ResponseFields
      <4> QED
        BY ZenonT(30), <3>1, <4>1
    <3> QED
      BY ZenonT(30), <2>2, <3>1, <3>2
  <2> QED
    BY ZenonT(30), <1>4, <1>7, <2>1, <2>2, ConsumerRequest
<1> HIDE DEF q, s
<1>10. /\ \A i, j \in 1 .. Len(toServer'[c]) :
              i < j => toServer'[c][i].no < toServer'[c][j].no
       /\ \A p \in Items(toServer'[c]) : q.no < p.no
  <2>1. \A i \in 1 .. Len(Tail(s)) : q.no < Tail(s)[i].no
    BY ZenonT(30), <1>5, <1>6, <1>7
  <2>2. \A i, j \in 1 .. Len(Tail(s)) : i < j => Tail(s)[i].no < Tail(s)[j].no
    BY ZenonT(30), <1>5, <1>7
  <2> QED
    BY ZenonT(30), <1>3, <2>1, <2>2 DEF Items
<1>11. /\ \A p \in Items(toServer'[c]) :
              p.no <= calls'[c] /\ p.type \in {"subscribe", "ack", "unsubscribe"}
       /\ q.no <= calls'[c]
  BY ZenonT(30), <1>3, <1>4, <1>7
<1>12. \A r \in Seen(c) : r.re = "unsubscribe" =>
           /\ r.no <= calls'[c] /\ r.no < q.no
           /\ \A p \in Items(toServer'[c]) : r.no < p.no
  BY ZenonT(30), <1>3, <1>4, <1>7
<1> QED
  BY ZenonT(30), <1>3, <1>8, <1>9, <1>10, <1>11, <1>12 DEF Numbers

\* The handler encodes its answer: it is later than those that were seen, and
\* earlier than the requests to come.
LEMMA NumbersEncode ==
    ASSUME TypeOK, NEW c \in Consumers, Line(c), Numbers(c), Quiet(c), Encode(c)
    PROVE  /\ Line(c)' /\ Numbers(c)'
           /\ \A r \in Seen(c)' : r.re = "delivery" => r \in Seen(c)
<1> DEFINE e == reply[c]
<1>1. /\ UNCHANGED <<received, calls, toServer>>
      /\ handler[c] \in {"reply", "refuse"} /\ handler'[c] \in {"top", "exit"}
      /\ toClient'[c] \in {toClient[c], Append(toClient[c], e)}
  BY ZenonT(30), SeenType
     DEF Encode, EncodeOk, EncodeFails, Goto, TypeOK, ClientTypeOK, HandlerTypeOK
<1>2. handler[c] \in Busy /\ handler'[c] \notin Busy /\ e \in Responses
  BY ZenonT(30), <1>1, SeenType DEF Busy
<1>3. /\ e.ok => e.re = "unsubscribe"
      /\ e.no <= calls[c] /\ \A q \in Items(toServer[c]) : e.no < q.no
      /\ e.re # "delivery"
  BY ZenonT(30), <1>2 DEF Numbers, Quiet
<1>4. \A r \in Seen(c) : r.re = "unsubscribe" =>
          /\ r.no <= calls[c] /\ r.no < e.no
          /\ \A q \in Items(toServer[c]) : r.no < q.no
  BY ZenonT(30), <1>2 DEF Numbers
<1>5. CASE toClient'[c] = toClient[c]
  <2>1. Seen(c)' = Seen(c)
    BY ZenonT(30), <1>1, <1>5 DEF Seen
  <2>2. Line(c)'
    BY ZenonT(30), <1>1, <1>5, <2>1 DEF Line
  <2>3. Numbers(c)'
    BY ZenonT(30), <1>1, <1>2, <2>1, NumbersKept
  <2> QED
    BY ZenonT(30), <2>1, <2>2, <2>3
<1>6. CASE toClient'[c] = Append(toClient[c], e)
  <2>1. \A r \in Seen(c) : Before(r, e)
    BY ZenonT(30), <1>3, <1>4 DEF Before
  <2>2. Line(c)' /\ Seen(c)' = Seen(c) \cup {e}
    BY ZenonT(30), <1>1, <1>2, <1>3, <1>6, <2>1, LineWrite
  <2> HIDE DEF e
  <2>3. /\ \A i, j \in 1 .. Len(toServer'[c]) :
               i < j => toServer'[c][i].no < toServer'[c][j].no
        /\ \A q \in Items(toServer'[c]) :
               q.no <= calls'[c] /\ q.type \in {"subscribe", "ack", "unsubscribe"}
    BY ZenonT(30), <1>1 DEF Numbers
  <2>4. \A r \in Seen(c)' : r.re = "unsubscribe" =>
            r.no <= calls'[c] /\ \A q \in Items(toServer'[c]) : r.no < q.no
    BY ZenonT(30), <1>1, <1>3, <1>4, <2>2
  <2>5. Numbers(c)'
    BY ZenonT(30), <1>2, <2>3, <2>4 DEF Numbers
  <2>6. \A r \in Seen(c)' : r.re = "delivery" => r \in Seen(c)
    BY ZenonT(30), <1>3, <2>2
  <2> QED
    BY ZenonT(30), <2>2, <2>5, <2>6
<1> QED
  BY ZenonT(30), <1>1, <1>5, <1>6

-----------------------------------------------------------------------------
(* The steps. *)

\* Steps of others leave a consumer's channel and what it received alone; a
\* token is handed out at most.
LEMMA FeedElsewhere ==
    ASSUME TypeOK, NEW c \in Consumers, NEW d \in Conns, d # c,
           HandlerStep(d) \/ SubscriberStep(d) \/ Distribute(d)
    PROVE  /\ UNCHANGED <<received, calls, delivery[c], deliveries[c]>>
           /\ lastToken' \in {lastToken, lastToken + 1}
<1>1. CASE HandlerStep(d)
  <2>1. UNCHANGED <<received, calls, delivery, lastToken>>
    BY ZenonT(30), <1>1
       DEF HandlerStep, LoopTop, DecodeError, PublishReturns, Stopped, Encode,
           StopSubscriber, CloseConn, HandleRequest, HandleVersion,
           HandlePublish, HandleMetrics, HandleQueues, HandleExchanges,
           HandleCall, HandleUnknown, HandleAck, HandleSubscribe,
           HandleUnsubscribe, Decode
  <2>2. \/ UNCHANGED deliveries
        \/ deliveries' = [deliveries EXCEPT ![d] = <<>>]
    BY ZenonT(30), <1>1
       DEF HandlerStep, LoopTop, DecodeError, PublishReturns, Stopped, Encode,
           StopSubscriber, CloseConn, HandleRequest, HandleVersion,
           HandlePublish, HandleMetrics, HandleQueues, HandleExchanges,
           HandleCall, HandleUnknown, HandleAck, HandleSubscribe,
           HandleUnsubscribe
  <2>3. deliveries'[c] = deliveries[c]
    BY ZenonT(30), <2>2, SeenType DEF TypeOK, HandlerTypeOK
  <2> QED
    BY ZenonT(30), <2>1, <2>3
<1>2. CASE SubscriberStep(d) \/ Distribute(d)
  <2>1. /\ UNCHANGED <<received, calls>>
        /\ \/ UNCHANGED delivery
           \/ \E k : delivery' = [delivery EXCEPT ![d] = k]
        /\ \/ UNCHANGED deliveries
           \/ \E s : deliveries' = [deliveries EXCEPT ![d] = s]
        /\ lastToken' = lastToken \/ lastToken' = lastToken + 1
    BY ZenonT(30), <1>2
       DEF SubscriberStep, TakeDelivery, Deliver, SeeStop, Leave, Distribute
  <2>2. delivery'[c] = delivery[c] /\ deliveries'[c] = deliveries[c]
    BY ZenonT(30), <2>1, SeenType DEF TypeOK, HandlerTypeOK
  <2> QED
    BY ZenonT(30), <2>1, <2>2
<1> QED
  BY ZenonT(30), <1>1, <1>2

\* A step that moves nothing on the connection but the handler and, perhaps,
\* the last token.
LEMMA SequencedKept ==
    ASSUME TypeOK, NEW c \in Consumers, Line(c), Tokens(c), Numbers(c),
           Conversation(c)' = Conversation(c),
           UNCHANGED <<received[c], delivery[c], deliveries[c]>>,
           lastToken' \in {lastToken, lastToken + 1},
           handler'[c] = handler[c] \/ handler'[c] \in {"top", "done"}
    PROVE  Line(c)' /\ Tokens(c)' /\ Numbers(c)'
<1>1. UNCHANGED <<toServer[c], toClient[c], calls[c], reply[c], subscriber[c],
                  received[c], delivery[c], deliveries[c]>>
  BY ZenonT(30) DEF Conversation
<1>2. Seen(c)' = Seen(c)
  BY ZenonT(30), <1>1 DEF Seen
<1>3. Line(c)'
  BY ZenonT(30), <1>1, <1>2 DEF Line
<1>4. Tokens(c)'
  BY ZenonT(30), <1>1, <1>2, TokensKept
<1>5. handler'[c] \in Busy => handler'[c] = handler[c]
  BY ZenonT(30) DEF Busy
<1>6. Numbers(c)'
  <2>1. handler'[c] \in Busy =>
            /\ handler[c] \in Busy /\ reply'[c].no = reply[c].no
            /\ handler'[c] # "publish"
            /\ reply'[c].ok \/ handler'[c] = "stopping" =>
                   reply'[c].re = "unsubscribe"
    BY ZenonT(30), <1>1, <1>5 DEF Numbers
  <2> QED
    BY ZenonT(30), <1>1, <1>2, <2>1, NumbersKept
<1> QED
  BY ZenonT(30), <1>3, <1>4, <1>6

\* The steps of the handler.
LEMMA SequencedHandler ==
    ASSUME TypeOK, NEW c \in Consumers, Line(c), Tokens(c), Numbers(c), Quiet(c),
           HandlerStep(c)
    PROVE  Line(c)' /\ Tokens(c)' /\ Numbers(c)'
<1>0. /\ c \in Conns /\ DOMAIN handler = Conns /\ DOMAIN reply = Conns
      /\ DOMAIN subscriber = Conns /\ DOMAIN deliveries = Conns
      /\ reply[c] \in Responses
  BY ZenonT(30), SeenType DEF TypeOK, HandlerTypeOK
<1>1. /\ UNCHANGED <<received, calls, delivery, lastToken>>
      /\ \/ UNCHANGED <<subscriber, deliveries>>
         \/ /\ deliveries' = [deliveries EXCEPT ![c] = <<>>]
            /\ subscriber' = [subscriber EXCEPT ![c] = "select"]
  BY ZenonT(30)
     DEF HandlerStep, LoopTop, DecodeError, PublishReturns, Stopped, Encode,
         StopSubscriber, CloseConn, HandleRequest, HandleVersion,
         HandlePublish, HandleMetrics, HandleQueues, HandleExchanges,
         HandleCall, HandleUnknown, HandleAck, HandleSubscribe,
         HandleUnsubscribe, Decode
<1>2. /\ deliveries'[c] \in {deliveries[c], <<>>}
      /\ subscriber'[c] = "encode" =>
             subscriber[c] = "encode" /\ delivery'[c] = delivery[c]
      /\ lastToken' \in {lastToken, lastToken + 1}
  BY ZenonT(30), <1>0, <1>1
<1>3. ASSUME UNCHANGED toClient
      PROVE  Line(c)' /\ Tokens(c)' /\ Seen(c)' = Seen(c)
  <2>1. Seen(c)' = Seen(c)
    BY ZenonT(30), <1>1, <1>3 DEF Seen
  <2>2. Line(c)'
    BY ZenonT(30), <1>1, <1>3, <2>1 DEF Line
  <2> QED
    BY ZenonT(30), <1>2, <2>1, <2>2, TokensKept
<1>4. CASE LoopTop(c) \/ DecodeError(c) \/ StopSubscriber(c) \/ CloseConn(c)
  <2>1. UNCHANGED <<toClient, toServer, reply>> /\ handler'[c] \notin Busy
    BY ZenonT(30), <1>0, <1>4
       DEF LoopTop, DecodeError, StopSubscriber, CloseConn, Goto, Busy
  <2> QED
    BY ZenonT(30), <1>1, <1>3, <2>1, NumbersKept
<1>5. CASE PublishReturns(c)
  <2>1. handler[c] = "publish"
    BY ZenonT(30), <1>5 DEF PublishReturns
  <2> QED
    BY ZenonT(30), <2>1 DEF Numbers, Busy
<1>6. CASE Stopped(c)
  <2>1. /\ UNCHANGED <<toClient, toServer>>
        /\ handler[c] = "stopping" /\ handler'[c] = "reply"
        /\ reply' = [reply EXCEPT ![c].ok = TRUE]
    BY ZenonT(30), <1>0, <1>6 DEF Stopped, Complete, Goto
  <2>2. reply'[c].no = reply[c].no /\ reply'[c].re = reply[c].re
    BY ZenonT(30), <1>0, <2>1 DEF Responses
  <2>3. handler[c] \in Busy /\ handler'[c] # "publish"
    BY ZenonT(30), <2>1 DEF Busy
  <2>4. reply[c].re = "unsubscribe"
    BY ZenonT(30), <2>1, <2>3 DEF Numbers
  <2> QED
    BY ZenonT(30), <1>1, <1>3, <2>1, <2>2, <2>3, <2>4, NumbersKept
<1>7. CASE HandleRequest(c)
  BY ZenonT(30), <1>3, <1>7, NumbersRequest
<1>8. CASE Encode(c)
  BY ZenonT(30), <1>2, <1>8, NumbersEncode, TokensKept
<1> QED
  BY ZenonT(30), <1>4, <1>5, <1>6, <1>7, <1>8 DEF HandlerStep

\* The steps of the goroutine.
LEMMA SequencedSubscriber ==
    ASSUME TypeOK, NEW c \in Consumers, Line(c), Tokens(c), Numbers(c),
           SubscriberStep(c) \/ Distribute(c)
    PROVE  Line(c)' /\ Tokens(c)' /\ Numbers(c)'
<1>0. c \in Conns /\ DOMAIN subscriber = Conns
  BY ZenonT(30), SeenType DEF TypeOK, HandlerTypeOK
<1>1. UNCHANGED <<toServer, calls, handler, reply, received>>
  BY ZenonT(30) DEF SubscriberStep, TakeDelivery, Deliver, SeeStop, Leave, Distribute
<1>2. ASSUME \A r \in Seen(c)' : r.re = "unsubscribe" => r \in Seen(c)
      PROVE  Numbers(c)'
  <2>1. handler'[c] \in Busy =>
            /\ handler[c] \in Busy /\ reply'[c].no = reply[c].no
            /\ handler'[c] # "publish"
            /\ reply'[c].ok \/ handler'[c] = "stopping" =>
                   reply'[c].re = "unsubscribe"
    BY ZenonT(30), <1>1 DEF Numbers
  <2> QED
    BY ZenonT(30), <1>1, <1>2, <2>1, NumbersKept
<1>3. ASSUME UNCHANGED toClient
      PROVE  Line(c)' /\ Numbers(c)' /\ Seen(c)' = Seen(c)
  <2>1. Seen(c)' = Seen(c)
    BY ZenonT(30), <1>1, <1>3 DEF Seen
  <2>2. Line(c)'
    BY ZenonT(30), <1>1, <1>3, <2>1 DEF Line
  <2> QED
    BY ZenonT(30), <1>2, <2>1, <2>2
<1>4. CASE TakeDelivery(c)
  <2>1. UNCHANGED toClient
    BY ZenonT(30), <1>4 DEF TakeDelivery
  <2> QED
    BY ZenonT(30), <1>3, <1>4, <2>1, TokensTake
<1>5. CASE Deliver(c)
  BY ZenonT(30), <1>2, <1>5, TokensDeliver
<1>6. CASE SeeStop(c) \/ Leave(c)
  <2>1. /\ UNCHANGED <<toClient, delivery, deliveries, lastToken>>
        /\ subscriber'[c] # "encode"
    BY ZenonT(30), <1>0, <1>6 DEF SeeStop, Leave
  <2>2. /\ deliveries'[c] \in {deliveries[c], <<>>}
        /\ lastToken' \in {lastToken, lastToken + 1}
    BY ZenonT(30), <2>1
  <2> QED
    BY ZenonT(30), <1>3, <2>1, <2>2, TokensKept
<1>7. CASE Distribute(c)
  <2>1. UNCHANGED toClient
    BY ZenonT(30), <1>7 DEF Distribute
  <2> QED
    BY ZenonT(30), <1>3, <1>7, <2>1, TokensDistribute
<1> QED
  BY ZenonT(30), <1>4, <1>5, <1>6, <1>7 DEF SubscriberStep

\* The steps of the consumer.
LEMMA SequencedConsumer ==
    ASSUME TypeOK, NEW c \in Consumers, Line(c), Tokens(c), Numbers(c),
           ConsumerStep(c), UNCHANGED handlerVars
    PROVE  Line(c)' /\ Tokens(c)' /\ Numbers(c)'
<1>1. ASSUME Seen(c)' \subseteq Seen(c)
      PROVE  Tokens(c)'
  <2>1. /\ deliveries'[c] \in {deliveries[c], <<>>}
        /\ subscriber'[c] = "encode" =>
               subscriber[c] = "encode" /\ delivery'[c] = delivery[c]
        /\ lastToken' \in {lastToken, lastToken + 1}
        /\ \A r \in Seen(c)' : r.re = "delivery" => r \in Seen(c)
    BY ZenonT(30), <1>1
  <2> QED
    BY ZenonT(30), <2>1, TokensKept
<1>2. ASSUME Seen(c)' \subseteq Seen(c), UNCHANGED <<toServer, calls>>
      PROVE  Numbers(c)'
  <2>1. handler'[c] \in Busy =>
            /\ handler[c] \in Busy /\ reply'[c].no = reply[c].no
            /\ handler'[c] # "publish"
            /\ reply'[c].ok \/ handler'[c] = "stopping" =>
                   reply'[c].re = "unsubscribe"
    BY ZenonT(30) DEF Numbers
  <2> QED
    BY ZenonT(30), <1>2, <2>1, NumbersKept
<1>3. ASSUME UNCHANGED <<toClient, received>>
      PROVE  Line(c)' /\ Seen(c)' \subseteq Seen(c)
  <2>1. Seen(c)' = Seen(c)
    BY ZenonT(30), <1>3 DEF Seen
  <2> QED
    BY ZenonT(30), <1>3, <2>1 DEF Line
<1>4. ASSUME NEW t \in {"subscribe", "ack", "unsubscribe"}, NEW k \in Nat,
             Send(c, t, k)
      PROVE  Line(c)' /\ Tokens(c)' /\ Numbers(c)'
  BY ZenonT(30), <1>1, <1>3, <1>4, NumbersSend
<1>5. CASE Subscribe(c) \/ Unsubscribe(c)
  <2>1. 0 \in Nat
    BY ZenonT(30)
  <2> QED
    BY ZenonT(30), <1>4, <1>5, <2>1 DEF Subscribe, Unsubscribe
<1>6. CASE Ack(c)
  <2>1. PICK i \in DOMAIN received[c] : Send(c, "ack", received[c][i].tok)
    BY ZenonT(30), <1>6 DEF Ack
  <2>2. received[c] \in Seq(Responses)
    BY ZenonT(30) DEF TypeOK, ClientTypeOK
  <2>3. received[c][i].tok \in Nat
    <3>1. received[c][i] \in Responses
      BY <2>2
    <3> QED
      BY ZenonT(30), <3>1 DEF Responses
  <2> QED
    BY ZenonT(30), <1>4, <2>1, <2>3
<1>7. CASE Receive(c) \/ ReceiveFails(c) \/ Cancel(c) \/ WatcherEnds(c)
  <2>1. UNCHANGED <<toClient, received, toServer, calls>>
    BY ZenonT(30), <1>7 DEF Receive, ReceiveFails, Cancel, WatcherEnds
  <2> QED
    BY ZenonT(30), <1>1, <1>2, <1>3, <2>1
<1>8. CASE ReceiveReturns(c)
  <2>1. UNCHANGED <<toServer, calls>>
    BY ZenonT(30), <1>8 DEF ReceiveReturns
  <2> QED
    BY ZenonT(30), <1>1, <1>2, <1>8, <2>1, LineRead
<1> QED
  BY ZenonT(30), <1>5, <1>6, <1>7, <1>8 DEF ConsumerStep

\* Every step keeps what a consumer receives in order.
LEMMA SequencedStep ==
    ASSUME TypeOK, QuietAll, Sequenced, [Next]_vars
    PROVE  Sequenced'
<1> SUFFICES ASSUME NEW c \in Consumers
             PROVE  Line(c)' /\ Tokens(c)' /\ Numbers(c)'
  BY ZenonT(30) DEF Sequenced
<1>0. /\ Line(c) /\ Tokens(c) /\ Numbers(c) /\ Quiet(c)
      /\ c \in Conns /\ c \notin Producers
  BY ZenonT(30), ClientAssumption DEF Sequenced, QuietAll, Conns
<1>1. ASSUME Conversation(c)' = Conversation(c),
             UNCHANGED <<received[c], delivery[c], deliveries[c]>>,
             lastToken' = lastToken,
             handler'[c] = handler[c] \/ handler'[c] \in {"top", "done"}
      PROVE  Line(c)' /\ Tokens(c)' /\ Numbers(c)'
  <2>1. lastToken' \in {lastToken, lastToken + 1}
    BY ZenonT(30), <1>1
  <2> QED
    BY ZenonT(30), <1>0, <1>1, <2>1, SequencedKept
<1>2. CASE ProcessStep
  <2>1. UNCHANGED <<received, delivery, deliveries, lastToken>>
    BY ZenonT(30), <1>2
       DEF ProcessStep, MainStep, CloserStep, StartBroker, ListenFails, Listen,
           Accept, TrackConn, CheckContext, AcceptClosed, ShutdownBroker,
           BrokerStopped, CloseWal, CloseListener, CloseConns, Signal,
           WorkersEnd, Dial, HandlerDone
  <2> QED
    BY ZenonT(30), <1>0, <1>1, <1>2, <2>1, ProcessElsewhere
<1>3. CASE ClientNext /\ UNCHANGED handlerVars
  <2>1. CASE ConsumerStep(c)
    BY ZenonT(30), <1>0, <1>3, <2>1, SequencedConsumer
  <2>2. CASE Conversation(c)' = Conversation(c) /\ ~ConsumerStep(c)
    <3>1. received'[c] = received[c]
      <4>1. DOMAIN received = Consumers
        BY ZenonT(30) DEF TypeOK, ClientTypeOK
      <4>2. \A d \in Consumers : ConsumerStep(d) =>
                \/ UNCHANGED received
                \/ \E s : received' = [received EXCEPT ![d] = s]
        BY ZenonT(30)
           DEF ConsumerStep, Subscribe, Unsubscribe, Ack, Send, Receive,
               ReceiveReturns, ReceiveFails, Cancel, WatcherEnds
      <4>3. ASSUME NEW p \in Producers, ProducerStep(p)
            PROVE  UNCHANGED received
        BY ZenonT(30), <4>3
           DEF ProducerStep, Publish, GetMetrics, ManageQueues, ManageExchanges,
               CallOther, Call, Answered, DecodeFails
      <4>4. ASSUME NEW d \in Conns, Close(d)
            PROVE  UNCHANGED received
        BY ZenonT(30), <4>4 DEF Close
      <4>5. ASSUME NEW d \in Consumers, ConsumerStep(d)
            PROVE  received'[c] = received[c]
        <5>1. d # c
          BY ZenonT(30), <2>2, <4>5
        <5> QED
          BY ZenonT(30), <4>1, <4>2, <4>5, <5>1
      <4> QED
        BY ZenonT(30), <1>3, <4>3, <4>4, <4>5 DEF ClientNext
    <3> QED
      BY ZenonT(30), <1>1, <1>3, <2>2, <3>1
  <2> QED
    BY ZenonT(30), <1>0, <1>3, <2>1, <2>2, ClientElsewhere
<1>4. ASSUME NEW d \in Conns,
             HandlerStep(d) \/ SubscriberStep(d) \/ Distribute(d)
      PROVE  Line(c)' /\ Tokens(c)' /\ Numbers(c)'
  <2>1. CASE d # c
    <3>1. Conversation(c)' = Conversation(c) /\ handler'[c] = handler[c]
      BY ZenonT(30), <1>0, <1>4, <2>1, HandlerElsewhere
    <3>2. /\ UNCHANGED <<received, delivery[c], deliveries[c]>>
          /\ lastToken' \in {lastToken, lastToken + 1}
      BY ZenonT(30), <1>4, <2>1, FeedElsewhere
    <3> QED
      BY ZenonT(30), <1>0, <3>1, <3>2, SequencedKept
  <2>2. CASE HandlerStep(c)
    BY ZenonT(30), <1>0, <2>2, SequencedHandler
  <2>3. CASE SubscriberStep(c) \/ Distribute(c)
    BY ZenonT(30), <1>0, <2>3, SequencedSubscriber
  <2> QED
    BY ZenonT(30), <1>4, <2>1, <2>2, <2>3
<1>5. CASE UNCHANGED vars
  BY ZenonT(30), <1>1, <1>5 DEF Conversation
<1> QED
  BY ZenonT(30), <1>2, <1>3, <1>4, <1>5, StepCases

\* Nothing is on the way at the start.
LEMMA InitSequenced == Init => Sequenced
<1> SUFFICES ASSUME Init, NEW c \in Consumers
             PROVE  Line(c) /\ Tokens(c) /\ Numbers(c)
  BY ZenonT(30) DEF Sequenced
<1>1. /\ received[c] = <<>> /\ toClient[c] = <<>> /\ toServer[c] = <<>>
      /\ deliveries[c] = <<>> /\ handler[c] = "none" /\ subscriber[c] = "none"
  BY ZenonT(30) DEF Init, ClientInit, HandlerInit, Conns
<1>2. Items(<<>>) = {} /\ 1 .. Len(<<>>) = {}
  BY DEF Items
<1>3. Seen(c) = {}
  BY ZenonT(30), <1>1, <1>2 DEF Seen
<1>4. Line(c)
  BY ZenonT(30), <1>1, <1>2, <1>3 DEF Line, InLine
<1>5. Tokens(c)
  BY ZenonT(30), <1>1, <1>2, <1>3 DEF Tokens
<1>6. Numbers(c)
  BY ZenonT(30), <1>1, <1>2, <1>3 DEF Numbers, Busy
<1> QED
  BY ZenonT(30), <1>4, <1>5, <1>6

(***************************************************************************)
(* Receive returns the deliveries of a connection in the order in which    *)
(* the distributor sent them, each once, and the answers to Unsubscribe in *)
(* the order of the requests.                                              *)
(***************************************************************************)
THEOREM OrderedReceipt == Spec => []ReceivedInOrder
<1>1. ASSUME TypeOK, Sequenced PROVE ReceivedInOrder
  <2> SUFFICES ASSUME NEW c \in Consumers, NEW i \in DOMAIN received[c]
               PROVE  /\ received[c][i].re \in {"delivery", "unsubscribe"}
                      /\ \A j \in 1 .. i - 1 :
                             received[c][j].re = received[c][i].re =>
                                 IF received[c][i].re = "delivery"
                                 THEN received[c][j].tok < received[c][i].tok
                                 ELSE received[c][j].no < received[c][i].no
    BY ZenonT(30) DEF ReceivedInOrder
  <2>1. received[c] \in Seq(Responses)
    BY ZenonT(30), <1>1 DEF TypeOK, ClientTypeOK
  <2>2. /\ i \in 1 .. Len(received[c])
        /\ \A j \in 1 .. i - 1 : j \in 1 .. Len(received[c]) /\ j < i
    BY <2>1
  <2>3. received[c][i] \in Items(received[c])
    BY ZenonT(30), <2>2 DEF Items
  <2>4. received[c][i].re \in {"delivery", "unsubscribe"}
    BY ZenonT(30), <1>1, <2>3 DEF Sequenced, Line, Seen
  <2>5. \A j \in 1 .. i - 1 : Before(received[c][j], received[c][i])
    BY ZenonT(30), <1>1, <2>2 DEF Sequenced, Line, InLine
  <2> QED
    BY ZenonT(30), <2>4, <2>5 DEF Before
<1> QED
  BY <1>1, InitServed, InitQuiet, InitSequenced, TypeCorrect, ServedStep,
     QuietStep, SequencedStep, PTL DEF Spec

=============================================================================
