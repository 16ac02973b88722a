------------------------------- MODULE Handler ------------------------------
(***************************************************************************)
(* The connection handler (internal/server/handler.go): one goroutine per  *)
(* connection that decodes a request, calls the broker and encodes the     *)
(* response, and one goroutine per subscription that encodes deliveries    *)
(* into the same connection.                                               *)
(*                                                                         *)
(* The broker is what the handler sees of it: the default queue, which is  *)
(* bounded and cannot be deleted and whose Publish waits while it is full, *)
(* sessions that are registered and given deliveries, and calls that       *)
(* succeed or fail.  QueueRuntime and Registry model its inside.  encode   *)
(* holds the connection's mutex, so it is one step.                        *)
(***************************************************************************)
EXTENDS Client

CONSTANTS
    Capacity,       \* the capacity of the queue
    Recovered,      \* the number of messages the broker loaded into it
    MaxDeliveries   \* the number of deliveries the distributor makes

ASSUME HandlerAssumption ==
    Capacity \in Nat /\ Recovered \in 0 .. Capacity /\ MaxDeliveries \in Nat

VARIABLES
    handler,        \* where handleConnection is, per connection
    reply,          \* the response it prepares or encodes
    encErr,         \* the connection's json.Encoder has kept a write error
    stopSubscribe,  \* "nil", "open" or "closed"
    subscriber,     \* the subscription goroutine: "none", "select", "encode"
                    \* or "leave"
    delivery,       \* the token it holds, or 0
    deliveries,     \* the session's channel: tokens
    sessions,       \* the number of sessions the connection has had
    registered,     \* the connections whose session the queue knows
    depth,          \* the number of messages in the queue
    stored,         \* <<connection, call>> of every message enqueued
    lastToken,      \* the tokens handed out
    ctxDone,        \* the process's context is cancelled
    brokerClosed,   \* broker.Shutdown has closed the broker
    workers         \* the queue's goroutines are running

brokerVars == <<registered, depth, stored, lastToken>>
subVars == <<stopSubscribe, subscriber, delivery, deliveries, sessions>>
processVars == <<ctxDone, brokerClosed, workers>>
handlerVars == <<handler, reply, encErr, subVars, brokerVars>>

\* The response to request q.
Response(q, ok, s) ==
    [ok |-> ok, re |-> q.type, no |-> q.no, tok |-> 0, session |-> s]

NoReply == Response(Request("subscribe", 0, 0), FALSE, 0)

HandlerInit ==
    /\ handler = [c \in Conns |-> "none"]
    /\ reply = [c \in Conns |-> NoReply]
    /\ encErr = [c \in Conns |-> FALSE]
    /\ stopSubscribe = [c \in Conns |-> "nil"]
    /\ subscriber = [c \in Conns |-> "none"]
    /\ delivery = [c \in Conns |-> 0]
    /\ deliveries = [c \in Conns |-> <<>>]
    /\ sessions = [c \in Conns |-> 0]
    /\ registered = {}
    /\ depth = Recovered
    /\ stored = {}
    /\ lastToken = 0

Goto(c, l) == handler' = [handler EXCEPT ![c] = l]

\* The handler goes on to l with a response to q at hand.
Prepare(c, q, ok, l) ==
    /\ Goto(c, l)
    /\ reply' = [reply EXCEPT ![c] = Response(q, ok, sessions[c])]

Respond(c, q, ok) == Prepare(c, q, ok, "reply")

\* A call of the broker returns, and the response at hand is encoded.
Complete(c, ok) ==
    /\ Goto(c, "reply")
    /\ reply' = [reply EXCEPT ![c].ok = ok]

-----------------------------------------------------------------------------
(* The loop. *)

\* The select at the top of the loop: return once the context is done.
LoopTop(c) ==
    /\ handler[c] = "top"
    /\ Goto(c, IF ctxDone THEN "exit" ELSE "decode")
    /\ UNCHANGED <<wire, clientVars, reply, encErr, subVars,
                   brokerVars, processVars>>

\* Decode fails: the connection is closed at either end, or what comes next is
\* no request.
DecodeError(c) ==
    /\ handler[c] = "decode"
    /\ \/ "closed" \in {srvEnd[c], cliEnd[c]}
       \/ toServer[c] # <<>> /\ Head(toServer[c]).type = "malformed"
    /\ Goto(c, "exit")
    /\ UNCHANGED <<wire, clientVars, reply, encErr, subVars,
                   brokerVars, processVars>>

\* The handler decodes the next request q, of type t.  The decoder may hold
\* requests that were read before the connection was closed.
Decode(c, q, t) ==
    /\ handler[c] = "decode" /\ q.type = t
    /\ toServer' = [toServer EXCEPT ![c] = Tail(@)]
    /\ UNCHANGED <<srvEnd, cliEnd, toClient, clientVars, encErr, processVars>>

\* A request of another version is answered with an error, and the handler
\* returns.
HandleVersion(c, q) ==
    /\ Decode(c, q, "foreign")
    /\ Prepare(c, q, FALSE, "refuse")
    /\ UNCHANGED <<subVars, brokerVars>>

\* broker.Publish fails before it reaches a queue, or calls runtime.Publish.
HandlePublish(c, q) ==
    /\ Decode(c, q, "publish")
    /\ Respond(c, q, FALSE) \/ Prepare(c, q, FALSE, "publish")
    /\ UNCHANGED <<subVars, brokerVars>>

\* Mutant: the error of the append is dropped.
PublishReturnsOk(c) ==
    /\ handler[c] = "publish"
    /\ depth < Capacity \/ brokerClosed
    /\ Complete(c, TRUE)
    /\ UNCHANGED <<wire, clientVars, encErr, subVars, brokerVars, processVars>>

\* runtime.Publish waits while the queue is full and not closed; then it fails
\* on a closed queue or a failed append to the log, or enqueues the message.
PublishReturns(c) ==
    /\ handler[c] = "publish"
    /\ depth < Capacity \/ brokerClosed
    /\ \/ Complete(c, FALSE) /\ UNCHANGED <<depth, stored>>
       \/ /\ ~brokerClosed
          /\ Complete(c, TRUE)
          /\ depth' = depth + 1
          /\ stored' = stored \cup {<<c, reply[c].no>>}
    /\ UNCHANGED <<wire, clientVars, encErr, subVars, registered,
                   lastToken, processVars>>

\* One call of the broker that changes nothing seen here, and one response.
HandleCall(c, q, t) ==
    /\ Decode(c, q, t)
    /\ \E ok \in BOOLEAN : Respond(c, q, ok)
    /\ UNCHANGED <<subVars, brokerVars>>

HandleMetrics(c, q) == HandleCall(c, q, "metrics")

HandleQueues(c, q) == HandleCall(c, q, "queue")

HandleExchanges(c, q) == HandleCall(c, q, "exchange")

HandleUnknown(c, q) ==
    /\ Decode(c, q, "unknown")
    /\ Respond(c, q, FALSE)
    /\ UNCHANGED <<subVars, brokerVars>>

\* Mutant: every Ack is answered.
HandleAckAnswered(c, q) ==
    /\ Decode(c, q, "ack")
    /\ \E ok \in BOOLEAN : Respond(c, q, ok)
    /\ UNCHANGED <<subVars, brokerVars>>

\* Only a failed Ack is answered.
HandleAck(c, q) ==
    /\ Decode(c, q, "ack")
    /\ Respond(c, q, FALSE) \/ (Goto(c, "top") /\ UNCHANGED reply)
    /\ UNCHANGED <<subVars, brokerVars>>

\* A second Subscribe and a failed one are answered with an error.  One that
\* succeeds is not answered: it registers a session and starts its goroutine.
HandleSubscribe(c, q) ==
    /\ Decode(c, q, "subscribe")
    /\ \/ Respond(c, q, FALSE) /\ UNCHANGED <<subVars, registered>>
       \/ /\ stopSubscribe[c] = "nil" /\ ~brokerClosed
          /\ registered' = registered \cup {c}
          /\ sessions' = [sessions EXCEPT ![c] = @ + 1]
          /\ deliveries' = [deliveries EXCEPT ![c] = <<>>]
          /\ stopSubscribe' = [stopSubscribe EXCEPT ![c] = "open"]
          /\ subscriber' = [subscriber EXCEPT ![c] = "select"]
          /\ Goto(c, "top")
          /\ UNCHANGED <<reply, delivery>>
    /\ UNCHANGED <<depth, stored, lastToken>>

\* Unsubscribe stops the goroutine and waits for it before it answers.
HandleUnsubscribe(c, q) ==
    /\ Decode(c, q, "unsubscribe")
    /\ IF stopSubscribe[c] = "nil"
       THEN Respond(c, q, TRUE) /\ UNCHANGED stopSubscribe
       ELSE /\ stopSubscribe' = [stopSubscribe EXCEPT ![c] = "closed"]
            /\ Prepare(c, q, FALSE, "stopping")
    /\ UNCHANGED <<subscriber, delivery, deliveries, sessions, brokerVars>>

\* Mutant: no subwg.Wait before the answer.
StoppedEarly(c) ==
    /\ handler[c] = "stopping"
    /\ stopSubscribe' = [stopSubscribe EXCEPT ![c] = "nil"]
    /\ Complete(c, TRUE)
    /\ UNCHANGED <<wire, clientVars, encErr, subscriber, delivery, deliveries,
                   sessions, brokerVars, processVars>>

\* The goroutine has ended: the answer.
Stopped(c) ==
    /\ handler[c] = "stopping" /\ subscriber[c] = "none"
    /\ stopSubscribe' = [stopSubscribe EXCEPT ![c] = "nil"]
    /\ Complete(c, TRUE)
    /\ UNCHANGED <<wire, clientVars, encErr, subscriber, delivery,
                   deliveries, sessions, brokerVars, processVars>>

-----------------------------------------------------------------------------
(* encode, and the end of the handler. *)

\* The response r reaches the connection.
EncodeOk(c, r) ==
    /\ srvEnd[c] = "open" /\ ~encErr[c]
    /\ toClient' = [toClient EXCEPT ![c] = Append(@, r)]
    /\ UNCHANGED encErr

\* encode fails: the connection is closed, the write deadline passes, or the
\* encoder has failed before.
EncodeFails(c) ==
    /\ \/ "closed" \in {srvEnd[c], cliEnd[c]}
       \/ encErr[c]
       \/ "stall" \in Interruptions
    /\ encErr' = [encErr EXCEPT ![c] = TRUE]
    /\ UNCHANGED toClient

Encode(c) ==
    /\ \/ /\ handler[c] \in {"reply", "refuse"} /\ EncodeOk(c, reply[c])
          /\ Goto(c, IF handler[c] = "refuse" THEN "exit" ELSE "top")
       \/ /\ handler[c] \in {"reply", "refuse"} /\ EncodeFails(c)
          /\ Goto(c, "exit")
    /\ reply' = [reply EXCEPT ![c] = NoReply]
    /\ UNCHANGED <<srvEnd, cliEnd, toServer, clientVars,
                   subVars, brokerVars, processVars>>

\* Mutant: the deferred function waits for the goroutine without stopping it.
StopNobody(c) ==
    /\ handler[c] = "exit"
    /\ Goto(c, "exiting")
    /\ UNCHANGED <<wire, clientVars, reply, encErr, subVars, brokerVars,
                   processVars>>

\* The deferred function that stops the subscription goroutine.
StopSubscriber(c) ==
    /\ handler[c] = "exit"
    /\ Goto(c, "exiting")
    /\ stopSubscribe' =
           [stopSubscribe EXCEPT ![c] = IF @ = "nil" THEN "nil" ELSE "closed"]
    /\ UNCHANGED <<wire, clientVars, reply, encErr, subscriber,
                   delivery, deliveries, sessions, brokerVars, processVars>>

\* Mutant: no subwg.Wait before the connection is closed.
CloseConnEarly(c) ==
    /\ handler[c] = "exiting"
    /\ srvEnd' = [srvEnd EXCEPT ![c] = "closed"]
    /\ Goto(c, "returned")
    /\ UNCHANGED <<cliEnd, toServer, toClient, clientVars, reply, encErr,
                   subVars, brokerVars, processVars>>

\* The goroutine has ended: the deferred conn.Close.
CloseConn(c) ==
    /\ handler[c] = "exiting" /\ subscriber[c] = "none"
    /\ srvEnd' = [srvEnd EXCEPT ![c] = "closed"]
    /\ Goto(c, "returned")
    /\ UNCHANGED <<cliEnd, toServer, toClient, clientVars, reply,
                   encErr, subVars, brokerVars, processVars>>

-----------------------------------------------------------------------------
(* The subscription goroutine, and the queue's distributor. *)

TakeDelivery(c) ==
    /\ subscriber[c] = "select" /\ deliveries[c] # <<>>
    /\ delivery' = [delivery EXCEPT ![c] = Head(deliveries[c])]
    /\ deliveries' = [deliveries EXCEPT ![c] = Tail(@)]
    /\ subscriber' = [subscriber EXCEPT ![c] = "encode"]
    /\ UNCHANGED <<wire, clientVars, handler, reply, encErr,
                   stopSubscribe, sessions, brokerVars, processVars>>

Deliver(c) ==
    /\ subscriber[c] = "encode"
    /\ \/ /\ EncodeOk(c, [ok |-> TRUE, re |-> "delivery", no |-> 0,
                          tok |-> delivery[c], session |-> sessions[c]])
          /\ subscriber' = [subscriber EXCEPT ![c] = "select"]
       \/ /\ EncodeFails(c)
          /\ subscriber' = [subscriber EXCEPT ![c] = "leave"]
    /\ delivery' = [delivery EXCEPT ![c] = 0]
    /\ UNCHANGED <<srvEnd, cliEnd, toServer, clientVars, handler,
                   reply, stopSubscribe, deliveries, sessions,
                   brokerVars, processVars>>

SeeStop(c) ==
    /\ subscriber[c] = "select" /\ stopSubscribe[c] = "closed"
    /\ subscriber' = [subscriber EXCEPT ![c] = "leave"]
    /\ UNCHANGED <<wire, clientVars, handler, reply, encErr,
                   stopSubscribe, delivery, deliveries, sessions, brokerVars,
                   processVars>>

\* broker.Unsubscribe, and the goroutine ends.  A closed broker has dropped
\* the session itself.
Leave(c) ==
    /\ subscriber[c] = "leave"
    /\ registered' = registered \ {c}
    /\ subscriber' = [subscriber EXCEPT ![c] = "none"]
    /\ UNCHANGED <<wire, clientVars, handler, reply, encErr,
                   stopSubscribe, delivery, deliveries, sessions, depth,
                   stored, lastToken, processVars>>

\* The distributor reserves a message and sends it to a session.  QueueRuntime
\* has the steps in between and the ways to fail, which the handler cannot see.
Distribute(c) ==
    /\ workers /\ c \in registered /\ depth > 0 /\ lastToken < MaxDeliveries
    /\ depth' = depth - 1
    /\ lastToken' = lastToken + 1
    /\ deliveries' = [deliveries EXCEPT ![c] = Append(@, lastToken + 1)]
    /\ UNCHANGED <<wire, clientVars, handler, reply, encErr,
                   stopSubscribe, subscriber, delivery, sessions, registered,
                   stored, processVars>>

-----------------------------------------------------------------------------
HandleRequest(c) ==
    /\ toServer[c] # <<>>
    /\ LET q == Head(toServer[c])
       IN  \/ HandleVersion(c, q) \/ HandlePublish(c, q)
           \/ HandleMetrics(c, q) \/ HandleQueues(c, q)
           \/ HandleExchanges(c, q) \/ HandleUnknown(c, q)
           \/ HandleAck(c, q) \/ HandleSubscribe(c, q)
           \/ HandleUnsubscribe(c, q)

HandlerStep(c) ==
    \/ LoopTop(c) \/ DecodeError(c) \/ HandleRequest(c) \/ PublishReturns(c)
    \/ Stopped(c) \/ Encode(c) \/ StopSubscriber(c) \/ CloseConn(c)

SubscriberStep(c) == TakeDelivery(c) \/ Deliver(c) \/ SeeStop(c) \/ Leave(c)

HandlerNext ==
    \/ ClientNext /\ UNCHANGED <<handlerVars, processVars>>
    \/ \E c \in Conns : HandlerStep(c) \/ SubscriberStep(c) \/ Distribute(c)

HandlerTypeOK ==
    /\ handler \in [Conns -> {"none", "top", "decode", "publish", "stopping",
                              "reply", "refuse", "exit", "exiting",
                              "returned", "done"}]
    /\ reply \in [Conns -> Responses]
    /\ encErr \in [Conns -> BOOLEAN]
    /\ stopSubscribe \in [Conns -> {"nil", "open", "closed"}]
    /\ subscriber \in [Conns -> {"none", "select", "encode", "leave"}]
    /\ delivery \in [Conns -> Nat]
    /\ deliveries \in [Conns -> Seq(Nat)]
    /\ sessions \in [Conns -> Nat]
    /\ registered \subseteq Conns
    /\ depth \in 0 .. Capacity
    /\ stored \subseteq Conns \X Nat
    /\ lastToken \in 0 .. MaxDeliveries
    /\ ctxDone \in BOOLEAN /\ brokerClosed \in BOOLEAN /\ workers \in BOOLEAN

-----------------------------------------------------------------------------
(***************************************************************************)
(* A producer call that returns a response returns the response to its own *)
(* request, whatever timed out before: a late response is never read as    *)
(* the answer to a later call (do, handleConnection).                      *)
(***************************************************************************)
PairedResponses ==
    \A p \in Producers : \A n \in DOMAIN outcome[p] :
        outcome[p][n].no # 0 => outcome[p][n].no = n

(***************************************************************************)
(* A Publish that returned nil has put its own message in a queue: no      *)
(* timeout, late answer or failed append makes the producer believe so     *)
(* wrongly (do, handleConnection, broker.Publish).                         *)
(***************************************************************************)
OkIsStored ==
    \A p \in Producers : \A n \in DOMAIN outcome[p] :
        outcome[p][n].result = "ok" /\ outcome[p][n].re = "publish"
            => <<p, n>> \in stored

(***************************************************************************)
(* After the answer to Unsubscribe no delivery of the old session follows  *)
(* on the connection, even when the goroutine held one: the handler waits  *)
(* for the goroutine before it answers.                                    *)
(***************************************************************************)
QuietAfterUnsubscribe ==
    \A c \in Consumers : \A i, j \in DOMAIN toClient[c] :
        /\ i < j /\ toClient[c][i].re = "unsubscribe"
        /\ toClient[c][j].re = "delivery"
        => toClient[c][i].session < toClient[c][j].session

(***************************************************************************)
(* A registered session has a goroutine that drains its channel, and that  *)
(* goroutine never outlives its handler: the queue does not hand messages  *)
(* to a connection nobody writes to, and nobody writes to a connection     *)
(* after the handler has closed it.  A handler that takes its client for   *)
(* subscribed is wrong only after a write has failed.                      *)
(***************************************************************************)
SessionsServed ==
    \A c \in Conns :
        /\ c \in registered => subscriber[c] # "none"
        /\ stopSubscribe[c] = "open" /\ subscriber[c] = "none" => encErr[c]
        /\ subscriber[c] # "none" =>
               handler[c] \notin {"none", "returned", "done"}

(***************************************************************************)
(* What Receive returns on a connection is the deliveries of that          *)
(* connection in order, each once, and one empty message for each          *)
(* Unsubscribe the broker answered before.                                 *)
(***************************************************************************)
ReceivedInOrder ==
    \A c \in Consumers : \A i \in DOMAIN received[c] :
        LET r == received[c][i]
        IN  /\ r.re \in {"delivery", "unsubscribe"}
            /\ \A j \in 1 .. i - 1 :
                   received[c][j].re = r.re =>
                       IF r.re = "delivery" THEN received[c][j].tok < r.tok
                                            ELSE received[c][j].no < r.no
=============================================================================
