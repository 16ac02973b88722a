------------------------------- MODULE Client -------------------------------
(***************************************************************************)
(* The client library (client/base.go, producer.go, consumer.go) and the   *)
(* TCP connection under it.  A client object owns one connection, so the   *)
(* two are identified.                                                     *)
(*                                                                         *)
(* A Producer sends a request and waits for the next response with a       *)
(* deadline (do).  Its json.Decoder keeps a read error: after one timeout  *)
(* no later Decode of that Producer reads anything.  A Consumer sends      *)
(* Subscribe, Ack and Unsubscribe without waiting for an answer; whatever  *)
(* the broker writes is read by Receive.  Receive starts a goroutine that  *)
(* closes the connection when the context is cancelled; that goroutine may *)
(* still be running after Receive has returned.                            *)
(*                                                                         *)
(* Requests carry the number of the call that sent them and responses the  *)
(* request they answer.  Neither is on the wire: the properties need them. *)
(***************************************************************************)
EXTENDS Integers, Sequences, FiniteSets

CONSTANTS
    Producers,      \* the connections of Producer objects
    Consumers,      \* the connections of Consumer objects
    ProducerTypes,  \* the request types a Producer sends
    MaxCalls,       \* the number of requests one client sends
    Interruptions   \* which of "timeout" (a Producer's read deadline passes),
                    \* "stall" (a client stops reading and the broker's write
                    \* deadline passes), "cancel" (of a Consumer's context) and
                    \* "close" (of a client) happen

Conns == Producers \cup Consumers

\* "queue" and "exchange" stand for the requests about queues, and about
\* exchanges and bindings; "foreign" is a request of another protocol version,
\* "unknown" one of a type this broker does not have, and "malformed" JSON that
\* is no protocol.Request.
ASSUME ClientAssumption ==
    /\ Producers \cap Consumers = {}
    /\ ProducerTypes \subseteq {"publish", "metrics", "queue", "exchange",
                             "foreign", "unknown", "malformed"}
    /\ MaxCalls \in Nat
    /\ Interruptions \subseteq {"timeout", "stall", "cancel", "close"}

VARIABLES
    srvEnd,     \* the broker's end: "none", "backlog", "open" or "closed"
    cliEnd,     \* the client's end: "none", "open" or "closed"
    toServer,   \* the requests in the connection
    toClient,   \* the responses in the connection
    phase,      \* "idle", or "waiting" in do or in Receive
    calls,      \* the number of requests the client has sent
    broken,     \* the decoder has kept a read error
    outcome,    \* of a Producer: what each call returned
    received,   \* of a Consumer: what Receive returned
    cancelled,  \* of a Consumer: the context of its Receive loop is done
    watcher     \* of a Consumer: a goroutine of Receive has not ended

wire == <<srvEnd, cliEnd, toServer, toClient>>
clientVars == <<phase, calls, broken, outcome, received, cancelled, watcher>>

Request(t, n, k) == [type |-> t, no |-> n, tok |-> k]

RequestTypes == ProducerTypes \cup {"subscribe", "ack", "unsubscribe"}

Requests == [type : RequestTypes, no : Nat, tok : Nat]

\* re is the type of the request answered, or "delivery"; session numbers the
\* subscriptions of the connection.
Responses ==
    [ok : BOOLEAN, re : RequestTypes \cup {"delivery"}, no : Nat,
     tok : Nat, session : Nat]

Outcome(r, t, n) == [result |-> r, re |-> t, no |-> n]

Outcomes ==
    [result : {"ok", "error", "timeout"},
     re : RequestTypes \cup {"delivery", "none"}, no : Nat]

ClientInit ==
    /\ srvEnd = [c \in Conns |-> "none"]
    /\ cliEnd = [c \in Conns |-> "none"]
    /\ toServer = [c \in Conns |-> <<>>]
    /\ toClient = [c \in Conns |-> <<>>]
    /\ phase = [c \in Conns |-> "idle"]
    /\ calls = [c \in Conns |-> 0]
    /\ broken = [c \in Conns |-> FALSE]
    /\ outcome = [p \in Producers |-> <<>>]
    /\ received = [c \in Consumers |-> <<>>]
    /\ cancelled = [c \in Consumers |-> FALSE]
    /\ watcher = [c \in Consumers |-> FALSE]

-----------------------------------------------------------------------------
(* The Producer. *)

\* The call in progress returns r; it was given the response to request n of
\* type t, or none.
Return(p, r, t, n) ==
    outcome' = [outcome EXCEPT ![p] = Append(@, Outcome(r, t, n))]

\* do: encode the request, then decode the response, which fails at once when
\* the decoder has kept an error.  Encode fails on a closed connection; it may
\* also succeed there, and the request is lost.
Call(p, t) ==
    /\ t \in ProducerTypes
    /\ phase[p] = "idle" /\ cliEnd[p] # "none" /\ calls[p] < MaxCalls
    /\ calls' = [calls EXCEPT ![p] = @ + 1]
    /\ \/ /\ "closed" \in {srvEnd[p], cliEnd[p]}
          /\ Return(p, "error", "none", 0)
          /\ UNCHANGED <<toServer, phase>>
       \/ /\ cliEnd[p] = "open"
          /\ toServer' = [toServer EXCEPT
                             ![p] = Append(@, Request(t, calls[p] + 1, 0))]
          /\ IF broken[p]
             THEN Return(p, "error", "none", 0) /\ UNCHANGED phase
             ELSE phase' = [phase EXCEPT ![p] = "waiting"] /\ UNCHANGED outcome
    /\ UNCHANGED <<srvEnd, cliEnd, toClient, broken, received, cancelled, watcher>>

\* The methods of Producer, by the type of their request.
Publish(p) == Call(p, "publish")

GetMetrics(p) == Call(p, "metrics")

ManageQueues(p) == Call(p, "queue")

ManageExchanges(p) == Call(p, "exchange")

\* A Producer of another release.
CallOther(p) == Call(p, "foreign") \/ Call(p, "unknown") \/ Call(p, "malformed")

\* do decodes a response, and the method returns its error or its result.
\* The decoder may hold responses that were read before the connection closed.
Answered(p) ==
    /\ phase[p] = "waiting" /\ toClient[p] # <<>>
    /\ toClient' = [toClient EXCEPT ![p] = Tail(@)]
    /\ phase' = [phase EXCEPT ![p] = "idle"]
    /\ LET r == Head(toClient[p])
       IN  Return(p, IF r.ok THEN "ok" ELSE "error", r.re, r.no)
    /\ UNCHANGED <<srvEnd, cliEnd, toServer, calls, broken, received,
                   cancelled, watcher>>

\* Mutant: a decoder per call, which does not keep the error.
DecodeFailsFresh(p, r) ==
    /\ phase[p] = "waiting"
    /\ IF r = "timeout" THEN r \in Interruptions
                        ELSE "closed" \in {srvEnd[p], cliEnd[p]}
    /\ phase' = [phase EXCEPT ![p] = "idle"]
    /\ Return(p, r, "none", 0)
    /\ UNCHANGED <<wire, calls, broken, received, cancelled, watcher>>

\* The read deadline passes, or the connection is closed at either end: the
\* method returns the error (or that of its context) and the decoder keeps it.
DecodeFails(p, r) ==
    /\ phase[p] = "waiting"
    /\ IF r = "timeout" THEN r \in Interruptions
                        ELSE "closed" \in {srvEnd[p], cliEnd[p]}
    /\ phase' = [phase EXCEPT ![p] = "idle"]
    /\ broken' = [broken EXCEPT ![p] = TRUE]
    /\ Return(p, r, "none", 0)
    /\ UNCHANGED <<wire, calls, received, cancelled, watcher>>

-----------------------------------------------------------------------------
(* The Consumer. *)

\* Subscribe, Ack and Unsubscribe only encode a request.
Send(c, t, k) ==
    /\ cliEnd[c] # "none" /\ calls[c] < MaxCalls
    /\ calls' = [calls EXCEPT ![c] = @ + 1]
    /\ \/ "closed" \in {srvEnd[c], cliEnd[c]} /\ UNCHANGED toServer
       \/ /\ cliEnd[c] = "open"
          /\ toServer' = [toServer EXCEPT
                             ![c] = Append(@, Request(t, calls[c] + 1, k))]
    /\ UNCHANGED <<srvEnd, cliEnd, toClient, phase, broken, outcome, received,
                   cancelled, watcher>>

Subscribe(c) == Send(c, "subscribe", 0)

Unsubscribe(c) == Send(c, "unsubscribe", 0)

Ack(c) ==
    \E i \in DOMAIN received[c] :
        received[c][i].re = "delivery" /\ Send(c, "ack", received[c][i].tok)

\* Receive begins, unless its context is done: it starts the goroutine that
\* watches the context and decodes.
Receive(c) ==
    /\ phase[c] = "idle" /\ cliEnd[c] # "none" /\ ~cancelled[c]
    /\ phase' = [phase EXCEPT ![c] = "waiting"]
    /\ watcher' = [watcher EXCEPT ![c] = TRUE]
    /\ UNCHANGED <<wire, calls, broken, outcome, received, cancelled>>

\* Receive returns whatever response comes next: an error if it reports one,
\* else its message and token, which are empty in the answer to Unsubscribe.
ReceiveReturns(c) ==
    /\ phase[c] = "waiting" /\ ~broken[c] /\ toClient[c] # <<>>
    /\ toClient' = [toClient EXCEPT ![c] = Tail(@)]
    /\ phase' = [phase EXCEPT ![c] = "idle"]
    /\ LET r == Head(toClient[c])
       IN  IF r.ok
           THEN received' = [received EXCEPT ![c] = Append(@, r)]
           ELSE UNCHANGED received
    /\ UNCHANGED <<srvEnd, cliEnd, toServer, calls, broken, outcome, cancelled,
                   watcher>>

\* There is no read deadline: Decode fails on a closed connection, or at once
\* when it has failed before.
ReceiveFails(c) ==
    /\ phase[c] = "waiting"
    /\ broken[c] \/ "closed" \in {srvEnd[c], cliEnd[c]}
    /\ phase' = [phase EXCEPT ![c] = "idle"]
    /\ broken' = [broken EXCEPT ![c] = TRUE]
    /\ UNCHANGED <<wire, calls, outcome, received, cancelled, watcher>>

\* The context is done.
Cancel(c) ==
    /\ ~cancelled[c] /\ "cancel" \in Interruptions
    /\ cancelled' = [cancelled EXCEPT ![c] = TRUE]
    /\ UNCHANGED <<wire, phase, calls, broken, outcome, received, watcher>>

\* The goroutine ends: its select takes either ready case, so it may close the
\* connection of a Receive that has already returned a message.
WatcherEnds(c) ==
    /\ watcher[c]
    /\ \/ cancelled[c] /\ cliEnd' = [cliEnd EXCEPT ![c] = "closed"]
       \/ phase[c] = "idle" /\ UNCHANGED cliEnd
    /\ watcher' = [watcher EXCEPT ![c] = FALSE]
    /\ UNCHANGED <<srvEnd, toServer, toClient, phase, calls, broken, outcome,
                   received, cancelled>>

\* The application closes its client.
Close(c) ==
    /\ cliEnd[c] = "open" /\ "close" \in Interruptions
    /\ cliEnd' = [cliEnd EXCEPT ![c] = "closed"]
    /\ UNCHANGED <<srvEnd, toServer, toClient, clientVars>>

-----------------------------------------------------------------------------
ProducerStep(p) ==
    \/ Publish(p) \/ GetMetrics(p) \/ ManageQueues(p) \/ ManageExchanges(p)
    \/ CallOther(p)
    \/ Answered(p)
    \/ \E r \in {"timeout", "error"} : DecodeFails(p, r)

ConsumerStep(c) ==
    \/ Subscribe(c) \/ Unsubscribe(c) \/ Ack(c)
    \/ Receive(c) \/ ReceiveReturns(c) \/ ReceiveFails(c)
    \/ Cancel(c) \/ WatcherEnds(c)

ClientNext ==
    \/ \E p \in Producers : ProducerStep(p)
    \/ \E c \in Consumers : ConsumerStep(c)
    \/ \E c \in Conns : Close(c)

ClientTypeOK ==
    /\ srvEnd \in [Conns -> {"none", "backlog", "open", "closed"}]
    /\ cliEnd \in [Conns -> {"none", "open", "closed"}]
    /\ toServer \in [Conns -> Seq(Requests)]
    /\ toClient \in [Conns -> Seq(Responses)]
    /\ phase \in [Conns -> {"idle", "waiting"}]
    /\ calls \in [Conns -> 0 .. MaxCalls]
    /\ broken \in [Conns -> BOOLEAN]
    /\ outcome \in [Producers -> Seq(Outcomes)]
    /\ received \in [Consumers -> Seq(Responses)]
    /\ cancelled \in [Consumers -> BOOLEAN]
    /\ watcher \in [Consumers -> BOOLEAN]
=============================================================================
