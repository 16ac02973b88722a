------------------------------- MODULE Server -------------------------------
(***************************************************************************)
(* The process (cmd/dsend/server.go, internal/server/tcp.go): runServer    *)
(* starts the broker and the TCP server, the server accepts connections    *)
(* and tracks them, a goroutine closes the listener and the tracked        *)
(* connections when a signal cancels the context, and runServer shuts the  *)
(* broker down and closes the log once every handler has returned.         *)
(*                                                                         *)
(* It composes the clients and the handlers of Client and Handler.         *)
(***************************************************************************)
EXTENDS Handler

CONSTANTS
    NoConn,     \* no connection
    MaxDials,   \* the number of clients that connect
    MaySignal   \* whether the process may be told to stop

ASSUME ServerAssumption ==
    NoConn \notin Conns /\ MaxDials \in Nat /\ MaySignal \in BOOLEAN

VARIABLES
    main,       \* runServer and Server.Start
    conn,       \* the connection the accept loop holds, or NoConn
    listener,   \* the listening socket is open
    conns,      \* the tracked connections
    closer,     \* the goroutine of Start: "waiting", "closing" or "done"
    wal         \* the log is open

serverVars == <<main, conn, listener, conns, closer, wal>>

vars == <<wire, clientVars, handlerVars, processVars, serverVars>>

\* runServer has opened the log and built the broker.
Init ==
    /\ ClientInit /\ HandlerInit
    /\ ctxDone = FALSE /\ brokerClosed = FALSE /\ workers = FALSE
    /\ main = "start" /\ conn = NoConn /\ listener = FALSE /\ conns = {}
    /\ closer = "none" /\ wal = TRUE

-----------------------------------------------------------------------------
(* runServer. *)

\* broker.Start starts the queue's goroutines.
StartBroker ==
    /\ main = "start"
    /\ main' = "listen"
    /\ workers' = TRUE
    /\ UNCHANGED <<wire, clientVars, handlerVars, ctxDone, brokerClosed, conn,
                   listener, conns, closer, wal>>

\* net.Listen fails and runServer returns, without broker.Shutdown.
ListenFails ==
    /\ main = "listen"
    /\ main' = "return"
    /\ UNCHANGED <<wire, clientVars, handlerVars, processVars, conn, listener,
                   conns, closer, wal>>

Listen ==
    /\ main = "listen"
    /\ main' = "accept"
    /\ listener' = TRUE
    /\ closer' = "waiting"
    /\ UNCHANGED <<wire, clientVars, handlerVars, processVars, conn, conns, wal>>

\* Mutant: Start does not wait for the handlers.
ShutdownBrokerEarly ==
    /\ main = "wait"
    /\ main' = "shutdown"
    /\ brokerClosed' = TRUE
    /\ registered' = {}
    /\ UNCHANGED <<wire, clientVars, handler, reply, encErr, subVars, depth,
                   stored, lastToken, ctxDone, workers, conn, listener, conns,
                   closer, wal>>

\* Every handler has returned: broker.Shutdown closes the broker, which wakes
\* the publishers and drops the sessions.
ShutdownBroker ==
    /\ main = "wait"
    /\ \A c \in Conns : handler[c] \in {"none", "done"}
    /\ main' = "shutdown"
    /\ brokerClosed' = TRUE
    /\ registered' = {}
    /\ UNCHANGED <<wire, clientVars, handler, reply, encErr, subVars,
                   depth, stored, lastToken, ctxDone, workers, conn, listener,
                   conns, closer, wal>>

\* It has waited for the queue's goroutines.
BrokerStopped ==
    /\ main = "shutdown" /\ ~workers
    /\ main' = "return"
    /\ UNCHANGED <<wire, clientVars, handlerVars, processVars, conn, listener,
                   conns, closer, wal>>

\* The deferred wal.Close, and the process ends.
CloseWal ==
    /\ main = "return"
    /\ main' = "exited"
    /\ wal' = FALSE
    /\ UNCHANGED <<wire, clientVars, handlerVars, processVars, conn, listener,
                   conns, closer>>

\* The queue's goroutines return once their context is done: it derives from
\* the context of the process.
WorkersEnd ==
    /\ workers /\ (ctxDone \/ brokerClosed)
    /\ workers' = FALSE
    /\ UNCHANGED <<wire, clientVars, handlerVars, ctxDone, brokerClosed,
                   serverVars>>

\* SIGINT or SIGTERM.
Signal ==
    /\ MaySignal /\ ~ctxDone
    /\ ctxDone' = TRUE
    /\ UNCHANGED <<wire, clientVars, handlerVars, brokerClosed, workers,
                   serverVars>>

-----------------------------------------------------------------------------
(* Server.Start. *)

\* A client connects.
Dial(c) ==
    /\ listener /\ cliEnd[c] = "none"
    /\ Cardinality({d \in Conns : cliEnd[d] # "none"}) < MaxDials
    /\ cliEnd' = [cliEnd EXCEPT ![c] = "open"]
    /\ srvEnd' = [srvEnd EXCEPT ![c] = "backlog"]
    /\ UNCHANGED <<toServer, toClient, clientVars, handlerVars, processVars,
                   serverVars>>

Accept(c) ==
    /\ main = "accept" /\ listener /\ srvEnd[c] = "backlog"
    /\ main' = "track"
    /\ conn' = c
    /\ srvEnd' = [srvEnd EXCEPT ![c] = "open"]
    /\ UNCHANGED <<cliEnd, toServer, toClient, clientVars, handlerVars,
                   processVars, listener, conns, closer, wal>>

TrackConn ==
    /\ main = "track"
    /\ main' = "check"
    /\ conns' = conns \cup {conn}
    /\ UNCHANGED <<wire, clientVars, handlerVars, processVars, conn, listener,
                   closer, wal>>

\* Mutant: the context is not looked at after trackConn.
CheckNothing ==
    /\ main = "check"
    /\ main' = "accept"
    /\ conn' = NoConn
    /\ Goto(conn, "top")
    /\ UNCHANGED <<wire, clientVars, reply, encErr, subVars, brokerVars,
                   processVars, listener, conns, closer, wal>>

\* The select after trackConn: drop the connection if the context is done,
\* else start its handler.
CheckContext ==
    /\ main = "check"
    /\ main' = "accept"
    /\ conn' = NoConn
    /\ IF ctxDone
       THEN /\ conns' = conns \ {conn}
            /\ srvEnd' = [srvEnd EXCEPT ![conn] = "closed"]
            /\ UNCHANGED handler
       ELSE Goto(conn, "top") /\ UNCHANGED <<conns, srvEnd>>
    /\ UNCHANGED <<cliEnd, toServer, toClient, clientVars, reply,
                   encErr, subVars, brokerVars, processVars, listener, closer,
                   wal>>

\* Accept fails with net.ErrClosed and Start waits for the handlers.
AcceptClosed ==
    /\ main = "accept" /\ ~listener
    /\ main' = "wait"
    /\ UNCHANGED <<wire, clientVars, handlerVars, processVars, conn, listener,
                   conns, closer, wal>>

\* The goroutine of Start closes the listener, which resets the connections
\* that were not accepted.
CloseListener ==
    /\ closer = "waiting" /\ ctxDone
    /\ closer' = "closing"
    /\ listener' = FALSE
    /\ srvEnd' = [c \in Conns |->
                     IF srvEnd[c] = "backlog" THEN "closed" ELSE srvEnd[c]]
    /\ UNCHANGED <<cliEnd, toServer, toClient, clientVars, handlerVars,
                   processVars, main, conn, conns, wal>>

CloseConns ==
    /\ closer = "closing"
    /\ closer' = "done"
    /\ srvEnd' = [c \in Conns |->
                     IF c \in conns THEN "closed" ELSE srvEnd[c]]
    /\ UNCHANGED <<cliEnd, toServer, toClient, clientVars, handlerVars,
                   processVars, main, conn, listener, conns, wal>>

\* The deferred untrackConn and wg.Done of the goroutine of a handler.
HandlerDone(c) ==
    /\ handler[c] = "returned"
    /\ Goto(c, "done")
    /\ conns' = conns \ {c}
    /\ UNCHANGED <<wire, clientVars, reply, encErr, subVars,
                   brokerVars, processVars, main, conn, listener, closer, wal>>

-----------------------------------------------------------------------------
MainStep ==
    \/ StartBroker \/ ListenFails \/ Listen
    \/ \E c \in Conns : Accept(c)
    \/ TrackConn \/ CheckContext \/ AcceptClosed
    \/ ShutdownBroker \/ BrokerStopped \/ CloseWal

CloserStep == CloseListener \/ CloseConns

\* Once the process has exited nothing of it runs.
Next ==
    \/ main # "exited" /\ HandlerNext /\ UNCHANGED serverVars
    \/ main # "exited" /\ WorkersEnd
    \/ MainStep \/ CloserStep \/ Signal
    \/ \E c \in Conns : Dial(c) \/ HandlerDone(c)

Spec == Init /\ [][Next]_vars

\* Every goroutine of the process runs when it can: the Go scheduler is fair,
\* and a write ends at its deadline.  Nothing is assumed of the clients, the
\* signal or the distributor.
Fairness ==
    /\ WF_vars(MainStep) /\ WF_vars(CloserStep)
    /\ WF_vars(main # "exited" /\ WorkersEnd)
    /\ \A c \in Conns :
           /\ WF_vars(\/ main # "exited" /\ HandlerStep(c) /\ UNCHANGED serverVars
                      \/ HandlerDone(c))
           /\ WF_vars(main # "exited" /\ SubscriberStep(c)
                                      /\ UNCHANGED serverVars)

FairSpec == Spec /\ Fairness

-----------------------------------------------------------------------------
\* Every variable holds a value of its kind: the queue never holds more than
\* its capacity, and the accept loop holds a connection exactly between Accept
\* and the look at the context.
TypeOK ==
    /\ ClientTypeOK /\ HandlerTypeOK
    /\ main \in {"start", "listen", "accept", "track", "check", "wait",
                 "shutdown", "return", "exited"}
    /\ conn \in Conns \cup {NoConn}
    /\ conn # NoConn <=> main \in {"track", "check"}
    /\ listener \in BOOLEAN /\ wal \in BOOLEAN
    /\ conns \subseteq Conns
    /\ closer \in {"none", "waiting", "closing", "done"}

(***************************************************************************)
(* Once the goroutine of Start has closed the tracked connections, no      *)
(* handler is left on an open one: a connection accepted while the context *)
(* is cancelled was either closed with the others or dropped by the accept *)
(* loop.  A handler on an open connection would keep Start waiting for     *)
(* that client.                                                            *)
(***************************************************************************)
NoConnectionLeft ==
    closer = "done" =>
        \A c \in Conns : handler[c] # "none" => srvEnd[c] = "closed"

(***************************************************************************)
(* The log is closed last: when it is closed after the server has run, no  *)
(* handler and no goroutine of the queue is left that could append to it.  *)
(***************************************************************************)
LogClosedLast ==
    ~wal /\ closer # "none" =>
        ~workers /\ \A c \in Conns : handler[c] \in {"none", "done"}

(***************************************************************************)
(* A signal ends the process, unless some handler waits for ever for room  *)
(* in a full queue.                                                        *)
(***************************************************************************)
ShutdownEnds ==
    <>ctxDone => \/ <>(main = "exited")
                 \/ <>[](\E c \in Conns : handler[c] = "publish")

(***************************************************************************)
(* Closing a consumer, or cancelling its Receive, takes its session out of *)
(* the queue's rotation for good, even when a Subscribe is still on its    *)
(* way to the handler.                                                     *)
(***************************************************************************)
ClosedIsUnregistered ==
    \A c \in Consumers : cliEnd[c] = "closed" ~> [](c \notin registered)
=============================================================================
