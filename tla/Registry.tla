------------------------------ MODULE Registry ------------------------------
(***************************************************************************)
(* The broker's registry: the queues, exchanges and bindings of            *)
(* engine/mem_broker.go, the records it writes about them, what Load makes *)
(* of those records (storage/wal.go), and NewBroker, which rebuilds the    *)
(* registry from them after a restart.                                     *)
(*                                                                         *)
(* A method that holds b.mu and appends one record is one action.          *)
(* DeleteQueue and NewBroker append several, and a crash or a failed       *)
(* append can fall between any two, so they are a step per record.         *)
(* Publish takes b.mu to route and again before each queue, and is a step  *)
(* per critical section.                                                   *)
(*                                                                         *)
(* The log is the state that Load makes of its whole records, and whether  *)
(* it also holds a torn one, on which Load fails.  A queue is the set of   *)
(* messages that it holds; what happens to them inside is QueueRuntime's   *)
(* business, and a full queue is not considered here.  A message is stored *)
(* once per binding that it is routed by: a copy is [msg, key].            *)
(***************************************************************************)
EXTENDS Exchange, FiniteSets

CONSTANTS
  Queues, DefaultQueue, NoQueue,
  Exchanges, DefaultExchange,
  Keys, DefaultKey,      \* binding keys that have passed validateBindingKey
  Msgs,                  \* Publish calls
  RoutingKeys,
  Kinds,                 \* exchange types that clients ask for
  \* Scenario bounds.
  Deletable,             \* queues that clients delete
  Bindable,              \* exchanges that clients bind to
  MaxFaults, MaxCrashes

ASSUME NameAssumption ==
  /\ DefaultQueue \in Queues /\ NoQueue \notin Queues
  /\ DefaultExchange \in Exchanges /\ DefaultKey \in Keys /\ NoKey \notin Keys
  /\ Kinds \subseteq Types /\ Deletable \subseteq Queues /\ Bindable \subseteq Exchanges
  /\ MaxFaults \in Nat /\ MaxCrashes \in Nat

VARIABLES
  queues,                \* b.queues: "none", or a runtime "open" or "closed"
  pending,               \* the copies each runtime holds
  exchanges, bindings,   \* b.exchanges: the type, or "none"; the binding lists
  closed,                \* b.closed
  deleting, unbinding,   \* DeleteQueue in progress: its queue, exchanges to go
  boot, plan, at, rest,  \* NewBroker: phase; exchanges to go; the one at hand
                         \* and the bindings of it that are to go
  pub,                   \* the Publish calls
  disk, torn,            \* RecoveredState; whether a record is cut off
  faults, crashes,
  stored, consumed, bound, cutShort      \* history, read by no action

memory == <<queues, pending, exchanges, bindings, closed>>
booting == <<boot, plan, at, rest>>
deletion == <<deleting, unbinding>>
log == <<disk, torn, faults>>
hist == <<stored, consumed, bound, cutShort>>
vars == <<memory, booting, deletion, pub, log, crashes, hist>>

Copies == [msg : Msgs, key : Keys]
Binding == [queue : Queues, key : Keys]

-----------------------------------------------------------------------------
(* The log: what one more record does to the state that Load returns. *)

QueueCreated(q) == [disk EXCEPT !.queues = @ \cup {q}]
QueueDeleted(q) == [disk EXCEPT !.queues = @ \ {q}, !.pending[q] = {}]
Published(q, c) == [disk EXCEPT !.queues = @ \cup {q}, !.pending[q] = @ \cup {c}]
Acknowledged(q, c) == [disk EXCEPT !.queues = @ \cup {q}, !.pending[q] = @ \ {c}]

\* Mutant of ExchangeCreated: bindings of an exchange of that name survive.
ExchangeCreatedKeeps(e, t) == [disk EXCEPT !.exchanges[e] = t]

ExchangeCreated(e, t) == [disk EXCEPT !.exchanges[e] = t, !.bindings[e] = <<>>]
ExchangeDeleted(e) == [disk EXCEPT !.exchanges[e] = "none", !.bindings[e] = <<>>]

\* A binding record for an exchange that Load does not know is skipped.  The
\* default exchange is one: it is never logged as created.
QueueBinded(e, key, q) ==
  IF disk.exchanges[e] = "none" THEN disk
  ELSE [disk EXCEPT !.bindings[e] = Bind(@, key, q)]
QueueUnbinded(e, key, q) ==
  IF disk.exchanges[e] = "none" THEN disk
  ELSE [disk EXCEPT !.bindings[e] = Unbind(@, key, q)]

\* wal.Append: on an error the record, or a part of it, may have reached the disk.
Appended(after, ok) ==
  IF ok THEN disk' = after /\ UNCHANGED <<torn, faults>>
  ELSE /\ faults < MaxFaults /\ faults' = faults + 1
       /\ \/ disk' \in {disk, after} /\ UNCHANGED torn
          \/ torn' = TRUE /\ UNCHANGED disk

\* A failed append has cut the operation op short.
CutShort(op, ok) == cutShort' = IF ok THEN cutShort ELSE cutShort \cup {op}

-----------------------------------------------------------------------------
NoBindings == [e \in Exchanges |-> <<>>]

\* Mutant of OnlyDefault: the default exchange is registered without a type.
OnlyDefaultUntyped == [e \in Exchanges |-> IF e = DefaultExchange THEN "" ELSE "none"]

OnlyDefault == [e \in Exchanges |-> IF e = DefaultExchange THEN "direct" ELSE "none"]
NoExchanges == [e \in Exchanges |-> "none"]
NothingPlanned == [e \in Exchanges |-> [type |-> "none", list |-> <<>>]]

Idle == [pc |-> "idle", todo |-> <<>>, routed |-> <<>>, stale |-> FALSE]

\* A first start on an empty log, before NewBroker has done anything.
Init ==
  /\ queues = [q \in Queues |-> "none"] /\ pending = [q \in Queues |-> {}]
  /\ exchanges = NoExchanges /\ bindings = NoBindings /\ closed = FALSE
  /\ deleting = NoQueue /\ unbinding = {}
  /\ boot = "down" /\ plan = NothingPlanned /\ at = DefaultExchange /\ rest = <<>>
  /\ pub = [m \in Msgs |-> Idle]
  /\ disk = [queues |-> {}, pending |-> [q \in Queues |-> {}],
             exchanges |-> NoExchanges, bindings |-> NoBindings]
  /\ torn = FALSE /\ faults = 0 /\ crashes = 0
  /\ stored = {} /\ consumed = {} /\ bound = {} /\ cutShort = {}

-----------------------------------------------------------------------------
(* NewBroker.  plan, at and rest are what is left of Load's result: the    *)
(* exchanges still to be created, the exchange whose bindings are being    *)
(* restored, and the rest of its list.                                     *)

BootLoad ==
  /\ boot = "down" /\ ~torn
  /\ boot' = "exchanges"
  /\ queues' = [q \in Queues |->
                  IF q \in disk.queues \cup {DefaultQueue} THEN "open" ELSE "none"]
  /\ pending' = disk.pending
  /\ exchanges' = OnlyDefault /\ bindings' = NoBindings /\ closed' = FALSE
  /\ plan' = [e \in Exchanges |-> [type |-> disk.exchanges[e], list |-> disk.bindings[e]]]
  /\ UNCHANGED <<at, rest, deletion, pub, log, crashes, hist>>

\* Load fails on the torn record and NewBroker returns its error.
BootUnreadable ==
  /\ boot = "down" /\ torn
  /\ boot' = "unreadable"
  /\ UNCHANGED <<memory, plan, at, rest, deletion, pub, log, crashes, hist>>

\* CreateExchange for the next exchange; the map is visited in any order.
BootExchange(e, ok) ==
  /\ boot = "exchanges" /\ rest = <<>> /\ plan[e].type # "none"
  /\ Appended(ExchangeCreated(e, plan[e].type), ok)
  /\ IF ok
     THEN /\ exchanges' = [exchanges EXCEPT ![e] = plan[e].type]
          /\ at' = e /\ rest' = plan[e].list
          /\ plan' = [plan EXCEPT ![e] = [type |-> "none", list |-> <<>>]]
          /\ UNCHANGED boot
     ELSE boot' = "failed" /\ UNCHANGED <<exchanges, at, rest, plan>>
  /\ UNCHANGED <<queues, pending, bindings, closed, deletion, pub, crashes, hist>>

\* BindQueue for the next binding of the exchange.
BootBind(ok) ==
  LET b == Head(rest) IN
  /\ boot = "exchanges" /\ rest # <<>>
  /\ queues[b.queue] # "none" /\ ~HasBinding(bindings[at], b.key, b.queue)
  /\ bindings' = [bindings EXCEPT ![at] = Bind(@, b.key, b.queue)]
  /\ Appended(QueueBinded(at, b.key, b.queue), ok)
  /\ rest' = Tail(rest)
  /\ boot' = IF ok THEN boot ELSE "failed"
  /\ UNCHANGED <<queues, pending, exchanges, closed, plan, at, deletion, pub, crashes, hist>>

\* ErrQueueNotFound or ErrBindingAlreadyExist: NewBroker gives up.
BootRefused ==
  LET b == Head(rest) IN
  /\ boot = "exchanges" /\ rest # <<>>
  /\ queues[b.queue] = "none" \/ HasBinding(bindings[at], b.key, b.queue)
  /\ boot' = "refused"
  /\ UNCHANGED <<memory, plan, at, rest, deletion, pub, log, crashes, hist>>

\* Finally the default queue is bound to the default exchange.
BootReady(ok) ==
  /\ boot = "exchanges" /\ rest = <<>> /\ \A e \in Exchanges : plan[e].type = "none"
  /\ bindings' = [bindings EXCEPT ![DefaultExchange] = Bind(@, DefaultKey, DefaultQueue)]
  /\ Appended(QueueBinded(DefaultExchange, DefaultKey, DefaultQueue), ok)
  /\ boot' = IF ok THEN "up" ELSE "failed"
  /\ UNCHANGED <<queues, pending, exchanges, closed, plan, at, rest, deletion, pub,
                 crashes, hist>>

-----------------------------------------------------------------------------
(* Declaring queues, exchanges and bindings.  Requests that are refused    *)
(* (name taken, not found, not empty) change nothing and have no action.   *)

\* b.mu can be taken: the broker is up and no DeleteQueue is in progress.
Free == boot = "up" /\ deleting = NoQueue

CreateQueue(q, ok) ==
  /\ Free /\ ~closed /\ queues[q] = "none"
  /\ Appended(QueueCreated(q), ok)
  /\ queues' = IF ok THEN [queues EXCEPT ![q] = "open"] ELSE queues
  /\ pending' = IF ok THEN [pending EXCEPT ![q] = {}] ELSE pending
  /\ UNCHANGED <<exchanges, bindings, closed, booting, deletion, pub, crashes, hist>>

CreateExchange(e, t, ok) ==
  /\ Free /\ e # DefaultExchange /\ exchanges[e] = "none"
  /\ Appended(ExchangeCreated(e, t), ok)
  /\ exchanges' = IF ok THEN [exchanges EXCEPT ![e] = t] ELSE exchanges
  /\ UNCHANGED <<queues, pending, bindings, closed, booting, deletion, pub, crashes, hist>>

\* Mutant of MayDeleteExchange: the bindings are not looked at.
MayDeleteBoundExchange(e) == e # DefaultExchange /\ exchanges[e] # "none"

MayDeleteExchange(e) ==
  e # DefaultExchange /\ exchanges[e] # "none" /\ bindings[e] = <<>>

DeleteExchange(e, ok) ==
  /\ Free /\ MayDeleteExchange(e)
  /\ Appended(ExchangeDeleted(e), ok)
  /\ exchanges' = IF ok THEN [exchanges EXCEPT ![e] = "none"] ELSE exchanges
  /\ bindings' = IF ok THEN [bindings EXCEPT ![e] = <<>>] ELSE bindings
  /\ UNCHANGED <<queues, pending, closed, booting, deletion, pub, crashes, hist>>

\* The binding is made in memory first, and stays there if the append fails.
BindQueue(e, q, key, ok) ==
  /\ Free /\ e \in Bindable /\ exchanges[e] # "none" /\ queues[q] # "none"
  /\ ~HasBinding(bindings[e], key, q)
  /\ bindings' = [bindings EXCEPT ![e] = Bind(@, key, q)]
  /\ Appended(QueueBinded(e, key, q), ok)
  /\ bound' = IF ok THEN bound \cup {<<e, key, q>>} ELSE bound
  /\ UNCHANGED <<queues, pending, exchanges, closed, booting, deletion, pub, crashes,
                 stored, consumed, cutShort>>

\* Likewise; with NoKey every binding of the queue to this exchange goes.
UnbindQueue(e, q, key, ok) ==
  /\ Free /\ exchanges[e] # "none" /\ queues[q] # "none"
  /\ HasBinding(bindings[e], key, q)
  /\ bindings' = [bindings EXCEPT ![e] = Unbind(@, key, q)]
  /\ Appended(QueueUnbinded(e, key, q), ok)
  /\ bound' = {x \in bound : ~(x[1] = e /\ x[3] = q /\ key \in {NoKey, x[2]})}
  /\ CutShort("unbind", ok)
  /\ UNCHANGED <<queues, pending, exchanges, closed, booting, deletion, pub, crashes,
                 stored, consumed>>

-----------------------------------------------------------------------------
(* DeleteQueue.  b.mu is held from the first step to the last. *)

Empty(q) == pending[q] = {}

\* Publish calls that have looked q up now hold a closed runtime.
Outdated(q) ==
  [m \in Msgs |-> IF pub[m].pc = "store" /\ Head(pub[m].todo).queue = q
                  THEN [pub[m] EXCEPT !.stale = TRUE] ELSE pub[m]]

\* CloseIfEmpty, the QueueDeleted record, delete(b.queues, name).  If the append
\* fails the closed runtime stays registered.
DeleteBegin(q, ok) ==
  /\ Free /\ q \in Deletable \ {DefaultQueue} /\ queues[q] # "none" /\ Empty(q)
  /\ Appended(QueueDeleted(q), ok)
  /\ queues' = [queues EXCEPT ![q] = IF ok THEN "none" ELSE "closed"]
  /\ pub' = IF ok THEN Outdated(q) ELSE pub
  /\ deleting' = IF ok THEN q ELSE NoQueue
  /\ unbinding' = IF ok THEN {e \in Exchanges : exchanges[e] # "none"} ELSE {}
  /\ bound' = IF ok THEN {x \in bound : x[3] # q} ELSE bound
  /\ CutShort("delete", ok)
  /\ UNCHANGED <<pending, exchanges, bindings, closed, booting, crashes, stored, consumed>>

\* One exchange of the loop over b.exchanges: done, or given up on an error.
DeleteUnbind(e, ok) ==
  /\ deleting # NoQueue /\ e \in unbinding
  /\ IF HasBinding(bindings[e], NoKey, deleting)
     THEN /\ bindings' = [bindings EXCEPT ![e] = Unbind(@, NoKey, deleting)]
          /\ Appended(QueueUnbinded(e, NoKey, deleting), ok)
     ELSE ok /\ UNCHANGED <<bindings, log>>
  /\ unbinding' = IF ok THEN unbinding \ {e} ELSE {}
  /\ deleting' = IF unbinding' = {} THEN NoQueue ELSE deleting
  /\ CutShort("delete", ok)
  /\ UNCHANGED <<queues, pending, exchanges, closed, booting, pub, crashes, stored,
                 consumed, bound>>

-----------------------------------------------------------------------------
(* Publish and Ack. *)

Ends(m, outcome) ==
  pub' = [pub EXCEPT ![m] = [@ EXCEPT !.pc = outcome, !.todo = <<>>, !.stale = FALSE]]

\* The routing decision, under b.mu.
PublishRoute(m, e, key) ==
  /\ Free /\ pub[m].pc = "idle"
  /\ LET routed == Route(exchanges[e], bindings[e], key)
     IN IF exchanges[e] = "none" \/ routed = <<>> THEN Ends(m, "error")
        ELSE pub' = [pub EXCEPT ![m] = [pc |-> "lookup", todo |-> routed,
                                        routed |-> routed, stale |-> FALSE]]
  /\ UNCHANGED <<memory, booting, deletion, log, crashes, hist>>

\* b.queue(name), under b.mu again.
PublishLookup(m) ==
  /\ Free /\ pub[m].pc = "lookup"
  /\ IF closed \/ queues[Head(pub[m].todo).queue] = "none" THEN Ends(m, "error")
     ELSE pub' = [pub EXCEPT ![m].pc = "store"]
  /\ UNCHANGED <<memory, booting, deletion, log, crashes, hist>>

\* Mutant of RuntimeClosed: the runtime does not look at q.closed.
RuntimeNeverClosed(m) == FALSE

RuntimeClosed(m) == pub[m].stale \/ queues[Head(pub[m].todo).queue] = "closed"

\* Mutant of AfterStore: the rest of the queues is forgotten.
AfterStoreFirst(m) == <<>>

AfterStore(m) == Tail(pub[m].todo)

\* runtime.Publish, without b.mu.
PublishStore(m, ok) ==
  /\ boot = "up" /\ pub[m].pc = "store"
  /\ LET b == Head(pub[m].todo)
         c == [msg |-> m, key |-> b.key]
     IN IF RuntimeClosed(m)
        THEN ok /\ Ends(m, "error") /\ UNCHANGED <<pending, log, stored>>
        ELSE /\ Appended(Published(b.queue, c), ok)
             /\ IF ok
                THEN /\ pending' = [pending EXCEPT ![b.queue] = @ \cup {c}]
                     /\ stored' = stored \cup {<<b.queue, c>>}
                     /\ IF AfterStore(m) = <<>> THEN Ends(m, "ok")
                        ELSE pub' = [pub EXCEPT ![m] = [@ EXCEPT !.pc = "lookup",
                                                                 !.todo = AfterStore(m)]]
                ELSE Ends(m, "error") /\ UNCHANGED <<pending, stored>>
  /\ UNCHANGED <<queues, exchanges, bindings, closed, booting, deletion, crashes,
                 consumed, bound, cutShort>>

\* A copy leaves its queue for good (QueueRuntime: Ack or a dead letter).
Consume(q, c, ok) ==
  /\ boot = "up" /\ queues[q] # "none" /\ c \in pending[q]
  /\ Appended(Acknowledged(q, c), ok)
  /\ pending' = IF ok THEN [pending EXCEPT ![q] = @ \ {c}] ELSE pending
  /\ consumed' = consumed \cup {<<q, c>>}
  /\ UNCHANGED <<queues, exchanges, bindings, closed, booting, deletion, pub, crashes,
                 stored, bound, cutShort>>

-----------------------------------------------------------------------------
(* Shutdown and crash. *)

ShutdownBegin ==
  /\ Free /\ ~closed /\ closed' = TRUE
  /\ UNCHANGED <<queues, pending, exchanges, bindings, booting, deletion, pub, log,
                 crashes, hist>>

\* runtime.Shutdown, for each runtime in turn, without b.mu.
ShutdownQueue(q) ==
  /\ boot = "up" /\ closed /\ queues[q] = "open"
  /\ queues' = [queues EXCEPT ![q] = "closed"]
  /\ UNCHANGED <<pending, exchanges, bindings, closed, booting, deletion, pub, log,
                 crashes, hist>>

\* The process ends at any moment, in NewBroker and in DeleteQueue included.
\* When it is running it may end inside a write and leave a torn record.  It is
\* then started again.
Crash ==
  /\ crashes < MaxCrashes
  /\ crashes' = crashes + 1
  /\ boot' = "down" /\ plan' = NothingPlanned /\ at' = DefaultExchange /\ rest' = <<>>
  /\ queues' = [q \in Queues |-> "none"] /\ pending' = [q \in Queues |-> {}]
  /\ exchanges' = NoExchanges /\ bindings' = NoBindings /\ closed' = FALSE
  /\ deleting' = NoQueue /\ unbinding' = {}
  /\ pub' = [m \in Msgs |-> IF pub[m].pc \in {"lookup", "store"}
                            THEN [pub[m] EXCEPT !.pc = "error", !.todo = <<>>, !.stale = FALSE]
                            ELSE pub[m]]
  /\ torn' \in {torn, torn \/ boot \in {"exchanges", "up"}}
  /\ cutShort' = cutShort \cup (IF boot = "exchanges" THEN {"boot"} ELSE {})
                           \cup (IF deleting # NoQueue THEN {"delete"} ELSE {})
  /\ UNCHANGED <<disk, faults, stored, consumed, bound>>

-----------------------------------------------------------------------------
Boot(ok) ==
  \/ BootLoad \/ BootUnreadable \/ (\E e \in Exchanges : BootExchange(e, ok))
  \/ BootBind(ok) \/ BootRefused \/ BootReady(ok)

Declare(ok) ==
  \/ \E q \in Queues : CreateQueue(q, ok) \/ DeleteBegin(q, ok)
  \/ \E e \in Exchanges :
       \/ DeleteExchange(e, ok) \/ DeleteUnbind(e, ok)
       \/ \E t \in Kinds : CreateExchange(e, t, ok)
       \/ \E q \in Queues, key \in Keys : BindQueue(e, q, key, ok)
       \/ \E q \in Queues, key \in Keys \cup {NoKey} : UnbindQueue(e, q, key, ok)

Traffic(ok) ==
  \/ \E m \in Msgs :
       \/ PublishLookup(m) \/ PublishStore(m, ok)
       \/ \E e \in Exchanges, key \in RoutingKeys : PublishRoute(m, e, key)
  \/ \E q \in Queues : \E c \in pending[q] : Consume(q, c, ok)

Next ==
  \/ \E ok \in BOOLEAN : Boot(ok) \/ Declare(ok) \/ Traffic(ok)
  \/ ShutdownBegin \/ (\E q \in Queues : ShutdownQueue(q)) \/ Crash

Spec == Init /\ [][Next]_vars

-----------------------------------------------------------------------------
(* Properties. *)

Existing == {q \in Queues : queues[q] # "none"}
Settled == Free /\ faults = 0

\* Every variable has its type.
TypeOK ==
  /\ queues \in [Queues -> {"none", "open", "closed"}]
  /\ pending \in [Queues -> SUBSET Copies]
  /\ exchanges \in [Exchanges -> Types \cup {"none"}]
  /\ bindings \in [Exchanges -> Seq(Binding)] /\ closed \in BOOLEAN
  /\ deleting \in Queues \cup {NoQueue} /\ unbinding \subseteq Exchanges
  /\ boot \in {"down", "exchanges", "up", "unreadable", "refused", "failed"}
  /\ plan \in [Exchanges -> [type : Types \cup {"none"}, list : Seq(Binding)]]
  /\ at \in Exchanges /\ rest \in Seq(Binding)
  /\ pub \in [Msgs -> [pc : {"idle", "lookup", "store", "ok", "error"},
                       todo : Seq(Binding), routed : Seq(Binding), stale : BOOLEAN]]
  /\ disk \in [queues : SUBSET Queues, pending : [Queues -> SUBSET Copies],
               exchanges : [Exchanges -> Types \cup {"none"}],
               bindings : [Exchanges -> Seq(Binding)]]
  /\ torn \in BOOLEAN /\ faults \in Nat /\ crashes \in Nat
  /\ stored \subseteq Queues \X Copies /\ consumed \subseteq Queues \X Copies
  /\ bound \subseteq Exchanges \X Keys \X Queues
  /\ cutShort \subseteq {"boot", "delete", "unbind"}

\* Between two operations Load would return exactly the registry in memory, the
\* order of the bindings included: whatever mix of creations, deletions, bindings
\* and restarts came before, as long as every append succeeded.  The default
\* queue and the default exchange are never logged as created.
LogMatchesRegistry ==
  Settled =>
    /\ ~torn /\ disk.queues \cup {DefaultQueue} = Existing
    /\ disk.pending = pending
    /\ \A e \in Exchanges \ {DefaultExchange} :
         disk.exchanges[e] = exchanges[e] /\ disk.bindings[e] = bindings[e]
    /\ disk.exchanges[DefaultExchange] = "none"

\* Between two operations every binding names a queue that exists, so Publish
\* never routes to a queue that DeleteQueue has removed.
NoDanglingBinding ==
  Settled =>
    \A e \in Exchanges : \A i \in 1 .. Len(bindings[e]) : bindings[e][i].queue \in Existing

\* NewBroker can restore whatever a readable log holds, after any mix of crashes,
\* in NewBroker itself too, and failed appends: every binding that Load returns
\* names a queue that Load returns, and none comes twice.  It returns an error
\* only when Load met a torn record, when one of its own appends failed, or when
\* a crash or a failed append once cut DeleteQueue, or a failed append UnbindQueue,
\* short.
BootsCleanly ==
  /\ boot = "unreadable" => torn
  /\ boot = "failed" => faults > 0
  /\ boot = "refused" => cutShort \cap {"delete", "unbind"} # {}

\* A binding that BindQueue confirmed, to an exchange other than the default
\* one, is still there after any number of restarts, unless a crash fell into
\* NewBroker or DeleteQueue or an append had failed.
NamedBindingsKept ==
  (boot = "up" /\ faults = 0 /\ cutShort = {}) =>
    \A x \in bound : x[1] # DefaultExchange => HasBinding(bindings[x[1]], x[2], x[3])

\* A copy that a queue accepted and nobody consumed is in the log, if perhaps
\* beside a torn record, and, once NewBroker has loaded it, in the queue of that
\* name: DeleteQueue cannot slip between the lookup of a runtime and the Publish
\* on it, nor between two copies.
CopiesKept ==
  \A x \in stored \ consumed :
    /\ x[2] \in disk.pending[x[1]] /\ x[1] \in disk.queues
    /\ boot \notin {"down", "unreadable"} => x[2] \in pending[x[1]] /\ x[1] \in Existing

\* When Publish returns nil, each queue that the routing decision selected has
\* stored its copy.
PublishComplete ==
  \A m \in Msgs : pub[m].pc = "ok" =>
    \A i \in 1 .. Len(pub[m].routed) :
      LET b == pub[m].routed[i] IN <<b.queue, [msg |-> m, key |-> b.key]>> \in stored

-----------------------------------------------------------------------------
(* What the documentation says. *)

\* docs/sdk.html: "On restart it replays the WAL and rebuilds queues, exchanges,
\* bindings".  A restart that refuses what Load returned does not.
RestartSucceeds == boot # "refused"
=============================================================================
