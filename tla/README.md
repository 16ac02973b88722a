# Formal models of dsend

TLA+ models of the dsend message broker, checked with TLC on small instances,
and theorems about them proved with TLAPS. Paths are relative to the
repository root. `PROJECT.json` is the machine-readable index: components, runs,
mutants, the source lines behind every definition, findings, hazards, theorems.

## The system

| Part | Code | State and concurrency |
|---|---|---|
| Ring buffer | `internal/queue/ring_buffer.go` | fixed slice, head, tail, size; no bounds checks |
| Dead letter queue | `internal/queue/dlq.go` | slice, memory only |
| In-flight manager | `internal/inflight/manager.go` | map token -> message, consumer, time |
| Consumer session | `internal/session/session.go` | bounded channel, closed flag, unacknowledged count |
| Queue runtime | `internal/engine/queue_runtime.go` | owns the four above; one mutex, one condition variable for publishers, one notification channel; three goroutines (distributor, redelivery worker, expiry worker) |
| Exchanges | `internal/exchange/` | binding lists; direct, fanout and topic routing |
| Broker | `internal/engine/mem_broker.go` | maps of queues, exchanges, tokens under two mutexes |
| Recovery | `internal/engine/broker.go` | `NewBroker` rebuilds the broker from the log, through operations that log again |
| Write-ahead log | `internal/storage/wal.go` | JSON records, one writer goroutine, `Load` |
| TCP server | `internal/server/` | a goroutine per connection, one more per subscription |
| Process | `cmd/dsend/server.go` | signal, server, broker, log, in that order |
| Client library | `client/` | one connection per client, responses matched by order |
| Command line, protocol structs, logger | `cmd/dsend/`, `internal/protocol/`, `internal/model/`, `internal/logger/` | no state that the broker depends on |

A publish goes exchange -> queue names -> one `QueueRuntime.Publish` per queue. The
distributor pops the head for the next eligible session, records it in flight
under a fresh token, releases the lock and sends it to the session's channel. A
subscription goroutine writes it to the client. The client acknowledges the token,
or the redelivery worker takes the delivery back after `AckTimeout`. Every
change that must survive is appended to the log first (bindings: afterwards).

## Modules

| Module | Models |
|---|---|
| `RingBuffer` | the ring as operators on a record with the fields of the Go struct |
| `QueueRuntime` | one queue with all its goroutines, sessions and clients, its share of the log, crash and restart |
| `Exchange` | binding lists and routing, as operators |
| `TopicMatch` | the loop of `TopicExchange.match`, step by step |
| `Registry` | queues, exchanges and bindings of the broker, the records about them, `NewBroker`, and `Publish` across several queues; uses `Exchange` |
| `RecordLog` | what `storage.WAL` promises: an append is one step that succeeds, fails or is refused |
| `FileWal` | `FileWAL`: mutex, channel, writer goroutine, `Close`, the file, crash and restart; implements `RecordLog` |
| `Client` | the client library, and the connection between a client and the broker |
| `Handler` | `handleConnection` and the subscription goroutine; extends `Client` |
| `Server` | the accept loop, connection tracking, the process from start to exit; extends `Handler` and so composes clients, handlers and process |
| `MCQueueRuntime`, `MCRegistry`, `MCTopicMatch`, `MCFileWal`, `MCServer` | instances for TLC |
| `QueueRuntimeProofs` | the queue's types, scheduler, durability, tokens, retries; the lemmas that the next two extend |
| `QueueMessageProofs` | where the messages of the queue are: in the ring, in flight, in the log |
| `QueueCountProofs` | what the queue counts: metrics, wakeups, prefetch |
| `RegistryProofs`, `RegistryLogProofs` | the registry in memory; the registry and its log |
| `TopicMatchProofs`, `FileWalProofs`, `ServerProofs` | topic matching; the log; connections, handlers, clients and the process |

### QueueRuntime

Variables have the names of the struct fields where there is one. A method that
holds `q.mu` throughout is one action. A loop under `q.mu` that may append several
records is one action per iteration, and `mu` names the goroutine that keeps the
lock, so that a crash can fall between two appends. The places where the lock is
given up are separate steps: `condProd.Wait` (`pub[m] = "waiting"`), and the gap
between `reserveDelivery` and the send (`dist = "send"`, `"cancel"`).

| Code | Actions |
|---|---|
| `Publish` | `PublishWait`, `PublishClosed`, `PublishAccept`, `PublishLogError` |
| `Ack` | `Ack`, `AckLogError`, `AckInvalid` |
| `Subscribe`, `Unsubscribe`, subscription goroutine | `Subscribe`, `Unsubscribe`, `Receive` |
| `RunDistributor`, `reserveDelivery`, `nextSession`, `cancelReservation` | `DistributorTop`, `DistributorNotified`, `DistributorCancelled`, `ReserveNothing`, `ReserveDelivery`, `SendDelivery`, `SendRefused`, `CancelReservation` |
| `deadLetterExpiredMessages` | `DeadLetterHead`, `DeadLetterLogError`, `ExpirySweepEnds` |
| `processExpiredMessages` | `SweepBegin`, `SweepSkip`, `SweepDeadLetter`, `SweepRequeue`, `SweepLogError` |
| `Shutdown`, `CloseIfEmpty`, cancel, end of the workers | `Shutdown`, `CloseIfEmpty`, `CancelContext`, `ReleaseTokens`, `WorkerExit` |
| crash and `NewBroker` for one queue | `CrashRestart` |
| the clock | `AckTimeoutPasses`, `TTLPasses` |

Abstractions:

- A message is its id and retry count. Ids and tokens are fresh, as UUIDs are;
  ids that a client chooses itself are not considered. `redeliveredCount` is left
  out: nothing reads it but `Metrics`.
- The log is the set of pending entries that `Load` would return, with their
  positions. A failed append may or may not have left its record (`LogFailed`):
  `writeRecord` reports a failed `Sync` after a complete `Write`.
- Time is which tokens are older than `AckTimeout` and which messages are past
  their expiry. Both only grow. Tokens become overdue in the order in which they
  were issued, since the timeout is the same for all.
- The model lets the expiry worker sweep more than once between `closed` being
  set and its exit, and `Unsubscribe` take effect while the broker is shutting
  down; the code allows less.
- `ackedIds`, `removedIds`, `cancels` and `carried` are history: no guard reads them.

### Registry

The log is again the state that `Load` would return, and whether a record in it is cut off
(`torn`): by a crash inside a write, or by a write that failed half-way. `DeleteQueue` and `NewBroker` are a
step per record, since a crash can fall between two records. `boot` is how far `NewBroker` has come. It ends
in one of four states: `"up"`; `"unreadable"`, when `Load` failed on a torn record; `"refused"`, when a binding
that `Load` returned cannot be restored; `"failed"`, when one of its own appends failed. `cutShort` is
history: which of `NewBroker`, `DeleteQueue` and `UnbindQueue` a crash or a failed append has cut short. A queue is the set of the
copies it holds; a full queue and redelivery belong to `QueueRuntime`. Requests
that are refused have no action. `stale` marks a `Publish` call that looked
up a runtime which `DeleteQueue` has closed since, so that a queue of the same name
created in between is not taken for it.

### FileWal and RecordLog

| Code | Actions |
|---|---|
| `Append` | `AppendRejected`, `AppendLock`, `Send` |
| `runWriter`, `writeRecord` | `WriteDone`, `WriteFails`, `SyncDone`, `SyncFails`, `Reply`, `WriterExits` |
| `Close` | `Close`, `CloseFile` |
| the end of the process, the next start with `Load` | `Crash`, `Exit`, `NewFileWAL` |

`Append` keeps `f.mu` while it stands at the send on the unbuffered channel, so
locking and sending are two steps. The file is a sequence of records, whole or torn, of which the first
`synced` are durable. A crash keeps those and cuts the rest anywhere. `Load` fails on a torn
record, and the process does not come up (`mode = "failed"`).

`RecordLog` is the append that `QueueRuntime` (`Logged`, `LogFailed`) and `Registry` (`Appended`) take as one
step. The refinement mapping hides the record that the writer is working on: a
record joins the abstract log in the step that answers its caller, or with the
crash that leaves it in the file unanswered.

### Client, Handler and Server

A client object owns one connection and is identified with it. The connection is two
sequences, of requests and of responses, and the state of its two ends.

| Code | Actions |
|---|---|
| `Producer.do` and the methods around it | `Publish`, `GetMetrics`, `ManageQueues`, `ManageExchanges`, `CallOther`, `Answered`, `DecodeFails` |
| `Consumer` | `Subscribe`, `Unsubscribe`, `Ack`, `Receive`, `ReceiveReturns`, `ReceiveFails`, `Cancel`, `WatcherEnds` |
| `baseClient.Close` | `Close` |
| `handleConnection` | `LoopTop`, `DecodeError`, one `Handle...` action per case of the switch, `PublishReturns`, `Stopped`, `Encode`, `StopSubscriber`, `CloseConn` |
| subscription goroutine | `TakeDelivery`, `Deliver`, `SeeStop`, `Leave` |
| `Server.Start` | `Listen`, `ListenFails`, `Accept`, `TrackConn`, `CheckContext`, `AcceptClosed`, `CloseListener`, `CloseConns`, `HandlerDone` |
| `runServer` | `StartBroker`, `Signal`, `ShutdownBroker`, `BrokerStopped`, `WorkersEnd`, `CloseWal` |

Abstractions:

- Requests carry the number of the call that sent them, and responses the request
  they answer. Neither is on the wire and no guard reads them; the properties need them to say
  which response a call was given.
- A `json.Decoder` or `json.Encoder` keeps its first error (`broken`, `encErr`). Both ends may hold data
  that was read before the connection was closed.
- The broker is what a handler sees of it: one queue with a bounded depth, in which `Publish`
  waits while it is full; registered sessions; other calls succeed or
  fail. Its inside is the subject of `QueueRuntime` and `Registry`.
- `"foreign"` and `"unknown"` requests come from a client of another release. A `"malformed"` one is not
  a `protocol.Request` in JSON: the handler's decoder fails on it and the handler returns, with the connection
  open until then (`DecodeError`).
- A client object is used by one goroutine at a time, as in `cmd/dsend/` and in the documentation's examples.
  `Producer.do` has no lock, and nothing is said of concurrent calls on one object.
- `Receive` waits without a deadline, as the code does. `docs/sdk.html:375` tells of a read deadline of 10
  seconds; only the calls of `Producer` set one.

## Runs

Every run finishes within three minutes on two workers. The deadlock check is off: a
scenario with finitely many messages and tokens ends, and the broker may then be
idle.

| Run | Scenario | Properties | States |
|---|---|---|---|
| `queue_redelivery` | two consumers, one of which leaves; a queue of one slot; timeouts | `NoMessageLost`, `AckedIsFinal`, `MetricsBalance`, `RetriesBounded`, `TokensAgree`, `SchedulerSound` | 110,449 |
| `queue_crash` | a consumer that subscribes again under its id; one message expires; one failed append; one crash | `TypeOK`, `PrefetchAccounting`, `PrefetchBound`, `LogKeepsAccepted`, `LogMatchesMemory`, `QueueInLogOrder` | 1,426,413 |
| `queue_lifecycle` | a full queue with a blocked publisher; expiry, timeout, unsubscription, shutdown, deletion | `WakeupsCover`, `ShutdownCompletes`, `OverdueHandled`, `ExpiredHeadCleared` | 72,751 |
| `queue_progress` | a consumer that acknowledges, with a prefetch count of one, and subscribes again under its id; timeouts, dead letters | `PublishersReturn`, `AllSettled` | 118,459 |
| `registry` | declarations, deletions, fan-out publication, shutdown; one failed append; two crashes, inside a write too | `TypeOK`, `LogMatchesRegistry`, `NoDanglingBinding`, `BootsCleanly`, `NamedBindingsKept`, `CopiesKept`, `PublishComplete` | 1,432,689 |
| `topic_match` | all keys of up to three segments | `MatchCorrect` | 12,081 |
| `file_wal` | three appends, two calls of `Close`, one failed write or sync, two crashes or restarts | `NoSendAfterClose`, `ConfirmedIsDurable`, `CloseDrains`, `ImplementsRecordLog`, `CallsReturn` | 63,682 |
| `server` | a producer and a consumer connect; a full queue; a signal at any moment; the address may be taken | `NoConnectionLeft`, `LogClosedLast`, `SessionsServed`, `ShutdownEnds` | 239,808 |
| `client` | a producer or a consumer sends three requests of any type, or malformed ones; timeouts, stalled writes, cancellation, `Close` | `PairedResponses`, `OkIsStored`, `QuietAfterUnsubscribe`, `ReceivedInOrder`, `ClosedIsUnregistered` | 402,016 |

Each property is stated in words above its definition, and for each one
`PROJECT.json` names a mutant: a plausible bug in one definition, under which TLC
finds the property violated.

Several properties carry an exception, for instance "unless `cancelReservation`
pushed into a full ring". The exceptions are where the code departs from what one
would expect of it. For the following ones a run states the documentation's
sentence without the exception, and TLC finds the counterexample:

| Run | Documented | What happens |
|---|---|---|
| `doc_nothing_lost` | nothing is silently lost | a reservation is cancelled after a blocked publisher has refilled the ring: the push overwrites a message |
| `doc_acked` | an acknowledged message is never redelivered | the redelivery worker requeues a delivery that the distributor then cancels: two copies |
| `doc_restart` | a restart rebuilds the broker | a crash inside `DeleteQueue` makes `NewBroker` fail |

The other exceptions mark these behaviours:

- `PrefetchAccounting`, `PrefetchBound`: after a re-subscription under the same id the new session is
  credited for deliveries of the old one (`carried`), and may be given more than the
  prefetch count.
- `NamedBindingsKept` is about named exchanges: the default exchange is never logged as created, so
  `Load` skips the bindings made on it and a restart forgets them.
- `AllSettled`: dead-lettering an overdue delivery frees a prefetch slot without a notification
  (`queue_runtime.go:444`), and a waiting message then waits for the next one. The property says so in two parts. Its
  first part, `Notified`, is that no other step leaves the distributor asleep over a message it could
  deliver (`Overlooked`), as long as no append fails. Its second part, that accepted messages are settled, excepts the
  behaviours in which the distributor stays asleep like that for good. In the run the prefetch count is
  one, so the silent step is taken.
- `ShutdownEnds`: a handler that waits in `Publish` for room in a full queue is only woken by
  `broker.Shutdown`, and `runServer` calls that after `server.Start` has waited for the handler. With a full queue and
  no consumer left, a signal closes the listener and all connections, and the
  process stays.
- `LogClosedLast`: when `net.Listen` fails, `runServer` closes the log while the goroutines of
  the queues run.
- `SessionsServed`: when a delivery cannot be written, the subscription goroutine unregisters the session
  and ends, but the handler still takes the client for subscribed and refuses a new Subscribe.
- `ReceivedInOrder`: `Receive` returns the answer to `Unsubscribe` as a message without id and token.
- `ConfirmedIsDurable` says that confirmed records are on the disk, not that they can be loaded: a
  torn record makes `Load` fail for the whole file, and every later start with it.
- `PairedResponses` holds because the decoder keeps the error of the first timeout. From then on every call of that
  Producer fails, while the broker goes on to execute its requests.
- `WakeupsCover`: a woken publisher whose append fails does not wake the next one.
- `OverdueHandled`: a sweep skips overdue deliveries while the queue is full; if the
  consumers are at their prefetch limit it stays full.
- `ExpiredHeadCleared`: only the head of the queue is tested for expiry, and not
  again once a message has been reserved.
- `BootsCleanly` says which errors `NewBroker` can return, and why. `Load` fails on a torn record, and on nothing else. An
  append of `NewBroker` itself may fail. A binding is refused only after `DeleteQueue` was cut short by a crash or a
  failed append (its queue is gone), or after an append failed in `UnbindQueue` (a later `BindQueue` leaves
  the binding in the log twice). Failed appends elsewhere, torn records and crashes in `NewBroker` refuse nothing.
- `NamedBindingsKept`: a crash inside `NewBroker`, after `ExchangeCreated` was logged
  again, loses the bindings of that exchange.
- `MatchCorrect`: a routing segment `#` is consumed by `#` as if it were a literal. `match` in `Exchange`, which `Route` uses,
  has this; only the comparison with the documented meaning (`Matches`) leaves such routing keys out.

### Bounds

- Two messages and a queue of one or two slots give a full ring, a wrapped ring,
  a blocked publisher and a queue that is empty again.
- Two sessions, of two consumers (rotation) or of one (re-subscription).
- `MaxRetries = 1` gives a requeue and a dead letter. `MaxTokens` bounds the
  reservations: three allow a redelivery next to another delivery (`queue_redelivery`), two a
  delivery before and one after a crash or a re-subscription (`queue_crash`), one is enough to
  race with shutdown (`queue_lifecycle`). In `queue_progress` four
  are enough for both messages to be delivered and redelivered; a re-subscription can use up more, and the
  two properties say nothing of a behaviour that reaches the bound (`WithinBounds`).
- `DeliveriesCap` is 100 in the code. It is 1 in the runs, so that a full channel occurs, and 2 in `queue_progress` to
  keep that run short (with 1 both properties hold too, over 205,195 states).
- One failed append and one crash for a queue; two crashes for the registry,
  since the second must be able to fall into the recovery from the first.
- In the registry one queue and one exchange beside the defaults, and one binding
  key: deletion, re-creation and fan-out to two queues all occur.
- Three appends: one in the writer, one at the send, one that comes after `Close`. Two restarts,
  so that a crash can follow a recovery; two calls of `Close`, since the second takes the early return.
- `server` has two clients, so that one may be accepted while another's handler is closed or
  blocked, a queue of one slot that is full from the start, and one request each.
- `client` has one client at a time: handlers share nothing but the queue, which `server` covers. Three
  requests let a call follow a timeout, and a Subscribe follow an Unsubscribe.
- Keys of up to three segments cover every combination of a wildcard first, in
  the middle or last, and either key being a prefix of the other.

### Fairness

`Fairness` is weak fairness of the distributor, of the two ticker goroutines, of a
publisher that has been woken, of the subscription goroutines, and of time. Each
is a runnable goroutine, or a ticker, that nothing disables for good; Go
schedules it eventually. The mutex is held for finitely many steps. `Shutdown` is not
fair, nor is subscribing, unsubscribing or publishing. `AckingSpec` adds that clients
acknowledge what they were handed; it is an assumption about clients, made
for the two progress properties.

In `FileWal` the writer is fair, and so is a call that holds the lock or waits; nobody
has to call. Faults and crashes are not fair. In `Server` the goroutines of the process are fair:
`runServer` with the accept loop, the closing goroutine, each handler and subscription goroutine, and the
end of the queue's goroutines. A write ends at its deadline. Clients, the signal and the distributor are not
fair: a client may be silent for ever, and shutdown must not depend on it.

## Proofs

Every safety property of the passing runs is also a theorem: the run shows it on a small
instance, the theorem for every value of the constants.

| Module | Theorems |
|---|---|
| `QueueRuntimeProofs` | `TypeCorrect` (`TypeOK`), `SchedulerCorrect` (`SchedulerSound`), `DurabilityCorrect` (`LogKeepsAccepted`), `TokensCorrect` (`TokensAgree`), `RetriesCorrect` (`RetriesBounded`) |
| `QueueMessageProofs` | `MessagesKept` (`NoMessageLost`), `AckFinal` (`AckedIsFinal`), `LogMatches` (`LogMatchesMemory`), `RingInLogOrder` (`QueueInLogOrder`) |
| `QueueCountProofs` | `MetricsAddUp` (`MetricsBalance`), `NoLostWakeup` (`WakeupsCover`), `PrefetchCounted` (`PrefetchAccounting`), `PrefetchRespected` (`PrefetchBound`) |
| `RegistryProofs` | `TypesKept` (`TypeOK`), `PublishReachesAll` (`PublishComplete`), `NoCopyLost` (`CopiesKept`) |
| `RegistryLogProofs` | `LogIsRegistry` (`LogMatchesRegistry`), `BindingsNameQueues` (`NoDanglingBinding`), `RestartsSucceed` (`BootsCleanly`), `NamedBindingsSurvive` (`NamedBindingsKept`) |
| `TopicMatchProofs` | `TopicMatchCorrect` (`MatchCorrect`) |
| `FileWalProofs` | `ChannelOpenAtSend` (`NoSendAfterClose`), `Durability` (`ConfirmedIsDurable`), `DrainedClose` (`CloseDrains`), `Refinement` (`ImplementsRecordLog`: `FileWal` implements `RecordLog`) |
| `ServerProofs` | `ConnectionsClosed` (`NoConnectionLeft`), `OrderlyShutdown` (`LogClosedLast`), `Subscriptions` (`SessionsServed`), `Pairing` (`PairedResponses`), `Confirmation` (`OkIsStored`), `QuietEnd` (`QuietAfterUnsubscribe`), `OrderedReceipt` (`ReceivedInOrder`) |

Each has the form `Spec => []Property`; the refinement is `Spec => ImplementsRecordLog`. The type invariants of `FileWal`
and `Server` are theorems too (`TypeCorrect` in their modules).

They hold for every set of messages, consumers, sessions, queues, exchanges, keys and clients, every queue
size, retry limit, prefetch count and channel capacity, and any number of
crashes and failed appends. The sets may be infinite; only what has happened is finite. The assumptions are the
named ASSUMEs of the models, which TLC evaluates in every run: sizes are naturals and the queue size is
positive, defaults are members of their sets, and placeholders are not real names (`ZeroAssumption`, `ConfigAssumption`,
`NameAssumption`, `NamesAssumption`, `ClientAssumption`, `HandlerAssumption`, `ServerAssumption`); binding keys passed
`validateBindingKey` (`KeyAssumption` of `TopicMatch`).

The argument, by module.

### The queue

- **Ring.** `Push`, `Pop` and `Peek` keep a ring a ring, also when they are used on a full or empty one, and keep it coherent
  (occupied slots are the `size` slots from `head`) when they are not.
- **Base** is the invariant everything else rests on: `TypeOK`, `SchedulerSound` and `LockSound`. None is inductive alone. `TypeOK`
  needs the scheduler to be sound, since `nextSession` looks up the session of an id it took from the
  rotation, and `LockSound` (the lock is the redelivery worker's exactly while it has items) for the end of a
  sweep. `TypeOK` is split into seven parts (store, log, scheduler, connections,
  control, life cycle, history), so that an action is only asked about the parts it writes. `StepKinds` then sorts the
  steps by whether they touch messages at all, and later proofs look only at those that do.
- `LogKeepsAccepted` follows from a monotonicity lemma: the ids that are pending
  or covered by a removal record only grow, and `PublishAccept` adds the accepted one.
- `TokensAgree` is strengthened by "a token names one delivery", since tokens are fresh.
  `RetriesBounded` is strengthened by the copy the distributor holds, which
  `cancelReservation` puts back.
- `NoMessageLost` needs the ring to be coherent as long as no cancellation overran it: only then does a
  `Push` fill a vacant slot, and a `Pop` remove one message and no other. After a restart it is `LogKeepsAccepted` that
  says where the message is.
- `AckedIsFinal` needs to know that an acknowledged message had one copy. `SingleCopy` says that a message is in one slot or in
  flight under one token and not both, as long as no cancellation came late; `LogSound` that the log has one pending entry per
  message. An id that was never published is nowhere, so `PublishAccept` cannot make a second copy.
- `LogMatchesMemory` uses both: the step that removes the copy from memory removes the only one, and its record the
  only entry.
- `QueueInLogOrder` is strengthened to `SlotOrder`, which compares slots by their distance from the head, and not
  positions in a sequence: a `Pop` brings every other slot one nearer, a `Push` is the farthest and has the last log position.
- `MetricsBalance`, `PrefetchAccounting` and `PrefetchBound` are about cardinalities. Deliveries in flight are finitely many (`Finite`), and each
  step adds or removes one. `HeldSound` (the delivery that the distributor holds is the one in flight under that token) is what makes
  `cancelReservation` credit the right consumer. `PrefetchInv` adds that a session that has not
  subscribed yet is registered nowhere and has counted nothing.
- `WakeupsCover` compares the number of vacant slots with that of the woken publishers. Every step that
  frees a slot wakes a sleeper if there is one, and a publisher that takes a slot is one that was woken, or found
  nobody asleep.

### The registry

- `Kept` (what a loop over a binding list leaves) is a recursive function. Its properties are
  proved by induction over its length, in the form of the well-founded minimum of a set of numbers (`LeastNumber`, `UpTo`):
  its result is a list of the kept elements, without repetitions if the argument had none.
- The types are strengthened by `PubSound`: a Publish under way has a queue to go to, and a broker that is up.
- `PublishComplete` is strengthened to `Served`: the queues still to serve are the last ones of those the call was routed to,
  and the earlier ones have stored their copies.
- `CopiesKept` is strengthened by `LookedUp`: a call that was not told that its runtime is closed looks at a
  registered queue, so a copy is never stored in a queue that the log does not have.
- `LogMatchesRegistry` is strengthened to states in the middle of `NewBroker` (`TableMatch`, `QueueMatch`): an exchange is in the log either as it
  is in memory or as `NewBroker` is still to create it. It rests on `Sound`, the form of log and tables
  that holds also after a failed append, and on `CleanStep`: a step without a failed append makes the same
  change in memory and in the log.
- `NoDanglingBinding` is strengthened to the middle of `DeleteQueue`: a binding may name the queue that is being
  deleted on the exchanges that the loop has still to visit.
- `BootsCleanly` is strengthened to `LogGood`: the log, and what `NewBroker` has still to restore from it, has no binding twice and
  none of a missing queue, in every state before, during and after a restart. Memory and log may differ after a
  failed append, so it also says in which direction: the log has every queue that memory has, and no binding that
  memory does not have. A queue is logged before it is there, and a binding is there before it is logged; `DeleteQueue` and
  `UnbindQueue` take away in the same order and so, when they are cut short, leave the opposite: `LogGood` is an invariant only as
  long as neither was (`Orderly`). `ErrorsCaused` has the other two errors.
- `NamedBindingsKept` follows every confirmed binding through the log, the plan of `NewBroker` and the tables (`Where`).

### The rest

- `MatchCorrect` is strengthened by the loop invariant: the two indices are
  equal and the segments before them agree. That the value of `match` is the documented one for a routing key
  without a segment `#` is a fact about the two operators.
- `FileWal`: `Safe` adds `Mutex` (the holder of the lock is the one call
  at the send, with the channel open), `Handover` (the writer has the request of the one call that waits) and `Written` (a
  call is in the file at most once, and the request in hand is at its end as far as the writer has come). For the
  refinement every action is shown to be a step of `RecordLog` on the mapped variables or to leave them alone: only
  `AppendRejected`, `Reply`, `Crash` and `Exit` are visible.
- `NoConnectionLeft` is strengthened to `Tracked`: a connection with a handler is tracked until it is
  closed, and no handler starts once the context is done. `LogClosedLast` is strengthened to `Ordered`, which says for each
  place of `runServer` which goroutines have ended. `SessionsServed` is strengthened to `Served`: a subscription
  goroutine runs only under an active handler, and ends only after it was stopped or could not write.
- `PairedResponses` is strengthened to `Paired`: on a connection that is not broken the requests under way, the reply at
  hand and the responses under way together are at most the one call that waits, with its number. `OkIsStored` adds `Confirmed`: a successful reply, at
  hand or under way, has its message stored. `QuietAfterUnsubscribe` rests on `Quiet`: what
  the subscription goroutine can still write has a session number above that of every answer
  to Unsubscribe already written.
- `ReceivedInOrder` is strengthened to `Sequenced`, which extends the order back along the whole way: what
  was received, what is on the connection, what the subscription goroutine holds and what is in the session's channel
  have increasing tokens (`Tokens`); answers seen, the reply at hand and the requests
  still to be read have increasing call numbers (`Numbers`).

Most leaves name Zenon. The SMT backend has a fixed limit for the preparation of an obligation, which no pragma extends and
which long modules reach; steps that need no arithmetic are therefore left to Zenon.

### Only model-checked

- The liveness properties (`PublishersReturn`, `AllSettled`,
  `ShutdownCompletes`, `OverdueHandled`, `ExpiredHeadCleared`, `CallsReturn`, `ShutdownEnds`, `ClosedIsUnregistered`): liveness under
  fairness and ENABLED are outside the prover's reach.
- The three documented sentences that TLC refutes, and the mutants.

## Not modelled

- The format of log records from before records had types, which `Load` still reads.
- Message ids that a sender chooses itself. `Publish` keeps such an id, and `Load` removes messages by id; the client library
  leaves ids empty, and each queue then draws a UUID.
- The contents of requests about queues and exchanges, of listings and of metrics on their way through the
  server: `Registry` models the operations, `MetricsBalance` the numbers.
- `Start` of a queue that is created later: `QueueRuntime` begins with the goroutines running, `Server`
  has them started by `broker.Start`.
- `cmd/dsend/` apart from `server.go`: flags and printing around single calls of the client library.
- `internal/logger/`: diagnostic output that nothing in the broker depends on.

## What could come next

1. An abstract queue (accepted, in flight, settled) that `QueueRuntime` implements when no cancellation overruns or
   comes late; the invariants it needs are proved (`SingleCopy`, `OrderInv`, `MessagesKept`).
2. A composition of `Registry` with one `QueueRuntime` per queue, in place of the sets of copies.
3. Message ids chosen by senders.
