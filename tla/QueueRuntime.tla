---------------------------- MODULE QueueRuntime ----------------------------
(***************************************************************************)
(* One queue of the broker: internal/engine/queue_runtime.go with the ring *)
(* buffer, in-flight table, dead letter queue and consumer sessions it     *)
(* owns, and the part of the write-ahead log that concerns this queue.     *)
(*                                                                         *)
(* Processes: publishers (one Publish call per message), the distributor,  *)
(* the redelivery worker, the expiry worker, the subscription goroutines   *)
(* that drain a session's channel, and clients that acknowledge.  A method *)
(* that holds q.mu from start to end is one action.  A loop under q.mu is  *)
(* one action per iteration, with mu naming the goroutine that still holds *)
(* the lock.  Waiting on condProd and the gap between reserveDelivery and  *)
(* the send are where other goroutines get in, and are separate steps.     *)
(*                                                                         *)
(* Abstractions.  A message is [id, retry]; payload, routing data and      *)
(* timestamps are left out.  Ids and ack tokens are UUIDs, hence fresh.    *)
(* The log is represented by what Load would make of it (durable).  Time   *)
(* is two facts that only grow: which tokens are older than AckTimeout     *)
(* (those up to ackClock) and which messages are past their ExpiryAt       *)
(* (expired).                                                              *)
(***************************************************************************)
EXTENDS RingBuffer, Sequences, FiniteSets

CONSTANTS
  Msgs,          \* the messages that publishers offer, one Publish call each
  TTLMsgs,       \* those of them that are published with a ttl > 0
  Consumers,     \* consumer ids
  Sessions,      \* ConsumerSession objects, one per SubscribeRequest
  ConsumerOf,    \* the ID each session object carries
  NoId, NoConsumer, NoSession,
  QueueSize, MaxRetries, ConsumerPrefetch,      \* engine/config.go
  DeliveriesCap,                                \* capacity of sess.Deliveries
  \* Scenario bounds.
  MaxTokens,     \* reservations ever made
  MaxOverdue,    \* how far the ack clock may advance
  MaxWalFaults,  \* failed log appends
  MaxCrashes,    \* crashes, each followed by a restart
  Leavers,       \* sessions whose client unsubscribes or disconnects
  MayClose       \* whether the queue is shut down or deleted

Message == [id : Msgs \cup {NoId}, retry : Nat]

ASSUME ZeroAssumption == ZeroMessage = [id |-> NoId, retry |-> 0]
ASSUME ConfigAssumption ==
  /\ QueueSize \in Nat \ {0}
  /\ MaxRetries \in Nat
  /\ ConsumerPrefetch \in Nat
  /\ DeliveriesCap \in Nat
ASSUME NameAssumption ==
  /\ NoId \notin Msgs /\ NoConsumer \notin Consumers /\ NoSession \notin Sessions
  /\ ConsumerOf \in [Sessions -> Consumers]
  /\ TTLMsgs \subseteq Msgs

VARIABLES
  queue, inFlight, deadLetterQueue,                   \* where messages are
  consumerSessions, consumerOrder, nextConsumer,      \* the scheduler
  unackedCount, deliveries, sessClosed,               \* per session object
  notifyDistributor, closed,
  producedCount, ackedCount, deadletteredCount,       \* Metrics
  tokenOwners,            \* the broker's token table, for this queue
  mu, sweep,              \* holder of q.mu between steps; items left to sweep
  dist, held, target,     \* the distributor: pc, delivery, sess
  running, ctxDone,       \* the two ticker goroutines; the context
  pub,                    \* state of the Publish call of each message
  handler, handed,        \* subscription goroutines; tokens known to clients
  durable, lsn, walFaults,          \* the log
  tokens, ackClock, expired,        \* fresh tokens; time
  crashes,
  ackedIds, removedIds, cancels, carried     \* history, read by no action

store  == <<queue, inFlight, deadLetterQueue>>
counts == <<producedCount, ackedCount, deadletteredCount>>
log    == <<durable, lsn, walFaults>>
hist   == <<ackedIds, removedIds, cancels, carried>>
data   == <<store, counts, log, hist, tokenOwners, tokens>>
sched  == <<consumerSessions, consumerOrder, nextConsumer, unackedCount>>
conns  == <<deliveries, sessClosed, handler, handed>>
lock   == <<mu, sweep>>
distr  == <<dist, held, target>>
ctl    == <<lock, distr, notifyDistributor>>
life   == <<closed, running, ctxDone, crashes>>
clocks == <<ackClock, expired>>
env    == <<life, clocks>>

vars == <<data, sched, conns, ctl, env, pub>>

Delivery == [token : Nat, msg : Message, consumer : Consumers \cup {NoConsumer}]
NoDelivery == [token |-> 0, msg |-> ZeroMessage, consumer |-> NoConsumer]

-----------------------------------------------------------------------------
(* The write-ahead log, seen through Load. *)

\* removeMessage: every pending entry with this id goes.
Forget(id) == {e \in durable : e.msg.id # id}

AfterPublished(m) == durable \cup {[pos |-> lsn + 1, msg |-> m]}

\* Mutants of AfterRequeued: the old copy is not removed first; the new copy is
\* not added; the new copy takes the place of the old one.
AfterRequeuedKeepsOld(m) == durable \cup {[pos |-> lsn + 1, msg |-> m]}
AfterRequeuedDrops(m) == Forget(m.id)
AfterRequeuedInPlace(m) ==
  {IF e.msg.id = m.id THEN [pos |-> e.pos, msg |-> m] ELSE e : e \in durable}

AfterRequeued(m) == Forget(m.id) \cup {[pos |-> lsn + 1, msg |-> m]}

\* Append returned nil: the record is on disk.
Logged(after) == durable' = after /\ UNCHANGED walFaults

\* Append returned an error: the write failed, or it succeeded and Sync failed.
LogFailed(after) ==
  /\ walFaults < MaxWalFaults
  /\ walFaults' = walFaults + 1
  /\ durable' \in {durable, after}

\* An Acknowledged or DeadLettered record for id that did, or may have, reached
\* the log.
LogsRemoval(id) ==
  /\ Logged(Forget(id))
  /\ removedIds' = removedIds \cup {id}
  /\ UNCHANGED lsn
LogsRemovalFailed(id) ==
  /\ LogFailed(Forget(id))
  /\ removedIds' = IF durable' = durable THEN removedIds ELSE removedIds \cup {id}
  /\ UNCHANGED lsn

\* s lists the pending messages in the order Load returns them.
IsReplay(s) ==
  /\ \A i, j \in DOMAIN s : i < j => s[i].pos < s[j].pos
  /\ \A e \in durable : \E i \in DOMAIN s : s[i] = e

\* newQueueRuntime and NewQueueRuntime: a ring of max(QueueSize, n) slots into
\* which the n recovered messages are pushed.
Loaded(s) ==
  LET n == Len(s)
      cap == IF n > QueueSize THEN n ELSE QueueSize
  IN [items |-> [i \in 0 .. cap - 1 |-> IF i < n THEN s[i + 1].msg ELSE ZeroMessage],
      head |-> 0, tail |-> n % cap, size |-> n, cap |-> cap]

-----------------------------------------------------------------------------
(* Shared pieces of the methods. *)

Waiting(p) == {m \in Msgs : p[m] = "waiting"}

\* condProd.Signal, as the set of its possible outcomes, and condProd.Broadcast.
Signal(p) ==
  IF Waiting(p) = {} THEN {p}
  ELSE {[p EXCEPT ![m] = "woken"] : m \in Waiting(p)}

\* Mutant of Broadcast: Shutdown wakes nobody.
BroadcastNobody(p) == p

Broadcast(p) == [m \in Msgs |-> IF p[m] = "waiting" THEN "woken" ELSE p[m]]

Tokens == {d.token : d \in inFlight}
Registered(c) == consumerSessions[c] # NoSession

\* Mutant of Credit: the slot of a timed-out or acknowledged delivery is kept.
CreditNothing(c) == unackedCount

\* UnackedCount-- on the session registered under c, if there is one.
Credit(c) ==
  IF Registered(c)
  THEN [unackedCount EXCEPT ![consumerSessions[c]] = @ - 1]
  ELSE unackedCount

\* Mutant of IsEligible: one delivery too many.
IsEligibleAtLimit(c) == unackedCount[consumerSessions[c]] <= ConsumerPrefetch

\* session.IsEligible, for the session registered under c.
IsEligible(c) == unackedCount[consumerSessions[c]] < ConsumerPrefetch

\* The consumer j places after nextConsumer, and nextSession choosing it.
Candidate(j) == consumerOrder[((nextConsumer + j) % Len(consumerOrder)) + 1]
NextSession(j) ==
  /\ IsEligible(Candidate(j))
  /\ \A k \in 0 .. j - 1 : ~IsEligible(Candidate(k))
NoEligibleSession == \A j \in 0 .. Len(consumerOrder) - 1 : ~IsEligible(Candidate(j))

\* Mutant of Notify: the buffered send is forgotten.
NotifyNot == UNCHANGED notifyDistributor

\* The non-blocking send on notifyDistributor, a channel of capacity one.
Notify == notifyDistributor' = TRUE

HeadExpired == queue.size > 0 /\ Peek(queue).id \in expired

\* q.mu is free, or already ours because we are inside a loop.
Holds(p) == mu \in {"free", p}

Init ==
  /\ queue = NewRing(QueueSize) /\ inFlight = {} /\ deadLetterQueue = {}
  /\ consumerSessions = [c \in Consumers |-> NoSession]
  /\ consumerOrder = <<>> /\ nextConsumer = 0
  /\ unackedCount = [s \in Sessions |-> 0]
  /\ deliveries = [s \in Sessions |-> <<>>] /\ sessClosed = {}
  /\ handler = [s \in Sessions |-> "new"] /\ handed = {}
  /\ notifyDistributor = TRUE
  /\ closed = FALSE /\ running = {"redelivery", "expiry"} /\ ctxDone = FALSE
  /\ producedCount = 0 /\ ackedCount = 0 /\ deadletteredCount = 0
  /\ tokenOwners = {} /\ tokens = 0
  /\ mu = "free" /\ sweep = {}
  /\ dist = "top" /\ held = NoDelivery /\ target = NoSession
  /\ pub = [m \in Msgs |-> "new"]
  /\ durable = {} /\ lsn = 0 /\ walFaults = 0
  /\ ackClock = 0 /\ expired = {}
  /\ crashes = 0
  /\ ackedIds = {} /\ removedIds = {} /\ cancels = {}
  /\ carried = [s \in Sessions |-> {}]

-----------------------------------------------------------------------------
(* Publishers. *)

\* A publisher that holds q.mu: at the first call, or after condProd.Wait.
Entering(m) == mu = "free" /\ pub[m] \in {"new", "woken"}

\* Mutant of MustWait: an off-by-one lets one message too many in.
MustWaitOffByOne == ~closed /\ queue.size > queue.cap

MustWait == ~closed /\ Full(queue)

PublishWait(m) ==
  /\ Entering(m) /\ MustWait
  /\ pub' = [pub EXCEPT ![m] = "waiting"]
  /\ UNCHANGED <<data, sched, conns, ctl, env>>

PublishClosed(m) ==
  /\ Entering(m) /\ closed
  /\ pub' = [pub EXCEPT ![m] = "rejected"]
  /\ UNCHANGED <<data, sched, conns, ctl, env>>

PublishAccept(m) ==
  /\ Entering(m) /\ ~MustWait /\ ~closed
  /\ LET msg == [id |-> m, retry |-> 0]
     IN /\ Logged(AfterPublished(msg))
        /\ queue' = Push(queue, msg)
  /\ lsn' = lsn + 1
  /\ pub' = [pub EXCEPT ![m] = "accepted"]
  /\ producedCount' = producedCount + 1
  /\ Notify
  /\ UNCHANGED <<sched, conns, env, hist, lock, distr, inFlight,
                 deadLetterQueue, ackedCount, deadletteredCount, tokenOwners,
                 tokens>>

PublishLogError(m) ==
  /\ Entering(m) /\ ~MustWait /\ ~closed
  /\ LogFailed(AfterPublished([id |-> m, retry |-> 0]))
  /\ lsn' = lsn + 1
  /\ pub' = [pub EXCEPT ![m] = "rejected"]
  /\ UNCHANGED <<sched, conns, ctl, env, store, counts, hist, tokenOwners,
                 tokens>>

Publish(m) ==
  PublishWait(m) \/ PublishClosed(m) \/ PublishAccept(m) \/ PublishLogError(m)

-----------------------------------------------------------------------------
(* Acknowledgements.  Ack looks the token up in tokenOwners and then takes *)
(* q.mu; a token that has left inFlight never comes back, so the two steps *)
(* have the effect of one.                                                 *)

\* Mutant of AckEffect: the delivery stays in the in-flight table.
AckEffectKeeps(d) == UNCHANGED inFlight /\ ackedIds' = ackedIds \cup {d.msg.id}

AckEffect(d) == inFlight' = inFlight \ {d} /\ ackedIds' = ackedIds \cup {d.msg.id}

Ack(d) ==
  /\ mu = "free" /\ d.token \in handed \cap tokenOwners
  /\ LogsRemoval(d.msg.id)
  /\ AckEffect(d)
  /\ tokenOwners' = tokenOwners \ {d.token}
  /\ handed' = handed \ {d.token}
  /\ ackedCount' = ackedCount + 1
  /\ unackedCount' = Credit(d.consumer)
  /\ Notify
  /\ UNCHANGED <<env, lock, distr, queue, deadLetterQueue, consumerSessions,
                 consumerOrder, nextConsumer, deliveries, sessClosed, handler,
                 producedCount, deadletteredCount, cancels, carried, tokens,
                 pub>>

AckLogError(d) ==
  /\ mu = "free" /\ d.token \in handed \cap tokenOwners
  /\ LogsRemovalFailed(d.msg.id)
  /\ UNCHANGED <<sched, conns, ctl, env, store, counts, ackedIds, cancels,
                 carried, tokenOwners, tokens, pub>>

\* ErrInvalidAckToken: the broker does nothing and the client drops the token.
AckInvalid(t) ==
  /\ mu = "free" /\ t \in handed
  /\ t \notin tokenOwners \cap Tokens
  /\ handed' = handed \ {t}
  /\ UNCHANGED <<data, sched, ctl, env, deliveries, sessClosed, handler, pub>>

-----------------------------------------------------------------------------
(* Subscribers. *)

Outstanding(c) == {d \in inFlight : d.consumer = c}

Subscribe(s) ==
  LET c == ConsumerOf[s] IN
  /\ mu = "free" /\ handler[s] = "new" /\ ~closed
  /\ handler' = [handler EXCEPT ![s] = "active"]
  /\ IF Registered(c)
     THEN UNCHANGED <<consumerSessions, consumerOrder, notifyDistributor, carried>>
     ELSE /\ consumerSessions' = [consumerSessions EXCEPT ![c] = s]
          /\ consumerOrder' = Append(consumerOrder, c)
          /\ Notify
          /\ carried' = [carried EXCEPT ![s] = Outstanding(c)]
  /\ UNCHANGED <<env, store, counts, log, lock, distr, nextConsumer,
                 unackedCount, deliveries, sessClosed, handed, ackedIds,
                 removedIds, cancels, tokenOwners, tokens, pub>>

\* Mutant of Reindex: nextConsumer is not brought back into range.
ReindexNone(n) == nextConsumer

Reindex(n) == IF n = 0 THEN 0 ELSE nextConsumer % n

\* slices.DeleteFunc on an id that occurs once: SchedulerSound says it does.
DeleteAt(seq, k) == SubSeq(seq, 1, k - 1) \o SubSeq(seq, k + 1, Len(seq))

\* The subscription goroutine ends and unsubscribes its ID.  It is the ID that
\* is looked up: the session found there can be another object.
Unsubscribe(s) ==
  LET c == ConsumerOf[s] IN
  /\ mu = "free" /\ handler[s] = "active" /\ s \in Leavers
  /\ handler' = [handler EXCEPT ![s] = "gone"]
  /\ IF Registered(c)
     THEN /\ sessClosed' = sessClosed \cup {consumerSessions[c]}
          /\ consumerSessions' = [consumerSessions EXCEPT ![c] = NoSession]
          /\ \E k \in 1 .. Len(consumerOrder) :
               /\ consumerOrder[k] = c
               /\ consumerOrder' = DeleteAt(consumerOrder, k)
          /\ nextConsumer' = Reindex(Len(consumerOrder) - 1)
     ELSE UNCHANGED <<sessClosed, consumerSessions, consumerOrder, nextConsumer>>
  /\ UNCHANGED <<data, ctl, env, unackedCount, deliveries, handed, pub>>

\* The subscription goroutine takes a delivery and writes it to the client.
Receive(s) ==
  /\ handler[s] = "active" /\ deliveries[s] # <<>>
  /\ handed' = handed \cup {Head(deliveries[s]).token}
  /\ deliveries' = [deliveries EXCEPT ![s] = Tail(@)]
  /\ UNCHANGED <<data, sched, ctl, env, sessClosed, handler, pub>>

-----------------------------------------------------------------------------
(* deadLetterExpiredMessages: one iteration, by the distributor inside     *)
(* reserveDelivery or by the expiry worker.                                *)

\* Mutant of AtHead: only the distributor looks for expired messages.
AtHeadReserving(p) ==
  Holds(p) /\ HeadExpired /\ p = "distributor" /\ dist = "reserve"

\* The loop is entered, or entered again, by p.
AtHead(p) ==
  /\ Holds(p) /\ HeadExpired
  /\ \/ p = "distributor" /\ dist = "reserve"
     \/ p = "expiry" /\ "expiry" \in running

\* Mutant of FreesSlot: the publisher that waits for the slot is not woken.
FreesSlotSilently == UNCHANGED pub

\* A Pop is followed by condProd.Signal.
FreesSlot == pub' \in Signal(pub)

DeadLetterHead(p) ==
  /\ AtHead(p)
  /\ LogsRemoval(Peek(queue).id)
  /\ queue' = Pop(queue)
  /\ deadLetterQueue' = deadLetterQueue \cup {Peek(queue)}
  /\ deadletteredCount' = deadletteredCount + 1
  /\ FreesSlot
  /\ mu' = p
  /\ UNCHANGED <<sched, conns, env, distr, inFlight, producedCount, ackedCount,
                 sweep, notifyDistributor, ackedIds, cancels, carried,
                 tokenOwners, tokens>>

\* The error ends the loop; reserveDelivery turns it into "nothing to deliver".
DeadLetterLogError(p) ==
  /\ AtHead(p)
  /\ LogsRemovalFailed(Peek(queue).id)
  /\ mu' = "free"
  /\ dist' = IF p = "distributor" THEN "top" ELSE dist
  /\ UNCHANGED <<sched, conns, env, store, counts, sweep, held, target,
                 notifyDistributor, ackedIds, cancels, carried, tokenOwners,
                 tokens, pub>>

\* checkExpiredMessages returns: the head, if any, has not expired.
ExpirySweepEnds ==
  /\ mu = "expiry" /\ ~HeadExpired
  /\ mu' = "free"
  /\ UNCHANGED <<data, sched, conns, env, distr, sweep, notifyDistributor,
                 pub>>

-----------------------------------------------------------------------------
(* The distributor goroutine. *)

DistributorTop ==
  /\ dist = "top" /\ mu = "free"
  /\ dist' = IF closed THEN "exited" ELSE "select"
  /\ UNCHANGED <<data, sched, conns, env, lock, held, target,
                 notifyDistributor, pub>>

DistributorNotified ==
  /\ dist = "select" /\ notifyDistributor
  /\ notifyDistributor' = FALSE
  /\ dist' = "reserve"
  /\ UNCHANGED <<data, sched, conns, env, lock, held, target, pub>>

DistributorCancelled ==
  /\ dist = "select" /\ ctxDone
  /\ dist' = "exited"
  /\ UNCHANGED <<data, sched, conns, env, lock, held, target,
                 notifyDistributor, pub>>

\* reserveDelivery returns false.
ReserveNothing ==
  /\ dist = "reserve" /\ Holds("distributor") /\ ~HeadExpired
  /\ queue.size = 0 \/ (\A c \in Consumers : ~Registered(c)) \/ NoEligibleSession
  /\ mu' = "free"
  /\ dist' = "top"
  /\ UNCHANGED <<data, sched, conns, env, sweep, held, target,
                 notifyDistributor, pub>>

\* reserveDelivery pops the head for the next eligible session in the rotation.
ReserveDelivery ==
  /\ dist = "reserve" /\ Holds("distributor") /\ ~HeadExpired
  /\ queue.size > 0
  /\ tokens < MaxTokens
  /\ \E j \in 0 .. Len(consumerOrder) - 1 :
       LET c == Candidate(j)
           d == [token |-> tokens + 1, msg |-> Peek(queue), consumer |-> c]
       IN /\ NextSession(j)
          /\ nextConsumer' = (nextConsumer + j + 1) % Len(consumerOrder)
          /\ inFlight' = inFlight \cup {d}
          /\ held' = d
          /\ target' = consumerSessions[c]
          /\ unackedCount' = [unackedCount EXCEPT ![consumerSessions[c]] = @ + 1]
  /\ queue' = Pop(queue)
  /\ tokens' = tokens + 1
  /\ tokenOwners' = tokenOwners \cup {tokens + 1}
  /\ FreesSlot
  /\ dist' = "send"
  /\ mu' = "free"
  /\ UNCHANGED <<conns, env, counts, log, hist, deadLetterQueue,
                 consumerSessions, consumerOrder, sweep, notifyDistributor>>

\* The select: Closed and Deliveries may both be ready, and then either wins.
SendDelivery ==
  /\ dist = "send" /\ Len(deliveries[target]) < DeliveriesCap
  /\ deliveries' = [deliveries EXCEPT ![target] = Append(@, held)]
  /\ dist' = "reserve" /\ held' = NoDelivery /\ target' = NoSession
  /\ UNCHANGED <<data, sched, env, lock, sessClosed, handler, handed,
                 notifyDistributor, pub>>

SendRefused ==
  /\ dist = "send"
  /\ target \in sessClosed \/ Len(deliveries[target]) = DeliveriesCap
  /\ dist' = "cancel"
  /\ UNCHANGED <<data, sched, conns, env, lock, held, target,
                 notifyDistributor, pub>>

\* Mutant of ReleaseToken: the broker's table keeps the token.
ReleaseTokenNot(t) == tokenOwners

ReleaseToken(t) == tokenOwners \ {t}

\* cancelReservation: the message goes back to the tail whether or not the
\* token was still in flight, and whether or not there is room for it.
CancelReservation ==
  /\ dist = "cancel" /\ mu = "free"
  /\ inFlight' = {d \in inFlight : d.token # held.token}
  /\ unackedCount' = IF held.token \in Tokens THEN Credit(held.consumer)
                                              ELSE unackedCount
  /\ tokenOwners' = ReleaseToken(held.token)
  /\ queue' = Push(queue, held.msg)
  /\ pub' \in Signal(pub)
  /\ Notify
  /\ cancels' = cancels \cup {"cancelled"}
                  \cup (IF queue.size >= queue.cap THEN {"overrun"} ELSE {})
                  \cup (IF held.token \in Tokens THEN {} ELSE {"late"})
  /\ dist' = "reserve" /\ held' = NoDelivery /\ target' = NoSession
  /\ UNCHANGED <<conns, env, counts, log, lock, deadLetterQueue,
                 consumerSessions, consumerOrder, nextConsumer, ackedIds,
                 removedIds, carried, tokens>>

-----------------------------------------------------------------------------
(* The redelivery worker: processExpiredMessages. *)

\* Mutant of Overdue: the comparison is strict.
OverdueLate == {d \in inFlight : d.token < ackClock}

Overdue == {d \in inFlight : d.token <= ackClock}

\* A sweep that finds the queue full, or nothing overdue, changes nothing.
SweepBegin ==
  /\ "redelivery" \in running /\ mu = "free" /\ ~closed
  /\ Overdue # {} /\ ~Full(queue)
  /\ mu' = "redelivery"
  /\ sweep' = Overdue
  /\ UNCHANGED <<data, sched, conns, env, distr, notifyDistributor, pub>>

\* d is done with; the lock is released after the last item.
SweepNext(d) ==
  /\ sweep' = sweep \ {d}
  /\ mu' = IF sweep' = {} THEN "free" ELSE mu

SweepSkip(d) ==
  /\ Full(queue)
  /\ SweepNext(d)
  /\ UNCHANGED <<data, sched, conns, env, distr, notifyDistributor, pub>>

\* Mutant of RetriesSpent: one redelivery too many.
RetriesSpentLate(m) == m.retry > MaxRetries

RetriesSpent(m) == m.retry >= MaxRetries

SweepDeadLetter(d) ==
  /\ ~Full(queue) /\ RetriesSpent(d.msg)
  /\ LogsRemoval(d.msg.id)
  /\ deadLetterQueue' = deadLetterQueue \cup {d.msg}
  /\ inFlight' = inFlight \ {d}
  /\ tokenOwners' = tokenOwners \ {d.token}
  /\ deadletteredCount' = deadletteredCount + 1
  /\ unackedCount' = Credit(d.consumer)
  /\ SweepNext(d)
  /\ UNCHANGED <<conns, env, distr, queue, consumerSessions, consumerOrder,
                 nextConsumer, producedCount, ackedCount, notifyDistributor,
                 ackedIds, cancels, carried, tokens, pub>>

SweepRequeue(d) ==
  /\ ~Full(queue) /\ ~RetriesSpent(d.msg)
  /\ LET msg == [d.msg EXCEPT !.retry = @ + 1]
     IN /\ Logged(AfterRequeued(msg))
        /\ queue' = Push(queue, msg)
  /\ lsn' = lsn + 1
  /\ removedIds' = removedIds \ {d.msg.id}
  /\ inFlight' = inFlight \ {d}
  /\ tokenOwners' = tokenOwners \ {d.token}
  /\ unackedCount' = Credit(d.consumer)
  /\ Notify
  /\ SweepNext(d)
  /\ UNCHANGED <<conns, env, counts, distr, deadLetterQueue, consumerSessions,
                 consumerOrder, nextConsumer, ackedIds, cancels, carried,
                 tokens, pub>>

\* Either append fails: the item stays in flight for the next sweep.
SweepLogError(d) ==
  /\ ~Full(queue)
  /\ IF RetriesSpent(d.msg)
     THEN LogsRemovalFailed(d.msg.id)
     ELSE /\ LogFailed(AfterRequeued([d.msg EXCEPT !.retry = @ + 1]))
          /\ lsn' = lsn + 1
          /\ removedIds' = IF durable' = durable THEN removedIds
                                                 ELSE removedIds \ {d.msg.id}
  /\ SweepNext(d)
  /\ UNCHANGED <<sched, conns, env, store, counts, distr, notifyDistributor,
                 ackedIds, cancels, carried, tokenOwners, tokens, pub>>

SweepItem(d) ==
  /\ mu = "redelivery" /\ d \in sweep
  /\ SweepSkip(d) \/ SweepDeadLetter(d) \/ SweepRequeue(d) \/ SweepLogError(d)

-----------------------------------------------------------------------------
(* Shutdown, deletion, crash and restart. *)

\* What Shutdown and a successful CloseIfEmpty do under q.mu.
CloseRuntime ==
  /\ closed' = TRUE
  /\ sessClosed' = sessClosed \cup
       {consumerSessions[c] : c \in {x \in Consumers : Registered(x)}}
  /\ consumerSessions' = [c \in Consumers |-> NoSession]
  /\ consumerOrder' = <<>>
  /\ nextConsumer' = 0
  /\ pub' = Broadcast(pub)
  /\ UNCHANGED <<data, ctl, clocks, unackedCount, deliveries, handler, handed,
                 running, ctxDone, crashes>>

Shutdown == MayClose /\ mu = "free" /\ ~closed /\ CloseRuntime

\* InMemoryBroker.DeleteQueue closes a queue only in this way.
CloseIfEmpty ==
  /\ MayClose /\ mu = "free" /\ ~closed
  /\ queue.size = 0 /\ inFlight = {}
  /\ CloseRuntime

\* The process context ends (signal), or the broker's cancel() is called.
CancelContext ==
  /\ MayClose /\ ~ctxDone
  /\ ctxDone' = TRUE
  /\ UNCHANGED <<data, sched, conns, ctl, clocks, closed, running, crashes,
                 pub>>

\* The broker drops the queue's tokens once the runtime is closed.
ReleaseTokens ==
  /\ closed /\ tokenOwners # {}
  /\ tokenOwners' = {}
  /\ UNCHANGED <<sched, conns, ctl, env, store, counts, log, hist, tokens,
                 pub>>

\* A ticker goroutine sees closed or ctx.Done between two sweeps.
WorkerExit(w) ==
  /\ w \in running /\ mu # w
  /\ closed \/ ctxDone
  /\ running' = running \ {w}
  /\ UNCHANGED <<data, sched, conns, ctl, clocks, closed, ctxDone, crashes,
                 pub>>

\* The process dies between any two steps and is started again on its log.
\* Clients keep the tokens they know; a Publish in progress ends in an error.
CrashRestart ==
  /\ crashes < MaxCrashes
  /\ crashes' = crashes + 1
  /\ \E n \in 0 .. Cardinality(durable) : \E s \in [1 .. n -> durable] :
       /\ IsReplay(s)
       /\ queue' = Loaded(s)
       /\ producedCount' = Len(s)
  /\ inFlight' = {} /\ deadLetterQueue' = {}
  /\ ackedCount' = 0 /\ deadletteredCount' = 0
  /\ consumerSessions' = [c \in Consumers |-> NoSession]
  /\ consumerOrder' = <<>> /\ nextConsumer' = 0
  /\ deliveries' = [s \in Sessions |-> <<>>]
  /\ handler' = [s \in Sessions |-> IF handler[s] = "active" THEN "gone"
                                                             ELSE handler[s]]
  /\ notifyDistributor' = TRUE
  /\ closed' = FALSE /\ running' = {"redelivery", "expiry"} /\ ctxDone' = FALSE
  /\ tokenOwners' = {}
  /\ mu' = "free" /\ sweep' = {}
  /\ dist' = "top" /\ held' = NoDelivery /\ target' = NoSession
  /\ pub' = [m \in Msgs |-> IF pub[m] \in {"waiting", "woken"} THEN "rejected"
                                                              ELSE pub[m]]
  /\ UNCHANGED <<log, hist, clocks, unackedCount, sessClosed, handed, tokens>>

-----------------------------------------------------------------------------
(* Time. *)

AckTimeoutPasses ==
  /\ ackClock < tokens /\ ackClock < MaxOverdue
  /\ ackClock' = ackClock + 1
  /\ UNCHANGED <<data, sched, conns, ctl, life, expired, pub>>

TTLPasses(m) ==
  /\ m \in TTLMsgs \ expired /\ pub[m] \in {"accepted", "rejected"}
  /\ expired' = expired \cup {m}
  /\ UNCHANGED <<data, sched, conns, ctl, life, ackClock, pub>>

-----------------------------------------------------------------------------
Distributor ==
  \/ DistributorTop \/ DistributorNotified \/ DistributorCancelled
  \/ DeadLetterHead("distributor") \/ DeadLetterLogError("distributor")
  \/ ReserveNothing \/ ReserveDelivery
  \/ SendDelivery \/ SendRefused \/ CancelReservation

RedeliveryWorker ==
  SweepBegin \/ (\E d \in sweep : SweepItem(d)) \/ WorkerExit("redelivery")

ExpiryWorker ==
  \/ DeadLetterHead("expiry") \/ DeadLetterLogError("expiry")
  \/ ExpirySweepEnds \/ WorkerExit("expiry")

Next ==
  \/ \E m \in Msgs : Publish(m) \/ TTLPasses(m)
  \/ \E d \in inFlight : Ack(d) \/ AckLogError(d)
  \/ \E t \in handed : AckInvalid(t)
  \/ \E s \in Sessions : Subscribe(s) \/ Unsubscribe(s) \/ Receive(s)
  \/ Distributor \/ RedeliveryWorker \/ ExpiryWorker
  \/ Shutdown \/ CloseIfEmpty \/ CancelContext \/ ReleaseTokens
  \/ CrashRestart \/ AckTimeoutPasses

Spec == Init /\ [][Next]_vars

\* Goroutines run, clients read, time passes.  Nothing obliges a client to
\* acknowledge, to subscribe or to leave.
Fairness ==
  /\ WF_vars(Distributor) /\ WF_vars(RedeliveryWorker) /\ WF_vars(ExpiryWorker)
  /\ \A m \in Msgs : WF_vars(pub[m] = "woken" /\ Publish(m)) /\ WF_vars(TTLPasses(m))
  /\ \A s \in Sessions : WF_vars(Receive(s))
  /\ WF_vars(AckTimeoutPasses)

FairSpec == Spec /\ Fairness

\* In addition every client acknowledges what it has been handed.
AckingSpec ==
  FairSpec /\ WF_vars(\E d \in inFlight : Ack(d))

-----------------------------------------------------------------------------
(* Properties. *)

PubStates == {"new", "waiting", "woken", "accepted", "rejected"}
Entries == [pos : Nat, msg : Message]

\* Every variable has its type.  For the ring this includes that head and tail
\* stay inside the slice.
TypeOK ==
  /\ IsRing(queue, Message)
  /\ inFlight \subseteq [token : 1 .. tokens, msg : Message, consumer : Consumers]
  /\ deadLetterQueue \subseteq Message
  /\ producedCount \in Nat /\ ackedCount \in Nat /\ deadletteredCount \in Nat
  /\ tokens \in Nat /\ tokenOwners \subseteq 1 .. tokens
  /\ durable \subseteq Entries /\ lsn \in Nat /\ walFaults \in Nat
  /\ consumerSessions \in [Consumers -> Sessions \cup {NoSession}]
  /\ consumerOrder \in Seq(Consumers) /\ nextConsumer \in Nat
  /\ unackedCount \in [Sessions -> Int]
  /\ deliveries \in [Sessions -> Seq(Delivery)] /\ sessClosed \subseteq Sessions
  /\ handler \in [Sessions -> {"new", "active", "gone"}] /\ handed \subseteq Nat
  /\ mu \in {"free", "distributor", "redelivery", "expiry"} /\ sweep \subseteq inFlight
  /\ dist \in {"top", "select", "reserve", "send", "cancel", "exited"}
  /\ held \in Delivery /\ target \in Sessions \cup {NoSession}
  /\ dist \in {"send", "cancel"} => target \in Sessions /\ held.consumer \in Consumers
  /\ notifyDistributor \in BOOLEAN /\ closed \in BOOLEAN /\ ctxDone \in BOOLEAN
  /\ running \subseteq {"redelivery", "expiry"} /\ crashes \in Nat
  /\ ackClock \in Nat /\ expired \subseteq Msgs
  /\ pub \in [Msgs -> PubStates]
  /\ ackedIds \subseteq Msgs \cup {NoId} /\ removedIds \subseteq Msgs \cup {NoId}
  /\ cancels \subseteq {"cancelled", "overrun", "late"}
  /\ carried \in [Sessions -> SUBSET Delivery]

\* The messages the process still has.
QueueIds == {queue.items[i].id : i \in DOMAIN queue.items}
HeldIds == QueueIds \cup {d.msg.id : d \in inFlight}
DurableIds == {e.msg.id : e \in durable}
Accepted == {m \in Msgs : pub[m] = "accepted"}

\* nextSession never indexes outside consumerOrder and never dereferences a
\* missing session: the rotation lists exactly the registered ids, each once,
\* and nextConsumer points into it.  Subscribe, Unsubscribe, Shutdown and
\* CloseIfEmpty each maintain the two collections and the index by hand.
SchedulerSound ==
  /\ \A c \in Consumers : Registered(c) <=> \E i \in DOMAIN consumerOrder : consumerOrder[i] = c
  /\ \A i, j \in DOMAIN consumerOrder : consumerOrder[i] = consumerOrder[j] => i = j
  /\ nextConsumer = 0 \/ nextConsumer < Len(consumerOrder)
  /\ \A c \in Consumers : Registered(c) => ConsumerOf[consumerSessions[c]] = c

\* The prefetch counter of a registered session is the number of deliveries in
\* flight under its id, less those that the id already had in flight when the
\* session subscribed.  Four methods adjust the counter, each by looking the id
\* up again.
PrefetchAccounting ==
  \A c \in Consumers : Registered(c) =>
    LET s == consumerSessions[c]
    IN unackedCount[s] + Cardinality(carried[s]) = Cardinality(Outstanding(c))

\* Hence ConsumerPrefetch bounds what one consumer has outstanding, apart from
\* what it carried over from an earlier session.
PrefetchBound ==
  \A c \in Consumers : Registered(c) =>
    Cardinality(Outstanding(c))
      <= ConsumerPrefetch + Cardinality(carried[consumerSessions[c]])

\* A message whose Publish returned nil is queued, in flight, acknowledged or in
\* the dead letter queue, through every interleaving of redelivery, expiry,
\* cancellation and restart, unless cancelReservation pushed into a full ring.
\* The dead letter queue itself is memory only, so after a restart a message
\* whose removal was logged counts as settled; so does one whose removal was
\* logged by an append that then reported an error.
NoMessageLost ==
  "overrun" \in cancels \/
  \A m \in Accepted :
    \/ m \in HeldIds
    \/ m \in ackedIds
    \/ m \in {x.id : x \in deadLetterQueue}
    \/ (crashes > 0 \/ walFaults > 0) /\ m \in removedIds

\* The log alone always suffices: an accepted message that no removal record
\* covers would be recovered by Load at this very moment.
LogKeepsAccepted == Accepted \subseteq DurableIds \cup removedIds

\* As long as no append failed and no cancellation overran the ring or came
\* late, recovery would rebuild exactly the messages in memory, each with the
\* retry count it has now: what is logged is neither ahead nor behind.
LogMatchesMemory ==
  (walFaults = 0 /\ cancels \cap {"overrun", "late"} = {}) =>
    {e.msg : e \in durable} =
      ({queue.items[i] : i \in DOMAIN queue.items} \ {ZeroMessage})
        \cup {d.msg : d \in inFlight}

\* The ring is in log order: messages leave the queue in the order in which a
\* restart would put them back.  Only a cancelled reservation, which re-enters
\* at the tail without a record, disturbs it.
QueueInLogOrder ==
  (walFaults = 0 /\ cancels = {}) =>
    LET q == Contents(queue)
    IN \A i, j \in DOMAIN q : i < j =>
         \A e, f \in durable : (e.msg = q[i] /\ f.msg = q[j]) => e.pos < f.pos

\* Once Ack returned nil for a message it is neither queued nor in flight and
\* would not be recovered, so it is never delivered again, unless a cancellation
\* came after the redelivery worker had already taken the token away.
AckedIsFinal ==
  "late" \in cancels \/ ackedIds \cap Msgs \cap (HeldIds \cup DurableIds) = {}

\* Metrics() adds up under q.mu: what was produced is acknowledged, dead,
\* in flight or queued.  (Holds for the numbers even when the ring is overrun.)
MetricsBalance ==
  "late" \in cancels \/
  producedCount = ackedCount + deadletteredCount + Cardinality(inFlight) + queue.size

\* No copy of a message is ever retried beyond MaxRetries, wherever it is.
RetriesBounded ==
  /\ \A i \in DOMAIN queue.items : queue.items[i].retry <= MaxRetries
  /\ \A d \in inFlight : d.msg.retry <= MaxRetries
  /\ \A e \in durable : e.msg.retry <= MaxRetries

\* The broker's token table and the in-flight table agree while the queue is
\* open, so Ack finds an owner exactly for the deliveries that can be acked, and
\* no removed token leaks.
TokensAgree == tokenOwners \subseteq Tokens /\ (closed \/ Tokens \subseteq tokenOwners)

\* No lost wakeup on condProd: while a publisher sleeps, every vacant slot has a
\* woken publisher on its way to it, as long as no publisher's append failed.
WakeupsCover ==
  (walFaults = 0 /\ Waiting(pub) # {}) =>
    /\ ~closed
    /\ queue.cap - queue.size <= Cardinality({m \in Msgs : pub[m] = "woken"})

-----------------------------------------------------------------------------
(* Progress. *)

Subscribed == \E c \in Consumers : Registered(c)

\* Nothing is said of a behaviour that uses up the bound on reservations.
WithinBounds == tokens < MaxTokens

\* If from some point on there is always a subscriber and clients acknowledge
\* what they are handed, no Publish call blocks forever: no condProd.Signal goes
\* missing between the Pop that frees a slot and the publisher it is meant for.
PublishersReturn ==
  (<>[]Subscribed /\ []WithinBounds) =>
    \A m \in Msgs : pub[m] = "waiting" ~> pub[m] \in {"accepted", "rejected"}

\* The distributor is on its way to sleep or asleep, no notification waits for
\* it, and reserveDelivery would find a message and a session for it.
Overlooked ==
  /\ dist \in {"top", "select"} /\ ~notifyDistributor /\ ~closed
  /\ queue.size > 0 /\ ~HeadExpired
  /\ \E c \in Consumers : Registered(c) /\ IsEligible(c)

\* Every step that makes a delivery possible notifies the distributor, with two
\* exceptions: the dead letter branch of processExpiredMessages frees a prefetch
\* slot in silence, and a failed append makes reserveDelivery give up.
Notified ==
  [][Overlooked' => \/ Overlooked \/ walFaults > 0
                    \/ \E d \in sweep : SweepDeadLetter(d)]_vars

\* Under the same conditions every accepted message is acknowledged or
\* dead-lettered, and neither a timeout nor a cancellation leaves it where nobody
\* looks for it, unless the distributor is left asleep for good or a cancelled
\* reservation overran the ring.  The distributor is left asleep by the dead
\* letter branch of processExpiredMessages only, when no append fails.
AllSettled ==
  /\ Notified
  /\ (<>[]Subscribed /\ []<>~Overlooked /\ [](WithinBounds /\ "overrun" \notin cancels)) =>
       \A m \in Msgs : pub[m] = "accepted" ~> m \in ackedIds \cup removedIds

\* After Shutdown and cancel() the three goroutines of the queue end, as the
\* broker's wg.Wait expects, and no publisher is left asleep.
ShutdownCompletes ==
  (closed /\ ctxDone) ~>
    (dist = "exited" /\ running = {} /\ \A m \in Msgs : pub[m] # "waiting")

\* Neither shut down nor cancelled.
Open == ~closed /\ ~ctxDone

\* A delivery past its AckTimeout leaves the in-flight table, whether or not its
\* session is still there, if the queue is full only for a while: a sweep skips
\* everything when it finds the queue full.
OverdueHandled ==
  <>[](Open /\ ~Full(queue)) =>
    \A t \in 1 .. MaxTokens : []<>~(t <= ackClock /\ t \in Tokens)

\* An expired message does not stay at the head of the queue, with or without a
\* consumer.  One that is not at the head has to wait for those before it.
ExpiredHeadCleared == <>[]Open => []<>~HeadExpired

-----------------------------------------------------------------------------
(* What the documentation says of the queue, without the exceptions made   *)
(* above.                                                                  *)

\* docs/index.html: "Delivered messages are tracked in flight until a consumer
\* acknowledges them. Nothing is silently lost."
NothingSilentlyLost ==
  \A m \in Accepted :
    m \in HeldIds \cup ackedIds \cup {x.id : x \in deadLetterQueue}

\* docs/sdk.html: an acknowledged message is taken out of the in-flight registry
\* and the broker "never redelivers that message".
AckedNeverRedelivered ==
  [][\A d \in inFlight' \ inFlight : d.msg.id \notin ackedIds]_vars
=============================================================================
