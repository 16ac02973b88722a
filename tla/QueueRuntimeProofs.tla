------------------------- MODULE QueueRuntimeProofs -------------------------
(***************************************************************************)
(* Proofs about QueueRuntime, for any number of messages, consumers and    *)
(* sessions and every configuration: its types and its scheduler, which    *)
(* make up the invariant Base on which the other proofs about the queue    *)
(* rest; the lemmas about the steps that they share; and from these the    *)
(* durability of what was accepted, the tables of tokens and the retries.  *)
(***************************************************************************)
EXTENDS QueueRuntime, TLAPS

\* A step that names no prover is given more time than the default.
USE SMTT(30), ZenonT(30)

-----------------------------------------------------------------------------
(* What Push and Pop preserve, for every capacity and every message set.   *)

\* The index arithmetic of Push and Pop: one step forward, wrapping at cap.
LEMMA AdvanceStep ==
  ASSUME NEW cap \in Nat \ {0}, NEW i \in 0 .. cap - 1
  PROVE  /\ Advance(i, cap) = IF i + 1 = cap THEN 0 ELSE i + 1
         /\ Advance(i, cap) \in 0 .. cap - 1
<1>1. CASE i + 1 = cap
  BY <1>1 DEF Advance
<1>2. CASE i + 1 < cap
  BY <1>2 DEF Advance
<1> QED
  BY <1>1, <1>2

\* An empty ring is a coherent ring.
LEMMA NewRingType ==
  ASSUME NEW V, ZeroMessage \in V, NEW cap \in Nat \ {0}
  PROVE  IsRing(NewRing(cap), V) /\ Coherent(NewRing(cap))
BY DEF NewRing, IsRing, Coherent, Offset

\* Push keeps head and tail inside the slice, full ring or not.
LEMMA PushType ==
  ASSUME NEW V, NEW r, IsRing(r, V), NEW m \in V
  PROVE  /\ IsRing(Push(r, m), V)
         /\ Push(r, m).size = r.size + 1
         /\ Push(r, m).cap = r.cap
         /\ Push(r, m).head = r.head
         /\ Push(r, m).tail = Advance(r.tail, r.cap)
         /\ Push(r, m).items = [r.items EXCEPT ![r.tail] = m]
<1>1. Advance(r.tail, r.cap) \in 0 .. r.cap - 1
  BY ZenonT(30), AdvanceStep DEF IsRing
<1> QED
  BY <1>1 DEF IsRing, Push

\* So does Pop, on a ring that is not empty.
LEMMA PopType ==
  ASSUME NEW V, ZeroMessage \in V, NEW r, IsRing(r, V), r.size > 0
  PROVE  /\ IsRing(Pop(r), V)
         /\ Pop(r).size = r.size - 1
         /\ Pop(r).cap = r.cap
         /\ Pop(r).tail = r.tail
         /\ Pop(r).head = Advance(r.head, r.cap)
         /\ Pop(r).items = [r.items EXCEPT ![r.head] = ZeroMessage]
<1>1. Advance(r.head, r.cap) \in 0 .. r.cap - 1
  BY ZenonT(30), AdvanceStep DEF IsRing
<1> QED
  BY <1>1 DEF IsRing, Pop

\* Peek returns a message of V.
LEMMA PeekType ==
  ASSUME NEW V, NEW r, IsRing(r, V)
  PROVE  Peek(r) \in V
BY ZenonT(30) DEF IsRing, Peek

-----------------------------------------------------------------------------
(* The queue. *)

USE DEF vars, data, store, counts, log, hist, sched, conns, ctl, lock, distr,
        env, life, clocks, Notify

\* The zero message is a message.
LEMMA ZeroIsMessage == ZeroMessage \in Message /\ NoDelivery \in Delivery
BY ZenonT(30), ZeroAssumption DEF Message, Delivery, NoDelivery

\* What Signal and Broadcast may do to the Publish calls.
LEMMA SignalType ==
  ASSUME NEW p \in [Msgs -> PubStates]
  PROVE  /\ \A q \in Signal(p) : q \in [Msgs -> PubStates]
         /\ Broadcast(p) \in [Msgs -> PubStates]
BY ZenonT(30) DEF Signal, Broadcast, Waiting, PubStates

\* The remainder is in range.
LEMMA ModRange ==
  ASSUME NEW a \in Nat, NEW b \in Nat \ {0}
  PROVE  a % b \in 0 .. b - 1
OBVIOUS

\* UnackedCount stays an integer.
LEMMA CreditType ==
  ASSUME TypeOK, NEW c \in Consumers
  PROVE  Credit(c) \in [Sessions -> Int]
BY DEF TypeOK, Credit, Registered

\* The ring a restart builds is coherent and holds every durable message.
LEMMA LoadedType ==
  ASSUME TypeOK, NEW n \in Nat, NEW s \in [1 .. n -> durable]
  PROVE  /\ IsRing(Loaded(s), Message)
         /\ Len(s) = n /\ Len(s) \in Nat
         /\ Loaded(s).size = Len(s)
         /\ Len(s) <= Loaded(s).cap
<1> DEFINE cap == IF n > QueueSize THEN n ELSE QueueSize
<1>1. n \in Nat
  BY ZenonT(30)
<1>2. Len(s) = n
  BY <1>1
<1>3. cap \in Nat \ {0} /\ n <= cap
  BY <1>1, ConfigAssumption
<1>4. n % cap \in 0 .. cap - 1
  BY ZenonT(30), <1>1, <1>3, ModRange
<1>5. ASSUME NEW i \in 0 .. cap - 1, i < n
      PROVE  s[i + 1].msg \in Message
  <2>1. i + 1 \in 1 .. n
    BY <1>1, <1>3, <1>5
  <2>2. s[i + 1] \in durable /\ durable \subseteq Entries
    BY ZenonT(30), <2>1 DEF TypeOK
  <2> QED
    BY ZenonT(30), <2>2 DEF Entries
<1>6. [i \in 0 .. cap - 1 |-> IF i < n THEN s[i + 1].msg ELSE ZeroMessage]
        \in [0 .. cap - 1 -> Message]
  BY ZenonT(30), <1>5, ZeroIsMessage
<1>7. Loaded(s) = [items |-> [i \in 0 .. cap - 1 |-> IF i < n THEN s[i + 1].msg ELSE ZeroMessage],
                   head |-> 0, tail |-> n % cap, size |-> n, cap |-> cap]
  BY ZenonT(30), <1>2 DEF Loaded
<1> QED
  BY <1>1, <1>2, <1>3, <1>4, <1>6, <1>7 DEF IsRing

-----------------------------------------------------------------------------
(* Type correctness.  The rotation and the lock take part: target is a     *)
(* session because the rotation only lists registered ids, and the sweep   *)
(* stays inside inFlight because nobody else holds q.mu meanwhile.         *)

\* Exactly the redelivery worker has items to sweep.
LockSound == mu = "redelivery" <=> sweep # {}

\* The invariant on which every other proof about the queue rests.
Base == TypeOK /\ SchedulerSound /\ LockSound

-----------------------------------------------------------------------------
(* TypeOK in seven parts.  An action disturbs a few of them; each of the   *)
(* others follows from the variables it reads being unchanged.             *)

\* The ring, the deliveries in flight, the dead letters, the tokens.
StoreType ==
  /\ IsRing(queue, Message)
  /\ inFlight \subseteq [token : 1 .. tokens, msg : Message, consumer : Consumers]
  /\ deadLetterQueue \subseteq Message
  /\ tokens \in Nat /\ tokenOwners \subseteq 1 .. tokens /\ sweep \subseteq inFlight

\* The counters of Metrics and the log.
LogType ==
  /\ producedCount \in Nat /\ ackedCount \in Nat /\ deadletteredCount \in Nat
  /\ durable \subseteq Entries /\ lsn \in Nat /\ walFaults \in Nat

\* The registered sessions and the rotation.
SchedType ==
  /\ consumerSessions \in [Consumers -> Sessions \cup {NoSession}]
  /\ consumerOrder \in Seq(Consumers) /\ nextConsumer \in Nat
  /\ unackedCount \in [Sessions -> Int]

\* The channels of the sessions and the goroutines that read them.
ConnsType ==
  /\ deliveries \in [Sessions -> Seq(Delivery)] /\ sessClosed \subseteq Sessions
  /\ handler \in [Sessions -> {"new", "active", "gone"}] /\ handed \subseteq Nat

\* The lock and the distributor.
CtlType ==
  /\ mu \in {"free", "distributor", "redelivery", "expiry"}
  /\ dist \in {"top", "select", "reserve", "send", "cancel", "exited"}
  /\ held \in Delivery /\ target \in Sessions \cup {NoSession}
  /\ dist \in {"send", "cancel"} => target \in Sessions /\ held.consumer \in Consumers
  /\ notifyDistributor \in BOOLEAN

\* Shutdown, crashes and time.
LifeType ==
  /\ closed \in BOOLEAN /\ ctxDone \in BOOLEAN
  /\ running \subseteq {"redelivery", "expiry"} /\ crashes \in Nat
  /\ ackClock \in Nat /\ expired \subseteq Msgs

\* The calls of Publish and the history.
HistType ==
  /\ pub \in [Msgs -> PubStates]
  /\ ackedIds \subseteq Msgs \cup {NoId} /\ removedIds \subseteq Msgs \cup {NoId}
  /\ cancels \subseteq {"cancelled", "overrun", "late"}
  /\ carried \in [Sessions -> SUBSET Delivery]

\* A well-typed state has every part.
LEMMA TypeParts ==
  ASSUME Base
  PROVE  /\ StoreType /\ LogType /\ SchedType /\ ConnsType /\ CtlType /\ LifeType
         /\ HistType
<1>1. StoreType
  BY ZenonT(30) DEF Base, TypeOK, StoreType
<1>2. LogType
  BY ZenonT(30) DEF Base, TypeOK, LogType
<1>3. SchedType
  BY ZenonT(30) DEF Base, TypeOK, SchedType
<1>4. ConnsType
  BY ZenonT(30) DEF Base, TypeOK, ConnsType
<1>5. CtlType
  BY ZenonT(30) DEF Base, TypeOK, CtlType
<1>6. LifeType
  BY ZenonT(30) DEF Base, TypeOK, LifeType
<1>7. HistType
  BY ZenonT(30) DEF Base, TypeOK, HistType
<1> QED
  BY ZenonT(30), <1>1, <1>2, <1>3, <1>4, <1>5, <1>6, <1>7

\* A step ends well typed when each part of TypeOK is re-established or has its
\* variables unchanged.
LEMMA TypeWhole ==
  ASSUME Base,
         StoreType' \/ UNCHANGED <<store, tokens, tokenOwners, sweep>>,
         LogType' \/ UNCHANGED <<counts, log>>,
         SchedType' \/ UNCHANGED sched,
         ConnsType' \/ UNCHANGED conns,
         CtlType' \/ UNCHANGED <<mu, distr, notifyDistributor>>,
         LifeType' \/ UNCHANGED env,
         HistType' \/ UNCHANGED <<hist, pub>>
  PROVE  TypeOK'
<1>1. StoreType'
  BY ZenonT(30), TypeParts DEF StoreType
<1>2. LogType'
  BY ZenonT(30), TypeParts DEF LogType
<1>3. SchedType'
  BY ZenonT(30), TypeParts DEF SchedType
<1>4. ConnsType'
  BY ZenonT(30), TypeParts DEF ConnsType
<1>5. CtlType'
  BY ZenonT(30), TypeParts DEF CtlType
<1>6. LifeType'
  BY ZenonT(30), TypeParts DEF LifeType
<1>7. HistType'
  BY ZenonT(30), TypeParts DEF HistType
<1> QED
  BY ZenonT(30), <1>1, <1>2, <1>3, <1>4, <1>5, <1>6, <1>7
     DEF TypeOK, StoreType, LogType, SchedType, ConnsType, CtlType, LifeType, HistType

-----------------------------------------------------------------------------
\* The consumer that nextSession looks at is in the rotation and registered.
LEMMA CandidateRegistered ==
  ASSUME TypeOK, SchedulerSound, NEW j \in 0 .. Len(consumerOrder) - 1
  PROVE  /\ Candidate(j) \in Consumers
         /\ consumerSessions[Candidate(j)] \in Sessions
         /\ Len(consumerOrder) \in Nat \ {0}
         /\ (nextConsumer + j + 1) % Len(consumerOrder) \in 0 .. Len(consumerOrder) - 1
<1>1. /\ Len(consumerOrder) \in Nat \ {0} /\ nextConsumer \in Nat
      /\ consumerOrder \in Seq(Consumers)
  BY DEF TypeOK
<1>2. /\ (nextConsumer + j) % Len(consumerOrder) \in 0 .. Len(consumerOrder) - 1
      /\ (nextConsumer + j + 1) % Len(consumerOrder) \in 0 .. Len(consumerOrder) - 1
  <2>1. nextConsumer + j \in Nat /\ nextConsumer + j + 1 \in Nat
    BY <1>1
  <2> QED
    BY ZenonT(30), <2>1, <1>1, ModRange
<1>3. ((nextConsumer + j) % Len(consumerOrder)) + 1 \in DOMAIN consumerOrder
  BY <1>1, <1>2
<1>4. Candidate(j) \in Consumers
  BY <1>1, <1>3 DEF Candidate
<1>5. Registered(Candidate(j))
  BY ZenonT(30), <1>3, <1>4 DEF SchedulerSound, Candidate
<1> QED
  BY ZenonT(30), <1>1, <1>2, <1>4, <1>5 DEF TypeOK, Registered

\* The initial state is well typed: the ring is empty and every table is.
LEMMA TypeInit == Init => TypeOK
<1> SUFFICES ASSUME Init PROVE TypeOK
  BY ZenonT(30)
<1>1. IsRing(queue, Message)
  BY ZenonT(30), NewRingType, ZeroIsMessage, ConfigAssumption DEF Init
<1>2. consumerOrder \in Seq(Consumers) /\ deliveries \in [Sessions -> Seq(Delivery)]
  BY DEF Init
<1>3. /\ inFlight = {} /\ deadLetterQueue = {} /\ durable = {} /\ tokenOwners = {}
      /\ sweep = {} /\ handed = {} /\ expired = {} /\ ackedIds = {} /\ removedIds = {}
      /\ cancels = {} /\ sessClosed = {} /\ carried \in [Sessions -> SUBSET Delivery]
  BY ZenonT(30) DEF Init
<1>4. notifyDistributor \in BOOLEAN /\ closed \in BOOLEAN /\ ctxDone \in BOOLEAN
  BY ZenonT(30) DEF Init
<1>5. /\ producedCount = 0 /\ ackedCount = 0 /\ deadletteredCount = 0 /\ tokens = 0
      /\ lsn = 0 /\ walFaults = 0 /\ nextConsumer = 0 /\ crashes = 0 /\ ackClock = 0
      /\ unackedCount \in [Sessions -> Int] /\ pub \in [Msgs -> PubStates]
      /\ consumerSessions \in [Consumers -> Sessions \cup {NoSession}]
      /\ handler \in [Sessions -> {"new", "active", "gone"}]
  BY DEF Init, PubStates
<1>6. /\ mu = "free" /\ dist = "top" /\ held = NoDelivery /\ target = NoSession
      /\ running = {"redelivery", "expiry"}
  BY ZenonT(30) DEF Init
<1> QED
  BY ZenonT(30), <1>1, <1>2, <1>3, <1>4, <1>5, <1>6, ZeroIsMessage DEF TypeOK

\* Publish, waiting or storing, keeps the types; the Push finds room.
LEMMA PublishType ==
  ASSUME Base, NEW m \in Msgs, Publish(m)
  PROVE  TypeOK'
<1> DEFINE msg == [id |-> m, retry |-> 0]
<1>1. msg \in Message /\ IsRing(Push(queue, msg), Message)
  <2>1. msg \in Message
    BY ZenonT(30) DEF Message
  <2>2. IsRing(queue, Message)
    BY ZenonT(30), TypeParts DEF StoreType
  <2> QED
    BY ZenonT(30), <2>1, <2>2, PushType
<1>2. AfterPublished(msg) \subseteq Entries
  BY <1>1, TypeParts DEF LogType, AfterPublished, Entries
<1>3. CASE PublishWait(m)
  <2>1. HistType'
    BY ZenonT(30), <1>3, TypeParts DEF HistType, PublishWait, PubStates
  <2> QED
    BY ZenonT(30), <1>3, <2>1, TypeWhole DEF PublishWait
<1>4. CASE PublishClosed(m)
  <2>1. HistType'
    BY ZenonT(30), <1>4, TypeParts DEF HistType, PublishClosed, PubStates
  <2> QED
    BY ZenonT(30), <1>4, <2>1, TypeWhole DEF PublishClosed
<1>5. CASE PublishAccept(m)
  <2>1. HistType'
    BY ZenonT(30), <1>5, TypeParts DEF HistType, PublishAccept, PubStates
  <2>2. LogType'
    BY <1>2, <1>5, TypeParts DEF LogType, PublishAccept, Logged
  <2>3. StoreType'
    BY ZenonT(30), <1>1, <1>5, TypeParts DEF StoreType, PublishAccept
  <2>4. CtlType'
    <3>1. /\ UNCHANGED <<mu, distr>>
          /\ notifyDistributor' \in BOOLEAN
      BY <1>5, ZenonT(30) DEF PublishAccept
    <3> QED
      BY ZenonT(30), <3>1, TypeParts DEF CtlType
  <2> QED
    BY ZenonT(30), <1>5, <2>1, <2>2, <2>3, <2>4, TypeWhole DEF PublishAccept
<1>6. CASE PublishLogError(m)
  <2>1. HistType'
    BY ZenonT(30), <1>6, TypeParts DEF HistType, PublishLogError, PubStates
  <2>2. LogType'
    BY <1>2, <1>6, TypeParts DEF LogType, PublishLogError, LogFailed
  <2> QED
    BY ZenonT(30), <1>6, <2>1, <2>2, TypeWhole DEF PublishLogError
<1> QED
  BY ZenonT(30), <1>3, <1>4, <1>5, <1>6 DEF Publish

\* An Acknowledged or DeadLettered record only ever shrinks the durable set.
LEMMA RemovalType ==
  ASSUME TypeOK, NEW id \in Msgs \cup {NoId}, LogsRemoval(id) \/ LogsRemovalFailed(id)
  PROVE  /\ durable' \subseteq durable /\ durable' \subseteq Entries
         /\ lsn' \in Nat /\ walFaults' \in Nat
         /\ removedIds' \subseteq Msgs \cup {NoId}
BY DEF TypeOK, LogsRemoval, LogsRemovalFailed, Logged, LogFailed, Forget

\* Ack keeps the types, also for a session that is gone and a failing append.
LEMMA AckType ==
  ASSUME Base, NEW d \in inFlight, Ack(d) \/ AckLogError(d)
  PROVE  TypeOK'
<1>1. /\ d.token \in 1 .. tokens /\ d.msg \in Message /\ d.consumer \in Consumers
      /\ d.msg.id \in Msgs \cup {NoId}
  BY ZenonT(30), TypeParts DEF StoreType, Message
<1>2. Credit(d.consumer) \in [Sessions -> Int]
  BY ZenonT(30), <1>1, CreditType DEF Base
<1>3. sweep = {} \/ mu # "free"
  BY ZenonT(30) DEF Base, LockSound
<1>4. CASE Ack(d)
  <2>1. /\ durable' \subseteq Entries /\ lsn' \in Nat /\ walFaults' \in Nat
        /\ removedIds' \subseteq Msgs \cup {NoId}
    BY ZenonT(30), <1>1, <1>4, RemovalType DEF Ack, Base
  <2>2. /\ inFlight' \subseteq [token : 1 .. tokens', msg : Message, consumer : Consumers]
        /\ sweep' \subseteq inFlight' /\ tokenOwners' \subseteq 1 .. tokens'
        /\ ackedIds' \subseteq Msgs \cup {NoId} /\ handed' \subseteq Nat
    BY ZenonT(30), <1>1, <1>3, <1>4, TypeParts DEF StoreType, ConnsType, HistType, Ack, AckEffect
  <2>3. unackedCount' \in [Sessions -> Int] /\ ackedCount' \in Nat
    BY <1>2, <1>4, TypeParts DEF LogType, Ack
  <2>4. StoreType'
    BY ZenonT(30), <1>4, <2>2, TypeParts DEF StoreType, Ack
  <2>5. LogType'
    BY ZenonT(30), <1>4, <2>1, <2>3, TypeParts DEF LogType, Ack
  <2>6. SchedType'
    BY ZenonT(30), <1>4, <2>3, TypeParts DEF SchedType, Ack
  <2>7. ConnsType'
    BY ZenonT(30), <1>4, <2>2, TypeParts DEF ConnsType, Ack
  <2>8. HistType'
    BY ZenonT(30), <1>4, <2>1, <2>2, TypeParts DEF HistType, Ack
  <2>9. CtlType'
    <3>1. /\ UNCHANGED <<mu, distr>>
          /\ notifyDistributor' \in BOOLEAN
      BY <1>4, ZenonT(30) DEF Ack
    <3> QED
      BY ZenonT(30), <3>1, TypeParts DEF CtlType
  <2> QED
    BY ZenonT(30), <1>4, <2>4, <2>5, <2>6, <2>7, <2>8, <2>9, TypeWhole DEF Ack
<1>5. CASE AckLogError(d)
  <2>1. /\ durable' \subseteq Entries /\ lsn' \in Nat /\ walFaults' \in Nat
        /\ removedIds' \subseteq Msgs \cup {NoId}
    BY ZenonT(30), <1>1, <1>5, RemovalType DEF AckLogError, Base
  <2>2. LogType'
    BY ZenonT(30), <1>5, <2>1, TypeParts DEF LogType, AckLogError
  <2>3. HistType'
    BY ZenonT(30), <1>5, <2>1, TypeParts DEF HistType, AckLogError
  <2> QED
    BY ZenonT(30), <1>5, <2>2, <2>3, TypeWhole DEF AckLogError
<1> QED
  BY ZenonT(30), <1>4, <1>5

\* An Ack with a token that is not in flight leaves the queue alone.
LEMMA AckInvalidType ==
  ASSUME Base, NEW t \in handed, AckInvalid(t)
  PROVE  TypeOK'
<1>1. ConnsType'
  BY ZenonT(30), TypeParts DEF ConnsType, AckInvalid
<1> QED
  BY ZenonT(30), <1>1, TypeWhole DEF AckInvalid

\* Subscribe keeps the types; a session replaced under the same id included.
LEMMA SubscribeType ==
  ASSUME Base, NEW s \in Sessions, Subscribe(s)
  PROVE  TypeOK'
<1>1. ConsumerOf[s] \in Consumers
  BY ZenonT(30), NameAssumption
<1>2. Append(consumerOrder, ConsumerOf[s]) \in Seq(Consumers)
  BY <1>1, TypeParts DEF SchedType
<1>3. Outstanding(ConsumerOf[s]) \subseteq Delivery
  BY TypeParts DEF StoreType, Outstanding, Delivery
<1>4. CASE Registered(ConsumerOf[s])
  <2>1. ConnsType'
    BY ZenonT(30), <1>4, TypeParts DEF ConnsType, Subscribe
  <2> QED
    BY ZenonT(30), <1>4, <2>1, TypeWhole DEF Subscribe
<1>5. CASE ~Registered(ConsumerOf[s])
  <2>1. /\ consumerSessions' \in [Consumers -> Sessions \cup {NoSession}]
        /\ consumerOrder' \in Seq(Consumers)
        /\ handler' \in [Sessions -> {"new", "active", "gone"}]
        /\ carried' \in [Sessions -> SUBSET Delivery]
    <3>0. /\ consumerSessions' = [consumerSessions EXCEPT ![ConsumerOf[s]] = s]
          /\ carried' = [carried EXCEPT ![s] = Outstanding(ConsumerOf[s])]
      BY ZenonT(30), <1>5 DEF Subscribe
    <3>1. consumerSessions' \in [Consumers -> Sessions \cup {NoSession}]
      BY ZenonT(30), <1>1, <3>0, TypeParts DEF SchedType
    <3>2. consumerOrder' \in Seq(Consumers)
      BY ZenonT(30), <1>2, <1>5 DEF Subscribe
    <3>3. handler' \in [Sessions -> {"new", "active", "gone"}]
      BY ZenonT(30), <1>5, TypeParts DEF ConnsType, Subscribe
    <3>4. carried' \in [Sessions -> SUBSET Delivery]
      BY ZenonT(30), <1>3, <3>0, TypeParts DEF HistType
    <3> QED
      BY ZenonT(30), <3>1, <3>2, <3>3, <3>4
  <2>2. SchedType'
    BY ZenonT(30), <1>5, <2>1, TypeParts DEF SchedType, Subscribe
  <2>3. ConnsType'
    BY ZenonT(30), <1>5, <2>1, TypeParts DEF ConnsType, Subscribe
  <2>4. HistType'
    BY ZenonT(30), <1>5, <2>1, TypeParts DEF HistType, Subscribe
  <2>5. CtlType'
    <3>1. /\ UNCHANGED <<mu, distr>>
          /\ notifyDistributor' \in BOOLEAN
      BY <1>5, ZenonT(30) DEF Subscribe
    <3> QED
      BY ZenonT(30), <3>1, TypeParts DEF CtlType
  <2> QED
    BY ZenonT(30), <1>5, <2>2, <2>3, <2>4, <2>5, TypeWhole DEF Subscribe
<1> QED
  BY ZenonT(30), <1>4, <1>5

\* Deleting one place of a sequence: the rest, in order.
LEMMA DeleteAtProperties ==
  ASSUME NEW S, NEW q \in Seq(S), NEW k \in 1 .. Len(q)
  PROVE  /\ DeleteAt(q, k) \in Seq(S)
         /\ Len(DeleteAt(q, k)) = Len(q) - 1
         /\ \A i \in 1 .. Len(q) - 1 :
              DeleteAt(q, k)[i] = IF i < k THEN q[i] ELSE q[i + 1]
<1> DEFINE a == SubSeq(q, 1, k - 1)
           b == SubSeq(q, k + 1, Len(q))
<1>1. a \in Seq(S) /\ Len(a) = k - 1
  OBVIOUS
<1>2. b \in Seq(S) /\ Len(b) = Len(q) - k
  OBVIOUS
<1>3. \A i \in 1 .. k - 1 : a[i] = q[i]
  OBVIOUS
<1>4. \A i \in 1 .. Len(q) - k : b[i] = q[k + i]
  OBVIOUS
<1> HIDE DEF a, b
<1>5. a \o b \in Seq(S) /\ Len(a \o b) = Len(q) - 1
  BY <1>1, <1>2
<1>6. ASSUME NEW i \in 1 .. Len(q) - 1
      PROVE  (a \o b)[i] = IF i < k THEN q[i] ELSE q[i + 1]
  <2>1. (a \o b)[i] = IF i <= Len(a) THEN a[i] ELSE b[i - Len(a)]
    BY <1>1, <1>2
  <2>2. CASE i < k
    BY <1>1, <1>3, <2>1, <2>2
  <2>3. CASE i >= k
    <3>1. i - Len(a) \in 1 .. Len(q) - k /\ ~(i <= Len(a)) /\ k + (i - Len(a)) = i + 1
      BY <1>1, <2>3
    <3>2. b[i - Len(a)] = q[k + (i - Len(a))]
      BY ZenonT(30), <1>4, <3>1
    <3> QED
      BY <2>1, <2>3, <3>1, <3>2
  <2>4. i < k \/ i >= k
    OBVIOUS
  <2> QED
    BY ZenonT(30), <2>2, <2>3, <2>4
<1> QED
  BY ZenonT(30), <1>5, <1>6 DEF DeleteAt, a, b

\* Unsubscribe keeps the types; the rotation loses one place.
LEMMA UnsubscribeType ==
  ASSUME Base, NEW s \in Sessions, Unsubscribe(s)
  PROVE  TypeOK'
<1> DEFINE c == ConsumerOf[s]
<1>1. c \in Consumers
  BY ZenonT(30), NameAssumption
<1>2. CASE Registered(c)
  <2>1. PICK k \in 1 .. Len(consumerOrder) :
          consumerOrder[k] = c /\ consumerOrder' = DeleteAt(consumerOrder, k)
    BY ZenonT(30), <1>2 DEF Unsubscribe
  <2>2. consumerOrder' \in Seq(Consumers) /\ Len(consumerOrder) \in Nat \ {0}
    <3>1. consumerOrder \in Seq(Consumers)
      BY ZenonT(30), TypeParts DEF SchedType
    <3>2. Len(consumerOrder) \in Nat \ {0}
      BY <2>1, <3>1
    <3>3. DeleteAt(consumerOrder, k) \in Seq(Consumers)
      BY ZenonT(30), <3>1, DeleteAtProperties
    <3> QED
      BY ZenonT(30), <2>1, <3>2, <3>3
  <2>3. nextConsumer' = Reindex(Len(consumerOrder) - 1)
    BY ZenonT(30), <1>2 DEF Unsubscribe
  <2>4. nextConsumer' \in Nat
    <3>1. nextConsumer \in Nat
      BY ZenonT(30), TypeParts DEF SchedType
    <3>2. CASE Len(consumerOrder) - 1 = 0
      BY ZenonT(30), <2>3, <3>2 DEF Reindex
    <3>3. CASE Len(consumerOrder) - 1 \in Nat \ {0}
      <4>1. nextConsumer % (Len(consumerOrder) - 1) \in 0 .. Len(consumerOrder) - 1 - 1
        BY ZenonT(30), <3>1, <3>3, ModRange
      <4> QED
        BY <2>3, <3>3, <4>1 DEF Reindex
    <3> QED
      BY <2>2, <3>2, <3>3
  <2>5. /\ consumerSessions' \in [Consumers -> Sessions \cup {NoSession}]
        /\ sessClosed' \subseteq Sessions
        /\ handler' \in [Sessions -> {"new", "active", "gone"}]
    <3>1. consumerSessions[c] \in Sessions
      BY ZenonT(30), <1>1, <1>2, TypeParts DEF SchedType, Registered
    <3>2. /\ consumerSessions' = [consumerSessions EXCEPT ![c] = NoSession]
          /\ sessClosed' = sessClosed \cup {consumerSessions[c]}
          /\ handler' = [handler EXCEPT ![s] = "gone"]
      BY ZenonT(30), <1>2 DEF Unsubscribe
    <3>3. consumerSessions' \in [Consumers -> Sessions \cup {NoSession}]
      BY ZenonT(30), <3>2, TypeParts DEF SchedType
    <3>4. sessClosed' \subseteq Sessions /\ handler' \in [Sessions -> {"new", "active", "gone"}]
      BY ZenonT(30), <3>1, <3>2, TypeParts DEF ConnsType
    <3> QED
      BY ZenonT(30), <3>3, <3>4
  <2>6. SchedType'
    BY ZenonT(30), <2>2, <2>4, <2>5, TypeParts DEF SchedType, Unsubscribe
  <2>7. ConnsType'
    BY ZenonT(30), <2>5, TypeParts DEF ConnsType, Unsubscribe
  <2> QED
    BY ZenonT(30), <2>6, <2>7, TypeWhole DEF Unsubscribe
<1>3. CASE ~Registered(c)
  <2>1. ConnsType'
    BY ZenonT(30), <1>3, TypeParts DEF ConnsType, Unsubscribe
  <2> QED
    BY ZenonT(30), <1>3, <2>1, TypeWhole DEF Unsubscribe
<1> QED
  BY ZenonT(30), <1>2, <1>3

\* Taking a delivery out of a session channel keeps the types.
LEMMA ReceiveType ==
  ASSUME Base, NEW s \in Sessions, Receive(s)
  PROVE  TypeOK'
<1>1. deliveries[s] \in Seq(Delivery) /\ deliveries[s] # <<>>
  BY ZenonT(30), TypeParts DEF ConnsType, Receive
<1>2. Head(deliveries[s]).token \in Nat /\ Tail(deliveries[s]) \in Seq(Delivery)
  <2>1. Head(deliveries[s]) \in Delivery /\ Tail(deliveries[s]) \in Seq(Delivery)
    BY <1>1
  <2> QED
    BY ZenonT(30), <2>1 DEF Delivery
<1>3. handed' \subseteq Nat /\ deliveries' \in [Sessions -> Seq(Delivery)]
  BY ZenonT(30), <1>2, TypeParts DEF ConnsType, Receive
<1>4. ConnsType'
  BY ZenonT(30), <1>3, TypeParts DEF ConnsType, Receive
<1> QED
  BY ZenonT(30), <1>4, TypeWhole DEF Receive

-----------------------------------------------------------------------------
(* The distributor, the workers, shutdown and restart. *)

\* The head of a non-empty ring.
LEMMA HeadType ==
  ASSUME Base
  PROVE  /\ Peek(queue) \in Message /\ Peek(queue).id \in Msgs \cup {NoId}
         /\ queue.size > 0 => IsRing(Pop(queue), Message)
<1>1. IsRing(queue, Message)
  BY ZenonT(30), TypeParts DEF StoreType
<1>2. Peek(queue) \in Message
  BY ZenonT(30), <1>1, PeekType
<1> QED
  BY ZenonT(30), <1>1, <1>2, PopType, ZeroIsMessage DEF Message

\* deadLetterExpiredMessages keeps the types, its failing append included.
LEMMA DeadLetterType ==
  ASSUME Base, NEW p \in {"distributor", "expiry"},
         DeadLetterHead(p) \/ DeadLetterLogError(p)
  PROVE  TypeOK'
<1>1. /\ Peek(queue) \in Message /\ Peek(queue).id \in Msgs \cup {NoId}
      /\ queue.size > 0 => IsRing(Pop(queue), Message)
  BY ZenonT(30), HeadType
<1>2. queue.size > 0
  BY ZenonT(30) DEF DeadLetterHead, DeadLetterLogError, AtHead, HeadExpired
<1>3. CASE DeadLetterHead(p)
  <2>1. /\ durable' \subseteq Entries /\ lsn' \in Nat /\ walFaults' \in Nat
        /\ removedIds' \subseteq Msgs \cup {NoId}
    BY ZenonT(30), <1>1, <1>3, RemovalType DEF DeadLetterHead, Base
  <2>2. pub' \in [Msgs -> PubStates]
    BY ZenonT(30), <1>3, SignalType, TypeParts DEF DeadLetterHead, FreesSlot, HistType
  <2>3. IsRing(queue', Message) /\ deadLetterQueue' \subseteq Message
    BY ZenonT(30), <1>1, <1>2, <1>3, TypeParts DEF DeadLetterHead, StoreType
  <2>4. StoreType'
    BY ZenonT(30), <1>3, <2>3, TypeParts DEF StoreType, DeadLetterHead
  <2>5. LogType'
    BY <1>3, <2>1, TypeParts DEF LogType, DeadLetterHead
  <2>6. CtlType'
    BY ZenonT(30), <1>3, TypeParts DEF CtlType, DeadLetterHead
  <2>7. HistType'
    BY ZenonT(30), <1>3, <2>1, <2>2, TypeParts DEF HistType, DeadLetterHead
  <2> QED
    BY ZenonT(30), <1>3, <2>4, <2>5, <2>6, <2>7, TypeWhole DEF DeadLetterHead
<1>4. CASE DeadLetterLogError(p)
  <2>1. /\ durable' \subseteq Entries /\ lsn' \in Nat /\ walFaults' \in Nat
        /\ removedIds' \subseteq Msgs \cup {NoId}
    BY ZenonT(30), <1>1, <1>4, RemovalType DEF DeadLetterLogError, Base
  <2>2. dist' \in {"top", dist} /\ mu' = "free"
    BY ZenonT(30), <1>4 DEF DeadLetterLogError
  <2>3. LogType'
    BY ZenonT(30), <1>4, <2>1, TypeParts DEF LogType, DeadLetterLogError
  <2>4. CtlType'
    BY ZenonT(30), <1>4, <2>2, TypeParts DEF CtlType, DeadLetterLogError
  <2>5. HistType'
    BY ZenonT(30), <1>4, <2>1, TypeParts DEF HistType, DeadLetterLogError
  <2> QED
    BY ZenonT(30), <1>4, <2>3, <2>4, <2>5, TypeWhole DEF DeadLetterLogError
<1> QED
  BY ZenonT(30), <1>3, <1>4

\* reserveDelivery keeps the types: it pops a message from a non-empty ring and
\* enters it under a fresh token.
LEMMA ReserveType ==
  ASSUME Base, ReserveDelivery
  PROVE  TypeOK'
<1>1. PICK j \in 0 .. Len(consumerOrder) - 1 :
        /\ nextConsumer' = (nextConsumer + j + 1) % Len(consumerOrder)
        /\ held' = [token |-> tokens + 1, msg |-> Peek(queue), consumer |-> Candidate(j)]
        /\ inFlight' = inFlight \cup {held'}
        /\ target' = consumerSessions[Candidate(j)]
        /\ unackedCount' = [unackedCount EXCEPT ![consumerSessions[Candidate(j)]] = @ + 1]
  BY ZenonT(30) DEF ReserveDelivery
<1>2. /\ Candidate(j) \in Consumers /\ consumerSessions[Candidate(j)] \in Sessions
      /\ (nextConsumer + j + 1) % Len(consumerOrder) \in 0 .. Len(consumerOrder) - 1
  BY ZenonT(30), CandidateRegistered DEF Base
<1>3. Peek(queue) \in Message /\ IsRing(Pop(queue), Message)
  BY ZenonT(30), HeadType DEF ReserveDelivery
<1>4. tokens' = tokens + 1 /\ tokens \in Nat
  BY ZenonT(30), TypeParts DEF ReserveDelivery, StoreType
<1>5. held' \in [token : 1 .. tokens', msg : Message, consumer : Consumers]
  BY <1>1, <1>2, <1>3, <1>4
<1>6. inFlight \subseteq [token : 1 .. tokens', msg : Message, consumer : Consumers]
  BY <1>4, TypeParts DEF StoreType
<1>7. held' \in Delivery /\ held'.consumer \in Consumers
  BY <1>4, <1>5 DEF Delivery
<1>8. nextConsumer' \in Nat /\ target' \in Sessions /\ tokenOwners' \subseteq 1 .. tokens'
  <2>1. nextConsumer' \in Nat /\ target' \in Sessions
    BY <1>1, <1>2
  <2>2. tokenOwners \subseteq 1 .. tokens
    BY ZenonT(30), TypeParts DEF StoreType
  <2>3. tokenOwners' \subseteq 1 .. tokens'
    BY <1>4, <2>2 DEF ReserveDelivery
  <2> QED
    BY ZenonT(30), <2>1, <2>3
<1>9. unackedCount' \in [Sessions -> Int]
  <2>1. unackedCount \in [Sessions -> Int]
    BY ZenonT(30), TypeParts DEF SchedType
  <2> QED
    BY <1>1, <1>2, <2>1
<1>10. pub' \in [Msgs -> PubStates]
  BY ZenonT(30), SignalType, TypeParts DEF ReserveDelivery, FreesSlot, HistType
<1>11. inFlight' \subseteq [token : 1 .. tokens', msg : Message, consumer : Consumers]
  BY ZenonT(30), <1>1, <1>5, <1>6
<1>12. sweep' \subseteq inFlight'
  BY ZenonT(30), <1>1, TypeParts DEF ReserveDelivery, StoreType
<1>13. IsRing(queue', Message)
  BY ZenonT(30), <1>3 DEF ReserveDelivery
<1>14. /\ dist' = "send" /\ mu' = "free"
       /\ UNCHANGED <<conns, env, counts, log, hist, deadLetterQueue, consumerSessions,
                      consumerOrder, notifyDistributor>>
  BY ZenonT(30) DEF ReserveDelivery
<1>15. StoreType'
  BY <1>4, <1>8, <1>11, <1>12, <1>13, <1>14, TypeParts DEF StoreType
<1>16. SchedType'
  BY ZenonT(30), <1>8, <1>9, <1>14, TypeParts DEF SchedType
<1>17. CtlType'
  BY ZenonT(30), <1>7, <1>8, <1>14, TypeParts DEF CtlType
<1>18. HistType'
  BY ZenonT(30), <1>10, <1>14, TypeParts DEF HistType
<1> QED
  BY ZenonT(30), <1>14, <1>15, <1>16, <1>17, <1>18, TypeWhole

\* The send on the Deliveries channel keeps the types.
LEMMA SendType ==
  ASSUME Base, SendDelivery
  PROVE  TypeOK'
<1>1. target \in Sessions /\ held \in Delivery /\ deliveries[target] \in Seq(Delivery)
  BY ZenonT(30), TypeParts DEF SendDelivery, CtlType, ConnsType
<1>2. Append(deliveries[target], held) \in Seq(Delivery)
  BY <1>1
<1>3. deliveries' \in [Sessions -> Seq(Delivery)]
  BY ZenonT(30), <1>1, <1>2, TypeParts DEF SendDelivery, ConnsType
<1>4. ConnsType'
  BY ZenonT(30), <1>3, TypeParts DEF ConnsType, SendDelivery
<1>5. CtlType'
  BY ZenonT(30), ZeroIsMessage, TypeParts DEF CtlType, SendDelivery
<1> QED
  BY ZenonT(30), <1>4, <1>5, TypeWhole DEF SendDelivery

\* cancelReservation keeps the types, even when it pushes into a full ring.
LEMMA CancelType ==
  ASSUME Base, CancelReservation
  PROVE  TypeOK'
<1>1. held.msg \in Message /\ held.consumer \in Consumers
  BY ZenonT(30), TypeParts DEF CancelReservation, CtlType, Delivery
<1>2. IsRing(queue', Message)
  <2>1. IsRing(queue, Message)
    BY ZenonT(30), TypeParts DEF StoreType
  <2>2. queue' = Push(queue, held.msg)
    BY ZenonT(30) DEF CancelReservation
  <2>3. IsRing(Push(queue, held.msg), Message)
    BY ZenonT(30), <1>1, <2>1, PushType
  <2> QED
    BY ZenonT(30), <2>2, <2>3
<1>3. unackedCount' \in [Sessions -> Int]
  <2>1. unackedCount' \in {unackedCount, Credit(held.consumer)}
    BY ZenonT(30) DEF CancelReservation
  <2> QED
    BY ZenonT(30), <1>1, <2>1, CreditType, TypeParts DEF Base, SchedType
<1>4. pub' \in [Msgs -> PubStates]
  BY ZenonT(30), SignalType, TypeParts DEF CancelReservation, HistType
<1>5. sweep = {}
  BY ZenonT(30) DEF CancelReservation, Base, LockSound
<1>6. /\ inFlight' \subseteq inFlight /\ tokenOwners' \subseteq tokenOwners
      /\ dist' = "reserve" /\ held' = NoDelivery /\ target' = NoSession
      /\ notifyDistributor' = TRUE
      /\ cancels' \subseteq cancels \cup {"cancelled", "overrun", "late"}
      /\ UNCHANGED <<conns, env, counts, log, lock, deadLetterQueue, consumerSessions,
                     consumerOrder, nextConsumer, ackedIds, removedIds, carried, tokens>>
  BY ZenonT(30) DEF CancelReservation, ReleaseToken
<1>7. notifyDistributor' \in BOOLEAN
  BY <1>6, ZenonT(30)
<1>8. StoreType'
  BY ZenonT(30), <1>2, <1>5, <1>6, TypeParts DEF StoreType
<1>9. SchedType'
  BY ZenonT(30), <1>3, <1>6, TypeParts DEF SchedType
<1>10. CtlType'
  BY ZenonT(30), <1>6, <1>7, ZeroIsMessage, TypeParts DEF CtlType
<1>11. HistType'
  BY ZenonT(30), <1>4, <1>6, TypeParts DEF HistType
<1> QED
  BY ZenonT(30), <1>6, <1>8, <1>9, <1>10, <1>11, TypeWhole

\* The remaining steps of RunDistributor keep the types.
LEMMA DistributorType ==
  ASSUME Base, Distributor
  PROVE  TypeOK'
<1>1. CASE DistributorTop
  <2>1. CtlType'
    BY ZenonT(30), <1>1, TypeParts DEF CtlType, DistributorTop
  <2> QED
    BY ZenonT(30), <1>1, <2>1, TypeWhole DEF DistributorTop
<1>2. CASE DistributorNotified
  <2>1. CtlType'
    BY ZenonT(30), <1>2, TypeParts DEF CtlType, DistributorNotified
  <2> QED
    BY ZenonT(30), <1>2, <2>1, TypeWhole DEF DistributorNotified
<1>3. CASE DistributorCancelled
  <2>1. CtlType'
    BY ZenonT(30), <1>3, TypeParts DEF CtlType, DistributorCancelled
  <2> QED
    BY ZenonT(30), <1>3, <2>1, TypeWhole DEF DistributorCancelled
<1>4. CASE ReserveNothing
  <2>1. CtlType'
    BY ZenonT(30), <1>4, TypeParts DEF CtlType, ReserveNothing
  <2> QED
    BY ZenonT(30), <1>4, <2>1, TypeWhole DEF ReserveNothing
<1>5. CASE SendRefused
  <2>1. CtlType'
    BY ZenonT(30), <1>5, TypeParts DEF CtlType, SendRefused
  <2> QED
    BY ZenonT(30), <1>5, <2>1, TypeWhole DEF SendRefused
<1> QED
  BY ZenonT(30), <1>1, <1>2, <1>3, <1>4, <1>5, DeadLetterType, ReserveType, SendType, CancelType
     DEF Distributor

\* What every outcome of a sweep item leaves of the items still to be swept.
LEMMA SweepNextType ==
  ASSUME Base, NEW d \in sweep, SweepNext(d), mu = "redelivery"
  PROVE  /\ sweep' \subseteq sweep \ {d} /\ mu' \in {"free", "redelivery"}
         /\ mu' = "redelivery" <=> sweep' # {}
BY ZenonT(30) DEF SweepNext

\* Each outcome for an overdue entry (skipped, dead-lettered, requeued, append
\* failed) keeps the types.
LEMMA SweepType ==
  ASSUME Base, NEW d \in sweep, SweepItem(d)
  PROVE  TypeOK'
<1> DEFINE msg == [d.msg EXCEPT !.retry = @ + 1]
<1>1. /\ d \in inFlight /\ d.msg \in Message /\ d.consumer \in Consumers
      /\ d.msg.id \in Msgs \cup {NoId} /\ d.msg.retry \in Nat
  BY ZenonT(30), TypeParts DEF StoreType, Message
<1>2. Credit(d.consumer) \in [Sessions -> Int]
  BY ZenonT(30), <1>1, CreditType DEF Base
<1>3. msg \in Message
  BY <1>1 DEF Message
<1> HIDE DEF msg
<1>4. AfterRequeued(msg) \subseteq Entries
  <2>1. lsn \in Nat /\ durable \subseteq Entries /\ [pos |-> lsn + 1, msg |-> msg] \in Entries
    <3>1. lsn \in Nat /\ durable \subseteq Entries
      BY ZenonT(30), TypeParts DEF LogType
    <3> QED
      BY <1>3, <3>1 DEF Entries
  <2> QED
    BY ZenonT(30), <2>1 DEF AfterRequeued, Forget
<1>5. mu = "redelivery"
  BY ZenonT(30) DEF SweepItem
<1>6. CASE SweepSkip(d)
  <2>1. sweep' \subseteq sweep /\ mu' \in {"free", "redelivery"}
    BY ZenonT(30), <1>5, <1>6, SweepNextType DEF SweepSkip
  <2>2. StoreType'
    BY ZenonT(30), <1>6, <2>1, TypeParts DEF StoreType, SweepSkip
  <2>3. CtlType'
    BY ZenonT(30), <1>6, <2>1, TypeParts DEF CtlType, SweepSkip
  <2> QED
    BY ZenonT(30), <1>6, <2>2, <2>3, TypeWhole DEF SweepSkip
<1>7. CASE SweepDeadLetter(d)
  <2>1. sweep' \subseteq sweep \ {d} /\ mu' \in {"free", "redelivery"}
    BY ZenonT(30), <1>5, <1>7, SweepNextType DEF SweepDeadLetter
  <2>2. /\ durable' \subseteq Entries /\ lsn' \in Nat /\ walFaults' \in Nat
        /\ removedIds' \subseteq Msgs \cup {NoId}
    BY ZenonT(30), <1>1, <1>7, RemovalType DEF SweepDeadLetter, Base
  <2>3. /\ inFlight' = inFlight \ {d} /\ tokenOwners' \subseteq tokenOwners
        /\ deadletteredCount' = deadletteredCount + 1 /\ unackedCount' = Credit(d.consumer)
        /\ deadLetterQueue' = deadLetterQueue \cup {d.msg}
        /\ UNCHANGED <<conns, env, distr, queue, consumerSessions, consumerOrder,
                       nextConsumer, producedCount, ackedCount, notifyDistributor,
                       ackedIds, cancels, carried, tokens, pub>>
    BY ZenonT(30), <1>7 DEF SweepDeadLetter
  <2>4. StoreType'
    BY ZenonT(30), <1>1, <2>1, <2>3, TypeParts DEF StoreType
  <2>5. LogType'
    BY <2>2, <2>3, TypeParts DEF LogType
  <2>6. SchedType'
    BY ZenonT(30), <1>2, <2>3, TypeParts DEF SchedType
  <2>7. CtlType'
    BY ZenonT(30), <2>1, <2>3, TypeParts DEF CtlType
  <2>8. HistType'
    BY ZenonT(30), <2>2, <2>3, TypeParts DEF HistType
  <2> QED
    BY ZenonT(30), <2>3, <2>4, <2>5, <2>6, <2>7, <2>8, TypeWhole
<1>8. CASE SweepRequeue(d)
  <2>1. sweep' \subseteq sweep \ {d} /\ mu' \in {"free", "redelivery"}
    BY ZenonT(30), <1>5, <1>8, SweepNextType DEF SweepRequeue
  <2>2. /\ durable' = AfterRequeued(msg) /\ queue' = Push(queue, msg) /\ lsn' = lsn + 1
        /\ removedIds' \subseteq removedIds /\ UNCHANGED walFaults
    BY ZenonT(30), <1>8 DEF SweepRequeue, Logged, msg
  <2>3. IsRing(queue', Message)
    <3>1. IsRing(queue, Message)
      BY ZenonT(30), TypeParts DEF StoreType
    <3>2. IsRing(Push(queue, msg), Message)
      BY ZenonT(30), <1>3, <3>1, PushType
    <3> QED
      BY ZenonT(30), <2>2, <3>2
  <2>4. /\ inFlight' = inFlight \ {d} /\ tokenOwners' \subseteq tokenOwners
        /\ unackedCount' = Credit(d.consumer) /\ notifyDistributor' = TRUE
        /\ UNCHANGED <<conns, env, counts, distr, deadLetterQueue, consumerSessions,
                       consumerOrder, nextConsumer, ackedIds, cancels, carried, tokens, pub>>
    BY ZenonT(30), <1>8 DEF SweepRequeue
  <2>5. notifyDistributor' \in BOOLEAN
    BY <2>4, ZenonT(30)
  <2>6. StoreType'
    BY ZenonT(30), <2>1, <2>3, <2>4, TypeParts DEF StoreType
  <2>7. LogType'
    BY <1>4, <2>2, <2>4, TypeParts DEF LogType
  <2>8. SchedType'
    BY ZenonT(30), <1>2, <2>4, TypeParts DEF SchedType
  <2>9. CtlType'
    BY ZenonT(30), <2>1, <2>4, <2>5, TypeParts DEF CtlType
  <2>10. HistType'
    BY ZenonT(30), <2>2, <2>4, TypeParts DEF HistType
  <2> QED
    BY ZenonT(30), <2>4, <2>6, <2>7, <2>8, <2>9, <2>10, TypeWhole
<1>9. CASE SweepLogError(d)
  <2>1. sweep' \subseteq sweep /\ mu' \in {"free", "redelivery"}
    BY ZenonT(30), <1>5, <1>9, SweepNextType DEF SweepLogError
  <2>2. /\ durable' \subseteq Entries /\ lsn' \in Nat /\ walFaults' \in Nat
        /\ removedIds' \subseteq Msgs \cup {NoId}
    <3>1. CASE RetriesSpent(d.msg)
      BY ZenonT(30), <1>1, <1>9, <3>1, RemovalType DEF SweepLogError, Base
    <3>2. CASE ~RetriesSpent(d.msg)
      <4>1. /\ durable' \in {durable, AfterRequeued(msg)} /\ lsn' = lsn + 1
            /\ walFaults' = walFaults + 1 /\ removedIds' \subseteq removedIds
        BY ZenonT(30), <1>9, <3>2 DEF SweepLogError, LogFailed, msg
      <4> QED
        BY <1>4, <4>1, TypeParts DEF LogType, HistType
    <3> QED
      BY ZenonT(30), <3>1, <3>2
  <2>3. UNCHANGED <<sched, conns, env, store, counts, distr, notifyDistributor,
                    ackedIds, cancels, carried, tokenOwners, tokens, pub>>
    BY ZenonT(30), <1>9 DEF SweepLogError
  <2>4. StoreType'
    BY ZenonT(30), <2>1, <2>3, TypeParts DEF StoreType
  <2>5. LogType'
    BY ZenonT(30), <2>2, <2>3, TypeParts DEF LogType
  <2>6. CtlType'
    BY ZenonT(30), <2>1, <2>3, TypeParts DEF CtlType
  <2>7. HistType'
    BY ZenonT(30), <2>2, <2>3, TypeParts DEF HistType
  <2> QED
    BY ZenonT(30), <2>3, <2>4, <2>5, <2>6, <2>7, TypeWhole
<1> QED
  BY ZenonT(30), <1>6, <1>7, <1>8, <1>9 DEF SweepItem

\* Shutdown and CloseIfEmpty keep the types.
LEMMA CloseType ==
  ASSUME Base, CloseRuntime
  PROVE  TypeOK'
<1>1. sessClosed' \subseteq Sessions
  <2>1. sessClosed' \subseteq sessClosed \cup
                            {consumerSessions[c] : c \in {b \in Consumers : Registered(b)}}
    BY ZenonT(30) DEF CloseRuntime
  <2>2. ASSUME NEW c \in Consumers, Registered(c) PROVE consumerSessions[c] \in Sessions
    BY ZenonT(30), <2>2, TypeParts DEF SchedType, Registered
  <2> QED
    BY ZenonT(30), <2>1, <2>2, TypeParts DEF ConnsType
<1>2. consumerOrder' \in Seq(Consumers)
  <2>1. consumerOrder' = <<>>
    BY ZenonT(30) DEF CloseRuntime
  <2> QED
    BY <2>1
<1>3. pub' \in [Msgs -> PubStates]
  BY ZenonT(30), SignalType, TypeParts DEF CloseRuntime, HistType
<1>4. /\ consumerSessions' \in [Consumers -> Sessions \cup {NoSession}]
      /\ nextConsumer' = 0 /\ closed' = TRUE
      /\ UNCHANGED <<data, ctl, clocks, unackedCount, deliveries, handler, handed,
                     running, ctxDone, crashes>>
  BY ZenonT(30) DEF CloseRuntime
<1>5. closed' \in BOOLEAN
  BY <1>4, ZenonT(30)
<1>6. SchedType'
  BY ZenonT(30), <1>2, <1>4, TypeParts DEF SchedType
<1>7. ConnsType'
  BY ZenonT(30), <1>1, <1>4, TypeParts DEF ConnsType
<1>8. LifeType'
  BY ZenonT(30), <1>4, <1>5, TypeParts DEF LifeType
<1>9. HistType'
  BY ZenonT(30), <1>3, <1>4, TypeParts DEF HistType
<1> QED
  BY ZenonT(30), <1>4, <1>6, <1>7, <1>8, <1>9, TypeWhole

\* A restart rebuilds well-typed state from the durable messages.
LEMMA RestartType ==
  ASSUME Base, CrashRestart
  PROVE  TypeOK'
<1>1. PICK n \in 0 .. Cardinality(durable) : \E s \in [1 .. n -> durable] :
        queue' = Loaded(s) /\ producedCount' = Len(s)
  BY ZenonT(30) DEF CrashRestart
<1>2. IsRing(queue', Message) /\ producedCount' \in Nat
  <2>1. n \in Nat
    BY <1>1
  <2> QED
    BY ZenonT(30), <1>1, <2>1, LoadedType DEF Base
<1>3. /\ inFlight' = {} /\ deadLetterQueue' = {} /\ tokenOwners' = {} /\ sweep' = {}
      /\ ackedCount' = 0 /\ deadletteredCount' = 0 /\ nextConsumer' = 0
      /\ consumerOrder' = <<>> /\ deliveries' = [s_1 \in Sessions |-> <<>>]
      /\ running' = {"redelivery", "expiry"}
      /\ mu' = "free" /\ dist' = "top" /\ held' = NoDelivery /\ target' = NoSession
      /\ crashes' = crashes + 1
      /\ UNCHANGED <<log, hist, clocks, unackedCount, sessClosed, handed, tokens>>
  BY ZenonT(30) DEF CrashRestart
<1>4. notifyDistributor' \in BOOLEAN /\ closed' \in BOOLEAN /\ ctxDone' \in BOOLEAN
  BY ZenonT(30) DEF CrashRestart
<1>5. consumerOrder' \in Seq(Consumers) /\ deliveries' \in [Sessions -> Seq(Delivery)]
  BY <1>3
<1>6. /\ consumerSessions' \in [Consumers -> Sessions \cup {NoSession}]
      /\ handler' \in [Sessions -> {"new", "active", "gone"}]
      /\ pub' \in [Msgs -> PubStates]
  BY ZenonT(30), TypeParts DEF CrashRestart, ConnsType, HistType, PubStates
<1>7. StoreType'
  BY ZenonT(30), <1>2, <1>3, TypeParts DEF StoreType
<1>8. LogType'
  BY ZenonT(30), <1>2, <1>3, TypeParts DEF LogType
<1>9. SchedType'
  BY ZenonT(30), <1>3, <1>5, <1>6, TypeParts DEF SchedType
<1>10. ConnsType'
  BY ZenonT(30), <1>3, <1>5, <1>6, TypeParts DEF ConnsType
<1>11. CtlType'
  BY ZenonT(30), <1>3, <1>4, ZeroIsMessage DEF CtlType
<1>12. LifeType'
  BY <1>3, <1>4, TypeParts DEF LifeType
<1>13. HistType'
  BY ZenonT(30), <1>3, <1>6, TypeParts DEF HistType
<1> QED
  BY ZenonT(30), <1>7, <1>8, <1>9, <1>10, <1>11, <1>12, <1>13, TypeWhole

\* Every step keeps every variable in its type.
LEMMA TypeStep ==
  ASSUME Base, [Next]_vars
  PROVE  TypeOK'
<1>1. CASE UNCHANGED vars
  BY ZenonT(30), <1>1, TypeWhole
<1>2. ASSUME NEW m \in Msgs, TTLPasses(m) PROVE TypeOK'
  <2>1. LifeType'
    BY ZenonT(30), <1>2, TypeParts DEF LifeType, TTLPasses
  <2> QED
    BY ZenonT(30), <1>2, <2>1, TypeWhole DEF TTLPasses
<1>3. CASE SweepBegin
  <2>1. StoreType'
    BY ZenonT(30), <1>3, TypeParts DEF StoreType, SweepBegin, Overdue
  <2>2. CtlType'
    BY ZenonT(30), <1>3, TypeParts DEF CtlType, SweepBegin
  <2> QED
    BY ZenonT(30), <1>3, <2>1, <2>2, TypeWhole DEF SweepBegin
<1>4. ASSUME NEW w \in {"redelivery", "expiry"}, WorkerExit(w) PROVE TypeOK'
  <2>1. LifeType'
    BY ZenonT(30), <1>4, TypeParts DEF LifeType, WorkerExit
  <2> QED
    BY ZenonT(30), <1>4, <2>1, TypeWhole DEF WorkerExit
<1>5. CASE ExpirySweepEnds
  <2>1. CtlType'
    BY ZenonT(30), <1>5, TypeParts DEF CtlType, ExpirySweepEnds
  <2> QED
    BY ZenonT(30), <1>5, <2>1, TypeWhole DEF ExpirySweepEnds
<1>6. CASE CancelContext
  <2>1. LifeType'
    BY ZenonT(30), <1>6, TypeParts DEF LifeType, CancelContext
  <2> QED
    BY ZenonT(30), <1>6, <2>1, TypeWhole DEF CancelContext
<1>7. CASE ReleaseTokens
  <2>1. StoreType'
    BY ZenonT(30), <1>7, TypeParts DEF StoreType, ReleaseTokens
  <2> QED
    BY ZenonT(30), <1>7, <2>1, TypeWhole DEF ReleaseTokens
<1>8. CASE AckTimeoutPasses
  <2>1. ackClock' = ackClock + 1 /\ UNCHANGED <<life, expired>>
    BY ZenonT(30), <1>8 DEF AckTimeoutPasses
  <2>2. ackClock' \in Nat
    BY <2>1, TypeParts DEF LifeType
  <2>3. LifeType'
    BY <2>1, <2>2, TypeParts, ZenonT(30) DEF LifeType
  <2> QED
    BY ZenonT(30), <1>8, <2>3, TypeWhole DEF AckTimeoutPasses
<1>9. CASE RedeliveryWorker
  BY ZenonT(30), <1>3, <1>4, <1>9, SweepType DEF RedeliveryWorker
<1>10. CASE ExpiryWorker
  BY ZenonT(30), <1>4, <1>5, <1>10, DeadLetterType DEF ExpiryWorker
<1>11. CASE Shutdown \/ CloseIfEmpty
  BY ZenonT(30), <1>11, CloseType DEF Shutdown, CloseIfEmpty
<1> QED
  BY ZenonT(30), <1>1, <1>2, <1>6, <1>7, <1>8, <1>9, <1>10, <1>11, PublishType, AckType,
     AckInvalidType, SubscribeType, UnsubscribeType, ReceiveType, DistributorType,
     RestartType DEF Next

-----------------------------------------------------------------------------
(* The rotation and the lock. *)

rotation == <<consumerSessions, consumerOrder, nextConsumer>>

\* Few steps touch the rotation.
LEMMA RotationFrame ==
  ASSUME [Next]_vars
  PROVE  \/ UNCHANGED rotation
         \/ \E s \in Sessions : Subscribe(s) \/ Unsubscribe(s)
         \/ ReserveDelivery \/ CloseRuntime \/ CrashRestart
<1> USE DEF rotation
<1>1. CASE UNCHANGED vars
  BY ZenonT(30), <1>1
<1>2. ASSUME NEW m \in Msgs, Publish(m) \/ TTLPasses(m) PROVE UNCHANGED rotation
  BY ZenonT(30), <1>2 DEF Publish, PublishWait, PublishClosed, PublishAccept, PublishLogError, TTLPasses
<1>3. ASSUME NEW d \in inFlight, Ack(d) \/ AckLogError(d) PROVE UNCHANGED rotation
  BY ZenonT(30), <1>3 DEF Ack, AckLogError
<1>4. ASSUME NEW t \in handed, AckInvalid(t) PROVE UNCHANGED rotation
  BY ZenonT(30), <1>4 DEF AckInvalid
<1>5. ASSUME NEW s \in Sessions, Receive(s) PROVE UNCHANGED rotation
  BY ZenonT(30), <1>5 DEF Receive
<1>6. ASSUME NEW p, DeadLetterHead(p) \/ DeadLetterLogError(p) PROVE UNCHANGED rotation
  BY ZenonT(30), <1>6 DEF DeadLetterHead, DeadLetterLogError
<1>7. CASE Distributor
  BY ZenonT(30), <1>6, <1>7 DEF Distributor, DistributorTop, DistributorNotified, DistributorCancelled,
     ReserveNothing, SendDelivery, SendRefused, CancelReservation
<1>8. ASSUME NEW w, WorkerExit(w) PROVE UNCHANGED rotation
  BY ZenonT(30), <1>8 DEF WorkerExit
<1>9. ASSUME NEW d \in sweep, SweepItem(d) PROVE UNCHANGED rotation
  BY ZenonT(30), <1>9 DEF SweepItem, SweepSkip, SweepDeadLetter, SweepRequeue, SweepLogError
<1>10. CASE RedeliveryWorker \/ ExpiryWorker
  BY ZenonT(30), <1>6, <1>8, <1>9, <1>10 DEF RedeliveryWorker, ExpiryWorker, SweepBegin, ExpirySweepEnds
<1>11. CASE CancelContext \/ ReleaseTokens \/ AckTimeoutPasses
  BY ZenonT(30), <1>11 DEF CancelContext, ReleaseTokens, AckTimeoutPasses
<1> QED
  BY ZenonT(30), <1>1, <1>2, <1>3, <1>4, <1>5, <1>7, <1>10, <1>11 DEF Next, Shutdown, CloseIfEmpty

\* Subscribe keeps the rotation free of duplicates and equal to the table.
LEMMA SchedulerSubscribe ==
  ASSUME Base, NEW s \in Sessions, Subscribe(s)
  PROVE  SchedulerSound'
<1> DEFINE c == ConsumerOf[s]
<1>1. /\ c \in Consumers /\ consumerOrder \in Seq(Consumers)
      /\ nextConsumer' = nextConsumer /\ nextConsumer \in Nat
      /\ consumerSessions \in [Consumers -> Sessions \cup {NoSession}]
  BY ZenonT(30), NameAssumption DEF Subscribe, Base, TypeOK
<1>2. CASE Registered(c)
  BY ZenonT(30), <1>2 DEF Subscribe, Base, SchedulerSound, Registered
<1>3. CASE ~Registered(c)
  <2> DEFINE n == Len(consumerOrder)
  <2>1. /\ consumerSessions' = [consumerSessions EXCEPT ![c] = s]
        /\ consumerOrder' = Append(consumerOrder, c)
    BY ZenonT(30), <1>3 DEF Subscribe
  <2>2. n \in Nat /\ DOMAIN consumerOrder = 1 .. n
    BY <1>1
  <2>3. /\ consumerOrder' \in Seq(Consumers) /\ Len(consumerOrder') = n + 1
        /\ \A i \in 1 .. n : consumerOrder'[i] = consumerOrder[i]
        /\ consumerOrder'[n + 1] = c
    <3> HIDE DEF c
    <3> QED
      BY <1>1, <2>1, <2>2
  <2>4. DOMAIN consumerOrder' = 1 .. n + 1
    BY <2>3
  <2>5. \A i \in 1 .. n : consumerOrder[i] # c
    BY ZenonT(30), <1>1, <1>3, <2>2 DEF Base, SchedulerSound
  <2>6. s # NoSession
    BY ZenonT(30), NameAssumption
  <2> HIDE DEF n, c
  <2>7. \A x \in Consumers :
          Registered(x)' <=> \E i \in DOMAIN consumerOrder' : consumerOrder'[i] = x
    <3>1. SUFFICES ASSUME NEW x \in Consumers
                   PROVE  Registered(x)' <=> \E i \in 1 .. n + 1 : consumerOrder'[i] = x
      BY ZenonT(30), <2>4
    <3>2. CASE x = c
      BY <1>1, <2>1, <2>2, <2>3, <2>6, <3>2 DEF Registered
    <3>3. CASE x # c
      <4>1. Registered(x)' <=> Registered(x)
        BY ZenonT(30), <1>1, <2>1, <3>3 DEF Registered
      <4>2. Registered(x) <=> \E i \in 1 .. n : consumerOrder[i] = x
        BY ZenonT(30), <2>2 DEF Base, SchedulerSound
      <4>3. (\E i \in 1 .. n : consumerOrder[i] = x)
              <=> \E i \in 1 .. n + 1 : consumerOrder'[i] = x
        BY <2>2, <2>3, <3>3
      <4> QED
        BY ZenonT(30), <4>1, <4>2, <4>3
    <3> QED
      BY ZenonT(30), <3>2, <3>3
  <2>8. \A i, j \in DOMAIN consumerOrder' : consumerOrder'[i] = consumerOrder'[j] => i = j
    <3>1. \A i, j \in 1 .. n : consumerOrder[i] = consumerOrder[j] => i = j
      BY <2>2 DEF Base, SchedulerSound
    <3> QED
      BY <2>2, <2>3, <2>4, <2>5, <3>1
  <2>9. nextConsumer' = 0 \/ nextConsumer' < Len(consumerOrder')
    <3>1. nextConsumer = 0 \/ nextConsumer < n
      BY ZenonT(30) DEF Base, SchedulerSound, n
    <3> QED
      BY <1>1, <2>2, <2>3, <3>1
  <2>10. \A x \in Consumers : Registered(x)' => ConsumerOf[consumerSessions'[x]] = x
    BY ZenonT(30), <1>1, <2>1 DEF Base, SchedulerSound, Registered, c
  <2> QED
    BY ZenonT(30), <2>7, <2>8, <2>9, <2>10 DEF SchedulerSound
<1> QED
  BY ZenonT(30), <1>2, <1>3

\* Unsubscribe removes one place and leaves nextConsumer on a valid one.
LEMMA SchedulerUnsubscribe ==
  ASSUME Base, NEW s \in Sessions, Unsubscribe(s)
  PROVE  SchedulerSound'
<1> DEFINE c == ConsumerOf[s]
<1>1. /\ c \in Consumers /\ consumerOrder \in Seq(Consumers) /\ nextConsumer \in Nat
      /\ consumerSessions \in [Consumers -> Sessions \cup {NoSession}]
  BY ZenonT(30), NameAssumption DEF Base, TypeOK
<1>2. CASE ~Registered(c)
  BY ZenonT(30), <1>2 DEF Unsubscribe, Base, SchedulerSound, Registered
<1>3. CASE Registered(c)
  <2> DEFINE n == Len(consumerOrder)
             q == consumerOrder'
  <2>1. PICK k \in 1 .. n : consumerOrder[k] = c /\ q = DeleteAt(consumerOrder, k)
    BY ZenonT(30), <1>3 DEF Unsubscribe
  <2>2. /\ consumerSessions' = [consumerSessions EXCEPT ![c] = NoSession]
        /\ nextConsumer' = Reindex(n - 1)
    BY ZenonT(30), <1>3 DEF Unsubscribe
  <2>3. n \in Nat \ {0} /\ DOMAIN consumerOrder = 1 .. n /\ k \in Nat
    BY <1>1, <2>1
  <2>4. /\ q \in Seq(Consumers) /\ Len(q) = n - 1
        /\ \A i \in 1 .. n - 1 : q[i] = IF i < k THEN consumerOrder[i] ELSE consumerOrder[i + 1]
    BY ZenonT(30), <1>1, <2>1, DeleteAtProperties
  <2>5. DOMAIN q = 1 .. n - 1
    BY <2>4
  <2>6. \A i, j \in 1 .. n : consumerOrder[i] = consumerOrder[j] => i = j
    BY ZenonT(30), <2>3 DEF Base, SchedulerSound
  <2> HIDE DEF n, c, q
  <2>7. ASSUME NEW x \in Consumers
        PROVE  Registered(x)' <=> \E i \in 1 .. n - 1 : q[i] = x
    <3>1. CASE x = c
      <4>1. ~Registered(x)'
        BY ZenonT(30), <1>1, <2>2, <3>1 DEF Registered
      <4>2. ASSUME NEW i \in 1 .. n - 1, q[i] = x PROVE FALSE
        <5>1. CASE i < k
          BY <2>1, <2>3, <2>4, <2>6, <3>1, <4>2, <5>1
        <5>2. CASE ~(i < k)
          BY <2>1, <2>3, <2>4, <2>6, <3>1, <4>2, <5>2
        <5> QED
          BY ZenonT(30), <5>1, <5>2
      <4> QED
        BY ZenonT(30), <4>1, <4>2
    <3>2. CASE x # c
      <4>1. Registered(x)' <=> Registered(x)
        BY ZenonT(30), <1>1, <2>2, <3>2 DEF Registered
      <4>2. Registered(x) <=> \E i \in 1 .. n : consumerOrder[i] = x
        BY ZenonT(30), <2>3 DEF Base, SchedulerSound
      <4>3. ASSUME NEW i \in 1 .. n, consumerOrder[i] = x
            PROVE  \E h \in 1 .. n - 1 : q[h] = x
        <5>1. i # k
          BY ZenonT(30), <2>1, <3>2, <4>3
        <5>2. CASE i < k
          <6>1. i \in 1 .. n - 1 /\ q[i] = x
            BY <2>3, <2>4, <4>3, <5>2
          <6> QED
            BY ZenonT(30), <6>1
        <5>3. CASE i > k
          <6>1. i - 1 \in 1 .. n - 1 /\ ~(i - 1 < k) /\ (i - 1) + 1 = i
            BY <2>3, <5>3
          <6>2. q[i - 1] = x
            BY ZenonT(30), <2>4, <4>3, <6>1
          <6> QED
            BY ZenonT(30), <6>1, <6>2
        <5> QED
          BY <2>3, <5>1, <5>2, <5>3
      <4>4. ASSUME NEW h \in 1 .. n - 1, q[h] = x
            PROVE  \E i \in 1 .. n : consumerOrder[i] = x
        <5>1. h \in 1 .. n /\ h + 1 \in 1 .. n
          BY <2>3
        <5> QED
          BY ZenonT(30), <2>4, <4>4, <5>1
      <4> QED
        BY ZenonT(30), <4>1, <4>2, <4>3, <4>4
    <3> QED
      BY ZenonT(30), <3>1, <3>2
  <2>8. ASSUME NEW i \in 1 .. n - 1, NEW j \in 1 .. n - 1, q[i] = q[j] PROVE i = j
    <3> DEFINE f(h) == IF h < k THEN h ELSE h + 1
    <3>1. f(i) \in 1 .. n /\ f(j) \in 1 .. n
      BY <2>3
    <3>2. consumerOrder[f(i)] = consumerOrder[f(j)]
      BY ZenonT(30), <2>4, <2>8
    <3>3. f(i) = f(j)
      BY ZenonT(30), <2>6, <3>1, <3>2
    <3> QED
      BY <2>3, <3>3
  <2>9. nextConsumer' = 0 \/ nextConsumer' < Len(q)
    <3>1. CASE n - 1 = 0
      BY ZenonT(30), <2>2, <3>1 DEF Reindex
    <3>2. CASE n - 1 \in Nat \ {0}
      <4>1. nextConsumer % (n - 1) \in 0 .. n - 1 - 1
        BY ZenonT(30), <1>1, <3>2, ModRange
      <4> QED
        BY <2>2, <2>3, <2>4, <3>2, <4>1 DEF Reindex
    <3> QED
      BY <2>3, <3>1, <3>2
  <2>10. \A x \in Consumers : Registered(x)' => ConsumerOf[consumerSessions'[x]] = x
    BY ZenonT(30), <1>1, <2>2 DEF Base, SchedulerSound, Registered
  <2> QED
    BY ZenonT(30), <2>5, <2>7, <2>8, <2>9, <2>10 DEF SchedulerSound, q
<1> QED
  BY ZenonT(30), <1>2, <1>3

\* Every step keeps the rotation and the session table together.
LEMMA SchedulerStep ==
  ASSUME Base, [Next]_vars
  PROVE  SchedulerSound'
<1>1. CASE UNCHANGED rotation
  BY ZenonT(30), <1>1 DEF rotation, Base, SchedulerSound, Registered
<1>2. CASE ReserveDelivery
  <2>1. PICK j \in 0 .. Len(consumerOrder) - 1 :
          nextConsumer' = (nextConsumer + j + 1) % Len(consumerOrder)
    BY ZenonT(30), <1>2 DEF ReserveDelivery
  <2>2. nextConsumer' < Len(consumerOrder)
    BY <2>1, CandidateRegistered DEF Base
  <2>3. UNCHANGED <<consumerSessions, consumerOrder>>
    BY ZenonT(30), <1>2 DEF ReserveDelivery
  <2> QED
    BY ZenonT(30), <2>2, <2>3 DEF Base, SchedulerSound, Registered
<1>3. CASE CloseRuntime \/ CrashRestart
  <2>1. /\ consumerSessions' = [c \in Consumers |-> NoSession]
        /\ consumerOrder' = <<>> /\ nextConsumer' = 0
    BY ZenonT(30), <1>3 DEF CloseRuntime, CrashRestart
  <2>2. DOMAIN consumerOrder' = {}
    BY <2>1
  <2> QED
    BY ZenonT(30), <2>1, <2>2 DEF SchedulerSound, Registered
<1> QED
  BY ZenonT(30), <1>1, <1>2, <1>3, RotationFrame, SchedulerSubscribe, SchedulerUnsubscribe

\* q.mu changes hands only when it is free.
LEMMA LockStep ==
  ASSUME Base, [Next]_vars
  PROVE  LockSound'
<1> USE DEF LockSound
<1>1. CASE UNCHANGED vars
  BY ZenonT(30), <1>1 DEF Base
<1>2. ASSUME NEW m \in Msgs, Publish(m) \/ TTLPasses(m) PROVE LockSound'
  BY ZenonT(30), <1>2 DEF Base, Publish, PublishWait, PublishClosed, PublishAccept, PublishLogError,
     TTLPasses
<1>3. ASSUME NEW d \in inFlight, Ack(d) \/ AckLogError(d) PROVE LockSound'
  BY ZenonT(30), <1>3 DEF Base, Ack, AckLogError
<1>4. ASSUME NEW t \in handed, AckInvalid(t) PROVE LockSound'
  BY ZenonT(30), <1>4 DEF Base, AckInvalid
<1>5. ASSUME NEW s \in Sessions, Subscribe(s) \/ Unsubscribe(s) \/ Receive(s)
      PROVE  LockSound'
  BY ZenonT(30), <1>5 DEF Base, Subscribe, Unsubscribe, Receive
<1>6. ASSUME NEW p \in {"distributor", "expiry"}, DeadLetterHead(p) \/ DeadLetterLogError(p)
      PROVE  LockSound'
  BY ZenonT(30), <1>6 DEF Base, DeadLetterHead, DeadLetterLogError, AtHead, Holds
<1>7. CASE Distributor
  BY ZenonT(30), <1>6, <1>7 DEF Base, Distributor, DistributorTop, DistributorNotified,
     DistributorCancelled, ReserveNothing, ReserveDelivery, SendDelivery, SendRefused,
     CancelReservation, Holds
<1>8. ASSUME NEW w, WorkerExit(w) PROVE LockSound'
  BY ZenonT(30), <1>8 DEF Base, WorkerExit
<1>9. ASSUME NEW d \in sweep, SweepItem(d) PROVE LockSound'
  BY ZenonT(30), <1>9, SweepNextType DEF SweepItem, SweepSkip, SweepDeadLetter, SweepRequeue,
     SweepLogError
<1>10. CASE RedeliveryWorker \/ ExpiryWorker
  BY ZenonT(30), <1>6, <1>8, <1>9, <1>10 DEF Base, RedeliveryWorker, ExpiryWorker, SweepBegin,
     ExpirySweepEnds
<1>11. CASE CancelContext \/ ReleaseTokens \/ AckTimeoutPasses \/ CloseRuntime \/ CrashRestart
  BY ZenonT(30), <1>11 DEF Base, CancelContext, ReleaseTokens, AckTimeoutPasses, CloseRuntime, CrashRestart
<1> QED
  BY ZenonT(30), <1>1, <1>2, <1>3, <1>4, <1>5, <1>7, <1>10, <1>11 DEF Next, Shutdown, CloseIfEmpty

\* The three facts hold together, always.
LEMMA BaseInvariant == Spec => []Base
<1>1. Init => Base
  <2>1. Init => SchedulerSound /\ LockSound
    BY DEF Init, SchedulerSound, LockSound, Registered
  <2> QED
    BY ZenonT(30), <2>1, TypeInit DEF Base
<1>2. Base /\ [Next]_vars => Base'
  BY ZenonT(30), TypeStep, SchedulerStep, LockStep DEF Base
<1> QED
  BY <1>1, <1>2, PTL DEF Spec

\* Every reachable state is well typed: in particular the ring's indices stay
\* inside its slice through every wrap-around, restart and re-push, and the
\* distributor always has a session to send to.
THEOREM TypeCorrect == Spec => []TypeOK
<1>1. Base => TypeOK
  BY ZenonT(30) DEF Base
<1> QED
  BY <1>1, BaseInvariant, PTL

\* nextSession never indexes outside consumerOrder and never meets an id without
\* a session, however Subscribe, Unsubscribe, deletion and restart interleave.
THEOREM SchedulerCorrect == Spec => []SchedulerSound
<1>1. Base => SchedulerSound
  BY ZenonT(30) DEF Base
<1> QED
  BY <1>1, BaseInvariant, PTL

-----------------------------------------------------------------------------
(* The steps that move a message. *)

\* The Publish calls that have not returned.
Unpublished == {m \in Msgs : pub[m] \in {"new", "waiting", "woken"}}

\* A step that leaves every message where it is, in memory and in the log.
Quiet ==
  /\ UNCHANGED <<store, counts, log, ackedIds, removedIds, cancels, crashes, tokens>>
  /\ Accepted' = Accepted /\ Unpublished' \subseteq Unpublished
  /\ held' \in {held, NoDelivery}
  /\ dist' \in {"send", "cancel"} => dist \in {"send", "cancel"} /\ held' = held

\* Waking a publisher, one or all, lets no Publish return.
LEMMA WakeupPub ==
  ASSUME pub \in [Msgs -> PubStates], pub' \in Signal(pub) \/ pub' = Broadcast(pub)
  PROVE  Accepted' = Accepted /\ Unpublished' = Unpublished
<1>1. CASE Waiting(pub) = {} /\ pub' \in Signal(pub)
  BY ZenonT(30), <1>1 DEF Signal, Accepted, Unpublished
<1>2. CASE Waiting(pub) # {} /\ pub' \in Signal(pub)
  <2>1. PICK m \in Waiting(pub) : pub' = [pub EXCEPT ![m] = "woken"]
    BY ZenonT(30), <1>2 DEF Signal
  <2>2. m \in Msgs /\ pub[m] = "waiting"
    BY ZenonT(30) DEF Waiting
  <2> QED
    BY ZenonT(30), <2>1, <2>2 DEF Accepted, Unpublished
<1>3. CASE pub' = Broadcast(pub)
  BY ZenonT(30), <1>3 DEF Broadcast, Accepted, Unpublished
<1> QED
  BY ZenonT(30), <1>1, <1>2, <1>3

\* Every step is quiet or one of eleven operations.
LEMMA StepKinds ==
  ASSUME Base, [Next]_vars
  PROVE  \/ Quiet
         \/ \E m \in Msgs : PublishAccept(m) \/ PublishLogError(m)
         \/ \E d \in inFlight : Ack(d) \/ AckLogError(d)
         \/ \E p \in {"distributor", "expiry"} : DeadLetterHead(p) \/ DeadLetterLogError(p)
         \/ ReserveDelivery \/ CancelReservation
         \/ \E d \in sweep : SweepDeadLetter(d) \/ SweepRequeue(d) \/ SweepLogError(d)
         \/ CrashRestart
<1>0. pub \in [Msgs -> PubStates]
  BY ZenonT(30) DEF Base, TypeOK
<1>1. /\ pub' = pub => Accepted' = Accepted /\ Unpublished' = Unpublished
      /\ pub' = Broadcast(pub) => Accepted' = Accepted /\ Unpublished' = Unpublished
  BY ZenonT(30), <1>0, WakeupPub DEF Accepted, Unpublished
<1>2. CASE UNCHANGED vars
  BY ZenonT(30), <1>1, <1>2 DEF Quiet
<1>3. ASSUME NEW m \in Msgs, PublishWait(m) \/ PublishClosed(m) \/ TTLPasses(m) PROVE Quiet
  <2>1. Accepted' = Accepted /\ Unpublished' \subseteq Unpublished
    <3>1. CASE TTLPasses(m)
      BY ZenonT(30), <3>1, <1>1 DEF TTLPasses
    <3>2. CASE PublishWait(m) \/ PublishClosed(m)
      <4>1. pub[m] \in {"new", "woken"} /\ pub' \in {[pub EXCEPT ![m] = "waiting"], [pub EXCEPT ![m] = "rejected"]}
        BY ZenonT(30), <3>2 DEF PublishWait, PublishClosed, Entering
      <4> QED
        BY ZenonT(30), <1>0, <4>1 DEF Accepted, Unpublished
    <3> QED
      BY ZenonT(30), <1>3, <3>1, <3>2
  <2> QED
    BY ZenonT(30), <1>3, <2>1 DEF Quiet, PublishWait, PublishClosed, TTLPasses
<1>4. CASE \/ \E t \in handed : AckInvalid(t)
           \/ \E s \in Sessions : Subscribe(s) \/ Unsubscribe(s) \/ Receive(s)
  <2>1. /\ UNCHANGED <<store, counts, log, ackedIds, removedIds, cancels, crashes, tokens>>
        /\ UNCHANGED <<pub, held, dist>>
    BY ZenonT(30), <1>4 DEF AckInvalid, Subscribe, Unsubscribe, Receive
  <2> QED
    BY ZenonT(30), <1>1, <2>1 DEF Quiet
<1>5. CASE DistributorTop \/ DistributorNotified \/ DistributorCancelled \/ ReserveNothing
           \/ SendDelivery \/ SendRefused
  BY ZenonT(30), <1>1, <1>5 DEF Quiet, DistributorTop, DistributorNotified, DistributorCancelled,
     ReserveNothing, SendDelivery, SendRefused
<1>6. CASE \/ SweepBegin \/ ExpirySweepEnds \/ \E w \in {"redelivery", "expiry"} : WorkerExit(w)
           \/ \E d \in sweep : SweepSkip(d)
  BY ZenonT(30), <1>1, <1>6 DEF Quiet, SweepBegin, ExpirySweepEnds, WorkerExit, SweepSkip
<1>7. CASE CloseRuntime \/ CancelContext \/ ReleaseTokens \/ AckTimeoutPasses
  BY ZenonT(30), <1>1, <1>7 DEF Quiet, CloseRuntime, CancelContext, ReleaseTokens, AckTimeoutPasses
<1> QED
  BY ZenonT(30), <1>2, <1>3, <1>4, <1>5, <1>6, <1>7 DEF Next, Publish, Distributor, RedeliveryWorker,
     ExpiryWorker, SweepItem, Shutdown, CloseIfEmpty

\* The history of cancellations only grows.
LEMMA CancelsGrow ==
  ASSUME Base, [Next]_vars
  PROVE  cancels \subseteq cancels'
<1>1. cancels' = cancels \/ CancelReservation
  BY ZenonT(30), StepKinds DEF Quiet, PublishAccept, PublishLogError, Ack, AckLogError, DeadLetterHead,
     DeadLetterLogError, ReserveDelivery, SweepDeadLetter, SweepRequeue, SweepLogError,
     CrashRestart
<1> QED
  BY ZenonT(30), <1>1 DEF CancelReservation

\* So does the number of failed appends.
LEMMA FaultsGrow ==
  ASSUME Base, [Next]_vars, walFaults' = 0
  PROVE  walFaults = 0
<1>1. walFaults \in Nat
  BY ZenonT(30), TypeParts DEF LogType
<1>2. walFaults' \in {walFaults, walFaults + 1}
  BY ZenonT(30), StepKinds DEF Quiet, PublishAccept, PublishLogError, Ack, AckLogError, DeadLetterHead,
     DeadLetterLogError, ReserveDelivery, CancelReservation, SweepDeadLetter, SweepRequeue,
     SweepLogError, CrashRestart, LogsRemoval, LogsRemovalFailed, Logged, LogFailed
<1> QED
  BY <1>1, <1>2

\* Only reserveDelivery puts something in flight, and into the distributor's hands.
LEMMA FlightStep ==
  ASSUME Base, [Next]_vars
  PROVE  ReserveDelivery \/ (inFlight' \subseteq inFlight /\ held' \in {held, NoDelivery})
BY ZenonT(30), StepKinds DEF Quiet, PublishAccept, PublishLogError, Ack, AckEffect, AckLogError,
   DeadLetterHead, DeadLetterLogError, CancelReservation, SweepDeadLetter, SweepRequeue,
   SweepLogError, CrashRestart

\* The delivery that the distributor holds is the one in flight under its token.
HeldSound == \A d \in inFlight : d.token = held.token => d = held

\* A new delivery has a token of its own.
LEMMA HeldStep ==
  ASSUME HeldSound, Base, [Next]_vars
  PROVE  HeldSound'
<1>1. tokens \in Nat /\ \A d \in inFlight : d.token \in 1 .. tokens
  BY ZenonT(30), TypeParts DEF StoreType
<1>2. CASE ReserveDelivery
  <2>1. PICK d : d.token = tokens + 1 /\ inFlight' = inFlight \cup {d} /\ held' = d
    BY ZenonT(30), <1>2 DEF ReserveDelivery
  <2> QED
    BY <1>1, <2>1 DEF HeldSound
<1>3. CASE inFlight' \subseteq inFlight /\ held' = held
  BY ZenonT(30), <1>3 DEF HeldSound
<1>4. CASE inFlight' \subseteq inFlight /\ held' = NoDelivery
  BY <1>1, <1>4 DEF HeldSound, NoDelivery
<1> QED
  BY ZenonT(30), <1>2, <1>3, <1>4, FlightStep

\* So the distributor never holds an outdated copy of a delivery in flight.
LEMMA HeldInvariant == Spec => []HeldSound
<1>1. Init => HeldSound
  BY ZenonT(30) DEF Init, HeldSound
<1>2. HeldSound /\ Base /\ [Next]_vars => HeldSound'
  BY ZenonT(30), HeldStep
<1> QED
  BY <1>1, <1>2, BaseInvariant, PTL DEF Spec

\* A Publish call returns nil in PublishAccept and nowhere else, and a Publish call
\* that has returned does not start again.
LEMMA AcceptedBy ==
  ASSUME Base, [Next]_vars
  PROVE  /\ \A m \in Accepted' : m \in Accepted \/ PublishAccept(m)
         /\ Unpublished' \subseteq Unpublished
<1>0. pub \in [Msgs -> PubStates]
  BY ZenonT(30), TypeParts DEF HistType
<1>1. CASE Quiet
  BY ZenonT(30), <1>1 DEF Quiet
<1>2. ASSUME NEW p \in Msgs, PublishAccept(p) \/ PublishLogError(p)
      PROVE  /\ \A m \in Accepted' : m \in Accepted \/ PublishAccept(m)
             /\ Unpublished' \subseteq Unpublished
  <2>1. \/ pub' = [pub EXCEPT ![p] = "accepted"] /\ PublishAccept(p)
        \/ pub' = [pub EXCEPT ![p] = "rejected"]
    BY ZenonT(30), <1>2 DEF PublishAccept, PublishLogError
  <2>2. \A m \in Msgs : m # p => pub'[m] = pub[m]
    BY ZenonT(30), <1>0, <2>1
  <2>3. pub'[p] \notin {"new", "waiting", "woken"} /\ (pub'[p] = "accepted" => PublishAccept(p))
    BY ZenonT(30), <1>0, <2>1
  <2> QED
    BY ZenonT(30), <2>2, <2>3 DEF Accepted, Unpublished
<1>3. CASE CrashRestart
  <2>1. \A m \in Msgs : pub'[m] \in {"rejected", pub[m]}
    BY ZenonT(30), <1>0, <1>3 DEF CrashRestart
  <2> QED
    BY ZenonT(30), <2>1 DEF Accepted, Unpublished
<1>4. CASE UNCHANGED pub \/ pub' \in Signal(pub)
  BY ZenonT(30), <1>0, <1>4, WakeupPub DEF Accepted, Unpublished
<1>5. \/ Quiet \/ CrashRestart \/ UNCHANGED pub \/ pub' \in Signal(pub)
      \/ \E p \in Msgs : PublishAccept(p) \/ PublishLogError(p)
  BY ZenonT(30), StepKinds DEF Ack, AckLogError, DeadLetterHead, DeadLetterLogError, FreesSlot,
     ReserveDelivery, CancelReservation, SweepDeadLetter, SweepRequeue, SweepLogError
<1> QED
  BY ZenonT(30), <1>1, <1>2, <1>3, <1>4, <1>5

\* s lists the n pending messages as a restart has put them into the ring.
Restored(s, n) ==
  /\ n \in Nat /\ s \in [1 .. n -> durable]
  /\ \A i, j \in 1 .. n : i < j => s[i].pos < s[j].pos
  /\ \A e \in durable : \E i \in 1 .. n : s[i] = e
  /\ queue'.cap \in Nat \ {0} /\ n <= queue'.cap
  /\ queue'.head = 0 /\ queue'.size = n /\ queue'.tail = n % queue'.cap
  /\ DOMAIN queue'.items = 0 .. queue'.cap - 1
  /\ \A i \in 0 .. queue'.cap - 1 :
       queue'.items[i] = IF i < n THEN s[i + 1].msg ELSE ZeroMessage
  /\ producedCount' = n

\* A restart fills the first slots with the pending messages in log order.
LEMMA QueueLoad ==
  ASSUME Base, CrashRestart
  PROVE  \E s, n : Restored(s, n)
<1>1. PICK n \in 0 .. Cardinality(durable) : \E s \in [1 .. n -> durable] :
        IsReplay(s) /\ queue' = Loaded(s) /\ producedCount' = Len(s)
  BY ZenonT(30) DEF CrashRestart
<1>2. PICK s \in [1 .. n -> durable] : IsReplay(s) /\ queue' = Loaded(s) /\ producedCount' = Len(s)
  BY ZenonT(30), <1>1
<1>3. n \in Nat /\ Len(s) = n
  OBVIOUS
<1>4. /\ \A i, j \in 1 .. n : i < j => s[i].pos < s[j].pos
      /\ \A e \in durable : \E i \in 1 .. n : s[i] = e
  BY ZenonT(30), <1>2, <1>3 DEF IsReplay
<1> DEFINE cap == IF n > QueueSize THEN n ELSE QueueSize
<1>5. cap \in Nat \ {0} /\ n <= cap
  BY <1>3, ConfigAssumption
<1>6. queue' = [items |-> [i \in 0 .. cap - 1 |-> IF i < n THEN s[i + 1].msg ELSE ZeroMessage],
                head |-> 0, tail |-> n % cap, size |-> n, cap |-> cap]
  BY ZenonT(30), <1>2, <1>3 DEF Loaded
<1> HIDE DEF cap
<1>7. /\ queue'.cap = cap /\ queue'.head = 0 /\ queue'.size = n /\ queue'.tail = n % cap
      /\ DOMAIN queue'.items = 0 .. cap - 1
      /\ \A i \in 0 .. cap - 1 : queue'.items[i] = IF i < n THEN s[i + 1].msg ELSE ZeroMessage
  BY ZenonT(30), <1>6
<1>8. Restored(s, n)
  BY ZenonT(30), <1>2, <1>3, <1>4, <1>5, <1>7 DEF Restored
<1> QED
  BY ZenonT(30), <1>8

\* A cancellation that is not late takes exactly the delivery that it puts back.
LEMMA CancelTakes ==
  ASSUME Base, HeldSound, CancelReservation, "late" \notin cancels'
  PROVE  held \in inFlight /\ inFlight' = inFlight \ {held}
<1>1. held.token \in Tokens
  BY ZenonT(30) DEF CancelReservation
<1>2. held \in inFlight
  BY ZenonT(30), <1>1 DEF Tokens, HeldSound
<1> QED
  BY ZenonT(30), <1>2 DEF CancelReservation, HeldSound

-----------------------------------------------------------------------------
(* Durability. *)

\* The messages that the log accounts for: pending, or removed by a record.
Covered == DurableIds \cup removedIds

\* A message whose Publish returned nil is recovered by Load at every moment,
\* until an Acknowledged or DeadLettered record for it is written: for every
\* interleaving, any number of crashes and any number of failing appends.
THEOREM DurabilityCorrect == Spec => []LogKeepsAccepted
\* An Acknowledged or DeadLettered record, written or half-written, moves an id
\* from the pending ones to the removed ones and forgets none.
<1>RemovalCovers.
      ASSUME NEW id, LogsRemoval(id) \/ LogsRemovalFailed(id)
      PROVE  Covered \subseteq Covered'
  BY ZenonT(30), <1>RemovalCovers DEF LogsRemoval, LogsRemovalFailed, Logged, LogFailed, Forget, Covered, DurableIds
\* A Requeued record replaces the pending copy of its message and forgets none.
<1>RequeueCovers.
      ASSUME NEW m,
             \/ durable' = durable /\ removedIds' = removedIds
             \/ durable' = AfterRequeued(m) /\ removedIds' = removedIds \ {m.id}
      PROVE  Covered \subseteq Covered'
  <2> USE <1>RequeueCovers
  <2>1. CASE durable' = durable /\ removedIds' = removedIds
    BY ZenonT(30), <2>1 DEF Covered, DurableIds
  <2>2. CASE durable' = AfterRequeued(m) /\ removedIds' = removedIds \ {m.id}
    <3>1. [pos |-> lsn + 1, msg |-> m] \in durable'
      BY ZenonT(30), <2>2 DEF AfterRequeued
    <3>2. m.id \in DurableIds'
      BY <3>1 DEF DurableIds
    <3>3. \A e \in durable : e.msg.id # m.id => e \in durable'
      BY ZenonT(30), <2>2 DEF AfterRequeued, Forget
    <3>4. DurableIds \subseteq DurableIds'
      BY ZenonT(30), <3>2, <3>3 DEF DurableIds
    <3> QED
      BY ZenonT(30), <2>2, <3>2, <3>4 DEF Covered
  <2> QED
    BY ZenonT(30), <2>1, <2>2
\* No step makes the log forget a message.
<1>CoverStep.
      ASSUME Base, [Next]_vars
      PROVE  Covered \subseteq Covered'
  <2> USE <1>CoverStep
  <2>1. CASE UNCHANGED <<durable, removedIds>>
    BY ZenonT(30), <2>1 DEF Covered, DurableIds
  <2>2. ASSUME NEW m \in Msgs, Publish(m) \/ TTLPasses(m) PROVE Covered \subseteq Covered'
    <3>1. removedIds' = removedIds /\ durable \subseteq durable'
      BY ZenonT(30), <2>2 DEF Publish, PublishWait, PublishClosed, PublishAccept, PublishLogError,
         TTLPasses, Logged, LogFailed, AfterPublished
    <3> QED
      BY ZenonT(30), <3>1 DEF Covered, DurableIds
  <2>3. ASSUME NEW d \in inFlight, Ack(d) \/ AckLogError(d) PROVE Covered \subseteq Covered'
    <3>1. LogsRemoval(d.msg.id) \/ LogsRemovalFailed(d.msg.id)
      BY ZenonT(30), <2>3 DEF Ack, AckLogError
    <3> QED
      BY ZenonT(30), <3>1, <1>RemovalCovers
  <2>4. ASSUME NEW p \in {"distributor", "expiry"}, DeadLetterHead(p) \/ DeadLetterLogError(p)
        PROVE  Covered \subseteq Covered'
    <3>1. LogsRemoval(Peek(queue).id) \/ LogsRemovalFailed(Peek(queue).id)
      BY ZenonT(30), <2>4 DEF DeadLetterHead, DeadLetterLogError
    <3> QED
      BY ZenonT(30), <3>1, <1>RemovalCovers
  <2>5. CASE Distributor
    BY ZenonT(30), <2>1, <2>4, <2>5 DEF Distributor, DistributorTop, DistributorNotified,
       DistributorCancelled, ReserveNothing, ReserveDelivery, SendDelivery, SendRefused,
       CancelReservation
  <2>6. ASSUME NEW d \in sweep, SweepItem(d) PROVE Covered \subseteq Covered'
    <3> DEFINE m == [d.msg EXCEPT !.retry = @ + 1]
    <3>1. d \in inFlight /\ d.msg \in Message
      BY ZenonT(30) DEF Base, TypeOK
    <3>2. m.id = d.msg.id
      BY ZenonT(30), <3>1 DEF Message
    <3>3. CASE SweepSkip(d)
      BY ZenonT(30), <2>1, <3>3 DEF SweepSkip
    <3>4. CASE SweepDeadLetter(d)
      BY ZenonT(30), <3>4, <1>RemovalCovers DEF SweepDeadLetter
    <3>5. CASE SweepRequeue(d)
      <4>1. durable' = AfterRequeued(m) /\ removedIds' = removedIds \ {m.id}
        BY ZenonT(30), <3>2, <3>5 DEF SweepRequeue, Logged
      <4> QED
        BY ZenonT(30), <4>1, <1>RequeueCovers
    <3>6. CASE SweepLogError(d)
      <4>1. CASE LogsRemovalFailed(d.msg.id)
        BY ZenonT(30), <4>1, <1>RemovalCovers
      <4>2. CASE /\ LogFailed(AfterRequeued(m))
                 /\ removedIds' = IF durable' = durable THEN removedIds
                                                        ELSE removedIds \ {d.msg.id}
        <5>1. \/ durable' = durable /\ removedIds' = removedIds
              \/ durable' = AfterRequeued(m) /\ removedIds' = removedIds \ {m.id}
          BY ZenonT(30), <3>2, <4>2 DEF LogFailed
        <5> QED
          BY ZenonT(30), <5>1, <1>RequeueCovers
      <4> QED
        BY ZenonT(30), <3>6, <4>1, <4>2 DEF SweepLogError
    <3> QED
      BY ZenonT(30), <2>6, <3>3, <3>4, <3>5, <3>6 DEF SweepItem
  <2>7. CASE RedeliveryWorker \/ ExpiryWorker
    BY ZenonT(30), <2>1, <2>4, <2>6, <2>7 DEF RedeliveryWorker, ExpiryWorker, SweepBegin,
       ExpirySweepEnds, WorkerExit
  <2>8. CASE \/ \E t \in handed : AckInvalid(t)
             \/ \E s \in Sessions : Subscribe(s) \/ Unsubscribe(s) \/ Receive(s)
             \/ CloseRuntime \/ CancelContext \/ ReleaseTokens
             \/ CrashRestart \/ AckTimeoutPasses \/ UNCHANGED vars
    <3>1. UNCHANGED <<durable, removedIds>>
      BY ZenonT(30), <2>8 DEF AckInvalid, Subscribe, Unsubscribe, Receive, CloseRuntime, CancelContext,
         ReleaseTokens, CrashRestart, AckTimeoutPasses
    <3> QED
      BY ZenonT(30), <2>1, <3>1
  <2> QED
    BY ZenonT(30), <2>2, <2>3, <2>5, <2>7, <2>8 DEF Next, Shutdown, CloseIfEmpty
\* Only Publish accepts a message, and it has logged it by then.
<1>AcceptStep.
      ASSUME Base, [Next]_vars
      PROVE  Accepted' \subseteq Accepted \cup DurableIds'
  <2> USE <1>AcceptStep
  <2> SUFFICES ASSUME NEW m \in Accepted', m \notin Accepted PROVE m \in DurableIds'
    BY ZenonT(30)
  <2>1. PublishAccept(m)
    BY ZenonT(30), AcceptedBy
  <2> DEFINE e == [pos |-> lsn + 1, msg |-> [id |-> m, retry |-> 0]]
  <2>2. e \in durable' /\ e.msg.id = m
    BY ZenonT(30), <2>1 DEF PublishAccept, Logged, AfterPublished
  <2> QED
    BY ZenonT(30), <2>2 DEF DurableIds
<1>1. Init => LogKeepsAccepted
  BY ZenonT(30) DEF Init, LogKeepsAccepted, Accepted
<1>2. LogKeepsAccepted /\ Base /\ [Next]_vars => LogKeepsAccepted'
  <2> SUFFICES ASSUME LogKeepsAccepted, Base, [Next]_vars PROVE LogKeepsAccepted'
    BY ZenonT(30)
  <2>1. Accepted \subseteq Covered /\ Covered \subseteq Covered'
    BY ZenonT(30), <1>CoverStep DEF LogKeepsAccepted, Covered
  <2>2. Accepted' \subseteq Accepted \cup DurableIds'
    BY ZenonT(30), <1>AcceptStep
  <2>3. DurableIds' \subseteq Covered'
    BY ZenonT(30) DEF Covered
  <2>4. Accepted' \subseteq Covered'
    BY ZenonT(30), <2>1, <2>2, <2>3
  <2> QED
    BY ZenonT(30), <2>4 DEF LogKeepsAccepted, Covered
<1> QED
  BY <1>1, <1>2, BaseInvariant, PTL DEF Spec

-----------------------------------------------------------------------------
(* Tokens. *)

\* An ack token stands for one delivery.
TokenInv ==
  TokensAgree /\ \A d, e \in inFlight : d.token = e.token => d = e

\* The broker's token table lists exactly the deliveries that are in flight,
\* until the queue is closed: no token leaks and none is dropped early.
THEOREM TokensCorrect == Spec => []TokensAgree
\* A delivery that leaves the in-flight table with its token takes no other along.
<1>TokenRemoval.
      ASSUME TokenInv, NEW d \in inFlight, closed' = closed,
             inFlight' = inFlight \ {d}, tokenOwners' = tokenOwners \ {d.token}
      PROVE  TokenInv'
  <2> USE <1>TokenRemoval
  <2>1. Tokens' = Tokens \ {d.token}
    BY ZenonT(30) DEF TokenInv, Tokens
  <2> QED
    BY ZenonT(30), <2>1 DEF TokenInv, TokensAgree
\* Every step keeps the two tables together.
<1>TokenStep.
      ASSUME TokenInv, Base, [Next]_vars
      PROVE  TokenInv'
  <2> USE <1>TokenStep
  <2>1. CASE UNCHANGED <<inFlight, tokenOwners, closed>>
    BY ZenonT(30), <2>1 DEF TokenInv, TokensAgree, Tokens
  <2>2. ASSUME NEW d \in inFlight, Ack(d) PROVE TokenInv'
    <3>1. closed' = closed /\ inFlight' = inFlight \ {d} /\ tokenOwners' = tokenOwners \ {d.token}
      BY ZenonT(30), <2>2 DEF Ack, AckEffect
    <3> QED
      BY ZenonT(30), <3>1, <1>TokenRemoval
  <2>3. ASSUME NEW d \in sweep, SweepItem(d) PROVE TokenInv'
    <3>1. d \in inFlight
      BY ZenonT(30) DEF Base, TypeOK
    <3>2. \/ UNCHANGED <<inFlight, tokenOwners, closed>>
          \/ closed' = closed /\ inFlight' = inFlight \ {d} /\ tokenOwners' = tokenOwners \ {d.token}
      BY ZenonT(30), <2>3 DEF SweepItem, SweepSkip, SweepDeadLetter, SweepRequeue, SweepLogError
    <3> QED
      BY ZenonT(30), <2>1, <3>1, <3>2, <1>TokenRemoval
  <2>4. CASE ReserveDelivery
    <3>1. tokens \in Nat /\ \A d \in inFlight : d.token \in 1 .. tokens
      BY ZenonT(30) DEF Base, TypeOK
    <3>2. PICK d : d.token = tokens + 1 /\ inFlight' = inFlight \cup {d}
      BY ZenonT(30), <2>4 DEF ReserveDelivery
    <3>3. tokenOwners' = tokenOwners \cup {tokens + 1} /\ closed' = closed
      BY ZenonT(30), <2>4 DEF ReserveDelivery
    <3>4. Tokens' = Tokens \cup {tokens + 1}
      BY ZenonT(30), <3>2 DEF Tokens
    <3>5. \A x, y \in inFlight' : x.token = y.token => x = y
      BY <3>1, <3>2 DEF TokenInv
    <3> QED
      BY ZenonT(30), <3>3, <3>4, <3>5 DEF TokenInv, TokensAgree
  <2>5. CASE CancelReservation
    <3>1. /\ inFlight' = {d \in inFlight : d.token # held.token} /\ closed' = closed
          /\ tokenOwners' = tokenOwners \ {held.token}
      BY ZenonT(30), <2>5 DEF CancelReservation, ReleaseToken
    <3>2. Tokens' = Tokens \ {held.token}
      BY ZenonT(30), <3>1 DEF Tokens
    <3> QED
      BY ZenonT(30), <3>1, <3>2 DEF TokenInv, TokensAgree
  <2>6. CASE Distributor
    <3>1. \/ UNCHANGED <<inFlight, tokenOwners, closed>>
          \/ ReserveDelivery \/ CancelReservation
      BY ZenonT(30), <2>6 DEF Distributor, DistributorTop, DistributorNotified, DistributorCancelled,
         DeadLetterHead, DeadLetterLogError, ReserveNothing, SendDelivery, SendRefused
    <3> QED
      BY ZenonT(30), <2>1, <2>4, <2>5, <3>1
  <2>7. CASE RedeliveryWorker \/ ExpiryWorker
    <3>1. UNCHANGED <<inFlight, tokenOwners, closed>> \/ \E d \in sweep : SweepItem(d)
      BY ZenonT(30), <2>7 DEF RedeliveryWorker, ExpiryWorker, SweepBegin, WorkerExit, DeadLetterHead,
         DeadLetterLogError, ExpirySweepEnds
    <3> QED
      BY ZenonT(30), <2>1, <2>3, <3>1
  <2>8. CASE \/ \E m \in Msgs : Publish(m) \/ TTLPasses(m)
             \/ \E d \in inFlight : AckLogError(d)
             \/ \E t \in handed : AckInvalid(t)
             \/ \E s \in Sessions : Subscribe(s) \/ Unsubscribe(s) \/ Receive(s)
             \/ CancelContext \/ AckTimeoutPasses \/ UNCHANGED vars
    <3>1. UNCHANGED <<inFlight, tokenOwners, closed>>
      BY ZenonT(30), <2>8 DEF Publish, PublishWait, PublishClosed, PublishAccept, PublishLogError,
         TTLPasses, AckLogError, AckInvalid, Subscribe, Unsubscribe, Receive, CancelContext,
         AckTimeoutPasses
    <3> QED
      BY ZenonT(30), <2>1, <3>1
  <2>9. CASE CloseRuntime
    <3>1. UNCHANGED <<inFlight, tokenOwners>> /\ closed' = TRUE
      BY ZenonT(30), <2>9 DEF CloseRuntime
    <3> QED
      BY ZenonT(30), <3>1 DEF TokenInv, TokensAgree, Tokens
  <2>10. CASE ReleaseTokens
    <3>1. UNCHANGED <<inFlight, closed>> /\ closed /\ tokenOwners' = {}
      BY ZenonT(30), <2>10 DEF ReleaseTokens
    <3> QED
      BY ZenonT(30), <3>1 DEF TokenInv, TokensAgree, Tokens
  <2>11. CASE CrashRestart
    <3>1. inFlight' = {} /\ tokenOwners' = {}
      BY ZenonT(30), <2>11 DEF CrashRestart
    <3> QED
      BY ZenonT(30), <3>1 DEF TokenInv, TokensAgree, Tokens
  <2> QED
    BY ZenonT(30), <2>2, <2>6, <2>7, <2>8, <2>9, <2>10, <2>11 DEF Next, Shutdown, CloseIfEmpty
<1>1. Init => TokenInv
  BY ZenonT(30) DEF Init, TokenInv, TokensAgree, Tokens
<1>2. TokenInv /\ Base /\ [Next]_vars => TokenInv'
  BY ZenonT(30), <1>TokenStep
<1>3. TokenInv => TokensAgree
  BY ZenonT(30) DEF TokenInv
<1> QED
  BY <1>1, <1>2, <1>3, BaseInvariant, PTL DEF Spec

-----------------------------------------------------------------------------
(* Retries. *)

\* A message that was not retried too often.
Within(m) == m.retry <= MaxRetries

\* The copy that the distributor has in its hands counts too: cancelReservation
\* puts it back into the ring.
RetryInv == RetriesBounded /\ Within(held.msg)

\* No copy of a message, in the ring, in flight or in the log, is ever retried
\* more often than MaxRetries says: also after a restart, which reads the retry
\* count back from the Requeued record.
THEOREM RetriesCorrect == Spec => []RetriesBounded
\* A vacant slot and the absent delivery are within the limit.
<1>ZeroWithin. Within(ZeroMessage) /\ Within(NoDelivery.msg)
  BY ZeroAssumption, ConfigAssumption DEF Within, NoDelivery
\* A removal record leaves only copies that were pending before.
<1>RemovalWithin.
      ASSUME RetryInv, NEW id, LogsRemoval(id) \/ LogsRemovalFailed(id)
      PROVE  \A e \in durable' : Within(e.msg)
  <2> USE <1>RemovalWithin
  <2>1. durable' \subseteq durable
    BY ZenonT(30) DEF LogsRemoval, LogsRemovalFailed, Logged, LogFailed, Forget
  <2> QED
    BY ZenonT(30), <2>1 DEF RetryInv, RetriesBounded, Within
\* A Published or Requeued record adds at most the copy that it carries.
<1>AdditionWithin.
      ASSUME RetryInv, NEW m, Within(m),
             durable' \in {durable, AfterPublished(m), AfterRequeued(m)}
      PROVE  \A e \in durable' : Within(e.msg)
  BY <1>AdditionWithin DEF RetryInv, RetriesBounded, Forget, AfterPublished, AfterRequeued, Within
\* Push brings nothing into the ring but the message pushed.
<1>PushWithin.
      ASSUME RetryInv, Base, NEW m, m \in Message, Within(m),
             queue' = queue \/ queue' = Push(queue, m)
      PROVE  \A i \in DOMAIN queue'.items : Within(queue'.items[i])
  <2> USE <1>PushWithin
  <2>1. IsRing(queue, Message) /\ \A i \in DOMAIN queue.items : Within(queue.items[i])
    BY ZenonT(30) DEF Base, TypeOK, RetryInv, RetriesBounded, Within
  <2>2. CASE queue' = queue
    BY ZenonT(30), <2>1, <2>2
  <2>3. CASE queue' = Push(queue, m)
    <3>1. queue'.items = [queue.items EXCEPT ![queue.tail] = m]
      BY <2>1, <2>3, PushType
    <3> QED
      BY ZenonT(30), <2>1, <3>1
  <2> QED
    BY ZenonT(30), <2>2, <2>3
\* Pop leaves a vacant slot.
<1>PopWithin.
      ASSUME RetryInv, Base, queue.size > 0, queue' = Pop(queue)
      PROVE  \A i \in DOMAIN queue'.items : Within(queue'.items[i])
  <2> USE <1>PopWithin
  <2>1. IsRing(queue, Message) /\ \A i \in DOMAIN queue.items : Within(queue.items[i])
    BY ZenonT(30) DEF Base, TypeOK, RetryInv, RetriesBounded, Within
  <2>2. queue'.items = [queue.items EXCEPT ![queue.head] = ZeroMessage]
    BY ZenonT(30), <2>1, PopType, ZeroIsMessage
  <2> QED
    BY ZenonT(30), <2>1, <2>2, <1>ZeroWithin
\* Every step keeps every copy within the limit.
<1>RetryStep.
      ASSUME RetryInv, Base, [Next]_vars
      PROVE  RetryInv'
  <2> USE <1>RetryStep
  <2> DEFINE Q == \A i \in DOMAIN queue'.items : Within(queue'.items[i])
             D == \A e \in durable' : Within(e.msg)
             F == \A d \in inFlight' : Within(d.msg)
             H == Within(held'.msg)
  <2>1. Q /\ D /\ F /\ H => RetryInv'
    BY ZenonT(30) DEF RetryInv, RetriesBounded, Within
  <2>2. /\ queue' = queue => Q
        /\ durable' = durable => D
        /\ inFlight' \subseteq inFlight => F
        /\ held' \in {held, NoDelivery} => H
    BY ZenonT(30), <1>ZeroWithin DEF RetryInv, RetriesBounded, Within
  <2>3. ASSUME NEW id, LogsRemoval(id) \/ LogsRemovalFailed(id) PROVE D
    BY ZenonT(30), <2>3, <1>RemovalWithin
  <2> HIDE DEF Q, D, F, H
  <2>4. ASSUME NEW m \in Msgs, Publish(m) PROVE RetryInv'
    <3> DEFINE msg == [id |-> m, retry |-> 0]
    <3>1. msg \in Message /\ Within(msg)
      BY ConfigAssumption DEF Message, Within
    <3>2. /\ durable' \in {durable, AfterPublished(msg)} /\ queue' \in {queue, Push(queue, msg)}
          /\ inFlight' = inFlight /\ held' = held
      BY ZenonT(30), <2>4 DEF Publish, PublishWait, PublishClosed, PublishAccept, PublishLogError,
         Logged, LogFailed
    <3> HIDE DEF msg
    <3>3. Q
      BY ZenonT(30), <3>1, <3>2, <1>PushWithin DEF Q
    <3>4. D
      BY ZenonT(30), <3>1, <3>2, <1>AdditionWithin DEF D
    <3> QED
      BY ZenonT(30), <2>1, <2>2, <3>2, <3>3, <3>4
  <2>5. ASSUME NEW d \in inFlight, Ack(d) \/ AckLogError(d) PROVE RetryInv'
    <3>1. /\ LogsRemoval(d.msg.id) \/ LogsRemovalFailed(d.msg.id)
          /\ queue' = queue /\ inFlight' \subseteq inFlight /\ held' = held
      BY ZenonT(30), <2>5 DEF Ack, AckEffect, AckLogError
    <3> QED
      BY ZenonT(30), <2>1, <2>2, <2>3, <3>1
  <2>6. ASSUME NEW p \in {"distributor", "expiry"}, DeadLetterHead(p) \/ DeadLetterLogError(p)
        PROVE  RetryInv'
    <3>1. /\ LogsRemoval(Peek(queue).id) \/ LogsRemovalFailed(Peek(queue).id)
          /\ inFlight' = inFlight /\ held' = held
      BY ZenonT(30), <2>6 DEF DeadLetterHead, DeadLetterLogError
    <3>2. queue.size > 0
      BY ZenonT(30), <2>6 DEF DeadLetterHead, DeadLetterLogError, AtHead, HeadExpired
    <3>3. queue' = queue \/ queue' = Pop(queue)
      BY ZenonT(30), <2>6 DEF DeadLetterHead, DeadLetterLogError
    <3>4. Q
      BY ZenonT(30), <2>2, <3>2, <3>3, <1>PopWithin DEF Q
    <3> QED
      BY ZenonT(30), <2>1, <2>2, <2>3, <3>1, <3>4
  <2>7. CASE ReserveDelivery
    <3>1. Within(Peek(queue))
      BY ZenonT(30) DEF Base, TypeOK, IsRing, Peek, RetryInv, RetriesBounded, Within
    <3>2. PICK d : d.msg = Peek(queue) /\ inFlight' = inFlight \cup {d} /\ held' = d
      BY ZenonT(30), <2>7 DEF ReserveDelivery
    <3>3. queue.size > 0 /\ queue' = Pop(queue) /\ durable' = durable
      BY ZenonT(30), <2>7 DEF ReserveDelivery
    <3>4. Q
      BY ZenonT(30), <3>3, <1>PopWithin DEF Q
    <3>5. F /\ H
      BY ZenonT(30), <3>1, <3>2 DEF F, H, RetryInv, RetriesBounded, Within
    <3> QED
      BY ZenonT(30), <2>1, <2>2, <3>3, <3>4, <3>5
  <2>8. CASE CancelReservation
    <3>1. /\ queue' = Push(queue, held.msg) /\ durable' = durable
          /\ inFlight' \subseteq inFlight /\ held' = NoDelivery
      BY ZenonT(30), <2>8 DEF CancelReservation
    <3>2. held.msg \in Message /\ Within(held.msg)
      BY ZenonT(30) DEF Base, TypeOK, Delivery, RetryInv
    <3>3. Q
      BY ZenonT(30), <3>1, <3>2, <1>PushWithin DEF Q
    <3> QED
      BY ZenonT(30), <2>1, <2>2, <3>1, <3>3
  <2>9. CASE Distributor
    <3>1. \/ /\ UNCHANGED <<queue, durable, inFlight>> /\ held' \in {held, NoDelivery}
          \/ ReserveDelivery \/ CancelReservation
          \/ DeadLetterHead("distributor") \/ DeadLetterLogError("distributor")
      BY ZenonT(30), <2>9 DEF Distributor, DistributorTop, DistributorNotified, DistributorCancelled,
         ReserveNothing, SendDelivery, SendRefused
    <3> QED
      BY ZenonT(30), <2>1, <2>2, <2>6, <2>7, <2>8, <3>1
  <2>10. ASSUME NEW d \in sweep, SweepItem(d) PROVE RetryInv'
    <3> DEFINE msg == [d.msg EXCEPT !.retry = @ + 1]
    <3>1. d \in inFlight /\ d.msg \in Message /\ Within(d.msg)
      BY ZenonT(30) DEF Base, TypeOK, RetryInv, RetriesBounded, Within
    <3>2. ~RetriesSpent(d.msg) => msg \in Message /\ Within(msg)
      BY <3>1, ConfigAssumption DEF RetriesSpent, Message, Within
    <3>3. held' = held /\ inFlight' \subseteq inFlight
      BY ZenonT(30), <2>10 DEF SweepItem, SweepSkip, SweepDeadLetter, SweepRequeue, SweepLogError
    <3>4. \/ UNCHANGED <<queue, durable>>
          \/ queue' = queue /\ (LogsRemoval(d.msg.id) \/ LogsRemovalFailed(d.msg.id))
          \/ /\ ~RetriesSpent(d.msg) /\ queue' \in {queue, Push(queue, msg)}
             /\ durable' \in {durable, AfterRequeued(msg)}
      BY ZenonT(30), <2>10 DEF SweepItem, SweepSkip, SweepDeadLetter, SweepRequeue, SweepLogError, Logged,
         LogFailed
    <3> HIDE DEF msg
    <3>5. Q
      BY <2>2, <3>2, <3>4, <1>PushWithin DEF Q
    <3>6. D
      BY ZenonT(30), <2>2, <2>3, <3>2, <3>4, <1>AdditionWithin DEF D
    <3> QED
      BY ZenonT(30), <2>1, <2>2, <3>3, <3>5, <3>6
  <2>11. CASE RedeliveryWorker \/ ExpiryWorker
    <3>1. \/ UNCHANGED <<queue, durable, inFlight, held>> \/ \E d \in sweep : SweepItem(d)
          \/ DeadLetterHead("expiry") \/ DeadLetterLogError("expiry")
      BY ZenonT(30), <2>11 DEF RedeliveryWorker, ExpiryWorker, SweepBegin, WorkerExit, ExpirySweepEnds
    <3> QED
      BY ZenonT(30), <2>1, <2>2, <2>6, <2>10, <3>1
  <2>12. CASE CrashRestart
    <3>1. PICK s, n : Restored(s, n)
      BY ZenonT(30), <2>12, QueueLoad
    <3>2. inFlight' = {} /\ held' = NoDelivery /\ durable' = durable
      BY ZenonT(30), <2>12 DEF CrashRestart
    <3>3. /\ n \in Nat /\ s \in [1 .. n -> durable]
          /\ DOMAIN queue'.items = 0 .. queue'.cap - 1 /\ queue'.cap \in Nat
          /\ \A i \in 0 .. queue'.cap - 1 :
               queue'.items[i] = IF i < n THEN s[i + 1].msg ELSE ZeroMessage
      BY ZenonT(30), <3>1 DEF Restored
    <3>4. \A i \in 1 .. n : Within(s[i].msg)
      BY ZenonT(30), <3>3 DEF RetryInv, RetriesBounded, Within
    <3>5. Q
      BY <3>3, <3>4, <1>ZeroWithin DEF Q
    <3> QED
      BY ZenonT(30), <2>1, <2>2, <3>2, <3>5
  <2>13. CASE \/ \E m \in Msgs : TTLPasses(m)
              \/ \E t \in handed : AckInvalid(t)
              \/ \E s \in Sessions : Subscribe(s) \/ Unsubscribe(s) \/ Receive(s)
              \/ CloseRuntime \/ CancelContext \/ ReleaseTokens \/ AckTimeoutPasses
              \/ UNCHANGED vars
    <3>1. UNCHANGED <<queue, durable, inFlight, held>>
      BY ZenonT(30), <2>13 DEF TTLPasses, AckInvalid, Subscribe, Unsubscribe, Receive, CloseRuntime,
         CancelContext, ReleaseTokens, AckTimeoutPasses
    <3> QED
      BY ZenonT(30), <2>1, <2>2, <3>1
  <2> QED
    BY ZenonT(30), <2>4, <2>5, <2>9, <2>11, <2>12, <2>13 DEF Next, Shutdown, CloseIfEmpty
<1>1. Init => RetryInv
  <2> SUFFICES ASSUME Init PROVE RetryInv
    BY ZenonT(30)
  <2>1. queue.items = [i \in 0 .. QueueSize - 1 |-> ZeroMessage]
    BY ZenonT(30) DEF Init, NewRing
  <2>2. \A i \in DOMAIN queue.items : queue.items[i] = ZeroMessage
    BY ZenonT(30), <2>1
  <2>3. inFlight = {} /\ durable = {} /\ held = NoDelivery
    BY ZenonT(30) DEF Init
  <2> QED
    BY ZenonT(30), <2>2, <2>3, <1>ZeroWithin DEF RetryInv, RetriesBounded, Within
<1>2. RetryInv /\ Base /\ [Next]_vars => RetryInv'
  BY ZenonT(30), <1>RetryStep
<1>3. RetryInv => RetriesBounded
  BY ZenonT(30) DEF RetryInv
<1> QED
  BY <1>1, <1>2, <1>3, BaseInvariant, PTL DEF Spec
=============================================================================
