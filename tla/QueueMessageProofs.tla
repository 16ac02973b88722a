------------------------- MODULE QueueMessageProofs -------------------------
(***************************************************************************)
(* Where the messages of the queue are: none is lost, an acknowledged one  *)
(* does not come back, the log holds exactly what is in memory, and the    *)
(* ring is in log order. The proofs follow every copy of a message through *)
(* the ring, the deliveries in flight and the log.                         *)
(***************************************************************************)
EXTENDS QueueRuntimeProofs

USE DEF vars, data, store, counts, log, hist, sched, conns, ctl, lock, distr,
        env, life, clocks, Notify

\* A step that names no prover is given more time than the default.
USE SMTT(30), ZenonT(30)

-----------------------------------------------------------------------------
(* The ring, slot by slot. *)

\* h + s reduced modulo c, for h < c and s <= c.
Wrap(h, s, c) == IF h + s >= c THEN h + s - c ELSE h + s

\* Appending one element moves the end of the window one step.
LEMMA WrapPush ==
  ASSUME NEW c \in Nat \ {0}, NEW h \in 0 .. c - 1, NEW s \in 0 .. c - 1,
         NEW t, t = Wrap(h, s, c)
  PROVE  Wrap(h, s + 1, c) = IF t + 1 = c THEN 0 ELSE t + 1
BY DEF Wrap

\* Removing the oldest element moves the start and leaves the end.
LEMMA WrapPop ==
  ASSUME NEW c \in Nat \ {0}, NEW h \in 0 .. c - 1, NEW s \in 1 .. c,
         NEW g, g = IF h + 1 = c THEN 0 ELSE h + 1
  PROVE  Wrap(g, s - 1, c) = Wrap(h, s, c)
BY DEF Wrap

\* In a ring that is not full the tail is the slot after the occupied ones.
LEMMA CoherentOffsets ==
  ASSUME NEW V, NEW r, IsRing(r, V), Coherent(r), r.size # r.cap
  PROVE  /\ Offset(r, r.tail) = r.size
         /\ \A i \in DOMAIN r.items : r.items[i] # ZeroMessage =>
              Offset(r, i) < r.size /\ Offset(r, i) \in Int
<1>1. /\ r.cap \in Nat \ {0} /\ r.head \in 0 .. r.cap - 1 /\ r.tail \in 0 .. r.cap - 1
      /\ r.size \in Nat /\ DOMAIN r.items = 0 .. r.cap - 1
  BY ZenonT(30) DEF IsRing
<1>2. Offset(r, r.tail) = r.size
  BY <1>1 DEF Coherent, Offset
<1>3. \A i \in 0 .. r.cap - 1 : Offset(r, i) \in Int
  BY <1>1 DEF Offset
<1> QED
  BY ZenonT(30), <1>1, <1>2, <1>3 DEF Coherent

\* A Push into a ring that is not full fills a vacant slot and nothing else.
LEMMA PushCoherent ==
  ASSUME NEW V, NEW r, IsRing(r, V), Coherent(r), r.size < r.cap,
         NEW m \in V, m # ZeroMessage
  PROVE  /\ r.items[r.tail] = ZeroMessage
         /\ Coherent(Push(r, m))
<1> DEFINE p == Push(r, m)
<1>1. /\ IsRing(p, V) /\ p.size = r.size + 1 /\ p.cap = r.cap /\ p.head = r.head
      /\ p.tail = Advance(r.tail, r.cap) /\ p.items = [r.items EXCEPT ![r.tail] = m]
  BY PushType
<1>2. /\ r.cap \in Nat \ {0} /\ r.head \in 0 .. r.cap - 1 /\ r.tail \in 0 .. r.cap - 1
      /\ r.size \in Nat /\ r.items \in [0 .. r.cap - 1 -> V]
  BY ZenonT(30) DEF IsRing
<1>3. p.tail = IF r.tail + 1 = r.cap THEN 0 ELSE r.tail + 1
  BY ZenonT(30), <1>1, <1>2, AdvanceStep
<1>4. Offset(r, r.tail) = r.size
  BY <1>2 DEF Coherent, Offset
<1>5. r.items[r.tail] = ZeroMessage
  BY <1>2, <1>4 DEF Coherent
<1>6. ASSUME NEW i \in 0 .. r.cap - 1
      PROVE  p.items[i] # ZeroMessage <=> Offset(p, i) < p.size
  <2>1. Offset(p, i) = Offset(r, i) /\ Offset(r, i) \in Nat
    BY <1>1, <1>2 DEF Offset
  <2>2. CASE i = r.tail
    BY <2>1, <2>2, <1>1, <1>2, <1>4
  <2>3. CASE i # r.tail
    <3>1. Offset(r, i) # r.size
      BY <2>3, <1>2 DEF Coherent, Offset
    <3>2. p.items[i] = r.items[i]
      BY ZenonT(30), <2>3, <1>1, <1>2
    <3> QED
      BY <3>1, <3>2, <2>1, <1>1, <1>2 DEF Coherent
  <2> QED
    BY ZenonT(30), <2>2, <2>3
<1>7. p.size <= p.cap
  BY <1>1, <1>2
<1>8. p.tail = Wrap(p.head, p.size, p.cap)
  <2>1. r.tail = Wrap(r.head, r.size, r.cap)
    BY ZenonT(30) DEF Coherent, Wrap
  <2>2. r.size \in 0 .. r.cap - 1
    BY <1>2
  <2>3. Wrap(r.head, r.size + 1, r.cap) = IF r.tail + 1 = r.cap THEN 0 ELSE r.tail + 1
    BY <2>1, <2>2, <1>2, WrapPush
  <2> QED
    BY ZenonT(30), <2>3, <1>1, <1>3
<1>9. \A i \in 0 .. p.cap - 1 : p.items[i] # ZeroMessage <=> Offset(p, i) < p.size
  BY ZenonT(30), <1>6, <1>1
<1> QED
  BY ZenonT(30), <1>5, <1>7, <1>8, <1>9 DEF Coherent, Wrap

\* A Pop of a ring that is not empty returns a real message and vacates exactly
\* its slot.
LEMMA PopCoherent ==
  ASSUME NEW V, ZeroMessage \in V, NEW r, IsRing(r, V), Coherent(r), r.size > 0
  PROVE  /\ Peek(r) # ZeroMessage
         /\ Coherent(Pop(r))
<1> DEFINE p == Pop(r)
<1>1. /\ IsRing(p, V) /\ p.size = r.size - 1 /\ p.cap = r.cap /\ p.tail = r.tail
      /\ p.head = Advance(r.head, r.cap)
      /\ p.items = [r.items EXCEPT ![r.head] = ZeroMessage]
  BY ZenonT(30), PopType
<1>2. /\ r.cap \in Nat \ {0} /\ r.head \in 0 .. r.cap - 1 /\ r.tail \in 0 .. r.cap - 1
      /\ r.size \in Nat /\ r.items \in [0 .. r.cap - 1 -> V]
  BY ZenonT(30) DEF IsRing
<1>3. p.head = IF r.head + 1 = r.cap THEN 0 ELSE r.head + 1
  BY ZenonT(30), <1>1, <1>2, AdvanceStep
<1>4. Peek(r) # ZeroMessage
  BY <1>2 DEF Coherent, Offset, Peek
<1>5. p.size <= p.cap
  BY <1>1, <1>2 DEF Coherent
<1>6. p.tail = Wrap(p.head, p.size, p.cap)
  <2>1. r.tail = Wrap(r.head, r.size, r.cap) /\ r.size <= r.cap
    BY ZenonT(30) DEF Coherent, Wrap
  <2>2. r.size \in 1 .. r.cap
    BY <2>1, <1>2
  <2>3. Wrap(p.head, r.size - 1, r.cap) = Wrap(r.head, r.size, r.cap)
    BY ZenonT(30), <2>2, <1>2, <1>3, WrapPop
  <2> QED
    BY ZenonT(30), <2>1, <2>3, <1>1
<1>7. ASSUME NEW i \in 0 .. p.cap - 1
      PROVE  p.items[i] # ZeroMessage <=> Offset(p, i) < p.size
  <2>1. i \in 0 .. r.cap - 1 /\ Offset(r, i) \in Nat
    BY <1>1, <1>2 DEF Offset
  <2>2. CASE i = r.head
    <3>1. Offset(p, i) = r.cap - 1
      BY <2>2, <1>1, <1>2, <1>3 DEF Offset
    <3>2. p.items[i] = ZeroMessage
      BY ZenonT(30), <2>2, <1>1, <1>2
    <3> QED
      BY <3>1, <3>2, <1>1, <1>2 DEF Coherent
  <2>3. CASE i # r.head
    <3>1. Offset(p, i) = Offset(r, i) - 1
      <4>1. CASE r.head + 1 = r.cap
        BY <4>1, <2>3, <2>1, <1>1, <1>2, <1>3 DEF Offset
      <4>2. CASE r.head + 1 # r.cap
        <5>1. p.head = r.head + 1 /\ p.cap = r.cap
          BY ZenonT(30), <4>2, <1>3, <1>1
        <5>2. r.head \in Nat /\ r.cap \in Nat /\ i \in Nat
          BY <1>2, <2>1
        <5>3. CASE i < r.head
          BY <5>1, <5>2, <5>3 DEF Offset
        <5>4. CASE i > r.head
          BY <5>1, <5>2, <5>4 DEF Offset
        <5> QED
          BY <5>2, <5>3, <5>4, <2>3
      <4> QED
        BY ZenonT(30), <4>1, <4>2
    <3>2. p.items[i] = r.items[i]
      BY ZenonT(30), <2>3, <2>1, <1>1, <1>2
    <3> QED
      BY <3>1, <3>2, <2>1, <1>1, <1>2 DEF Coherent
  <2> QED
    BY ZenonT(30), <2>2, <2>3
<1> QED
  BY ZenonT(30), <1>4, <1>5, <1>6, <1>7 DEF Coherent, Wrap

\* What a Push does to the slots of the queue.
LEMMA QueuePush ==
  ASSUME Base, NEW m \in Message, queue' = Push(queue, m)
  PROVE  /\ DOMAIN queue'.items = DOMAIN queue.items /\ queue.tail \in DOMAIN queue.items
         /\ \A i \in DOMAIN queue.items :
              queue'.items[i] = IF i = queue.tail THEN m ELSE queue.items[i]
         /\ queue'.size = queue.size + 1 /\ queue'.cap = queue.cap /\ queue'.head = queue.head
<1>1. IsRing(queue, Message)
  BY ZenonT(30), TypeParts DEF StoreType
<1>2. queue.tail \in 0 .. queue.cap - 1 /\ queue.items \in [0 .. queue.cap - 1 -> Message]
  BY ZenonT(30), <1>1 DEF IsRing
<1>3. /\ queue'.items = [queue.items EXCEPT ![queue.tail] = m]
      /\ queue'.size = queue.size + 1 /\ queue'.cap = queue.cap /\ queue'.head = queue.head
  BY <1>1, PushType
<1> QED
  BY ZenonT(30), <1>2, <1>3

\* What a Pop of a queue that is not empty does to them.
LEMMA QueuePop ==
  ASSUME Base, queue.size > 0, queue' = Pop(queue)
  PROVE  /\ DOMAIN queue'.items = DOMAIN queue.items /\ queue.head \in DOMAIN queue.items
         /\ Peek(queue) = queue.items[queue.head]
         /\ \A i \in DOMAIN queue.items :
              queue'.items[i] = IF i = queue.head THEN ZeroMessage ELSE queue.items[i]
         /\ queue'.size = queue.size - 1 /\ queue'.cap = queue.cap
         /\ queue'.head = IF queue.head + 1 = queue.cap THEN 0 ELSE queue.head + 1
<1>1. IsRing(queue, Message)
  BY ZenonT(30), TypeParts DEF StoreType
<1>2. queue.head \in 0 .. queue.cap - 1 /\ queue.items \in [0 .. queue.cap - 1 -> Message]
  BY ZenonT(30), <1>1 DEF IsRing
<1>3. /\ queue'.items = [queue.items EXCEPT ![queue.head] = ZeroMessage]
      /\ queue'.size = queue.size - 1 /\ queue'.cap = queue.cap
      /\ queue'.head = Advance(queue.head, queue.cap)
  BY ZenonT(30), <1>1, PopType, ZeroIsMessage
<1>4. queue'.head = IF queue.head + 1 = queue.cap THEN 0 ELSE queue.head + 1
  <2>1. queue.cap \in Nat \ {0} /\ queue.head \in 0 .. queue.cap - 1
    BY ZenonT(30), <1>1 DEF IsRing
  <2> QED
    BY ZenonT(30), <1>3, <2>1, AdvanceStep
<1> QED
  BY ZenonT(30), <1>2, <1>3, <1>4 DEF Peek

\* The slots hold real messages exactly where the ring says it is occupied.
SlotsSound ==
  /\ Coherent(queue)
  /\ \A i \in DOMAIN queue.items : queue.items[i] = ZeroMessage \/ queue.items[i].id \in Msgs

\* As long as no cancellation has pushed into a full ring, the ring is coherent and
\* everything that can be pushed into it is a real message.
RingSound ==
  "overrun" \notin cancels =>
    /\ SlotsSound
    /\ \A d \in inFlight : d.msg.id \in Msgs
    /\ \A e \in durable : e.msg.id \in Msgs
    /\ dist \in {"send", "cancel"} => held.msg.id \in Msgs

\* A Push of a real message with room for it.
LEMMA RingPush ==
  ASSUME Base, SlotsSound, ~Full(queue), NEW m \in Message, m.id \in Msgs,
         queue' = Push(queue, m)
  PROVE  SlotsSound' /\ queue.items[queue.tail] = ZeroMessage
<1>1. IsRing(queue, Message) /\ queue.size <= queue.cap
  BY ZenonT(30), TypeParts DEF StoreType, SlotsSound, Coherent
<1>2. queue.size < queue.cap
  BY <1>1 DEF Full, IsRing
<1>3. m # ZeroMessage
  BY ZeroAssumption, NameAssumption
<1>4. Coherent(queue') /\ queue.items[queue.tail] = ZeroMessage
  BY ZenonT(30), <1>1, <1>2, <1>3, PushCoherent DEF SlotsSound
<1>5. \A i \in DOMAIN queue'.items : queue'.items[i] = ZeroMessage \/ queue'.items[i].id \in Msgs
  BY QueuePush DEF SlotsSound
<1> QED
  BY ZenonT(30), <1>4, <1>5 DEF SlotsSound

\* A Pop of the oldest message.
LEMMA RingPop ==
  ASSUME Base, SlotsSound, queue.size > 0, queue' = Pop(queue)
  PROVE  SlotsSound' /\ Peek(queue).id \in Msgs
<1>1. IsRing(queue, Message)
  BY ZenonT(30), TypeParts DEF StoreType
<1>2. Coherent(queue') /\ Peek(queue) # ZeroMessage
  BY ZenonT(30), <1>1, PopCoherent, ZeroIsMessage DEF SlotsSound
<1>3. \A i \in DOMAIN queue'.items : queue'.items[i] = ZeroMessage \/ queue'.items[i].id \in Msgs
  BY ZenonT(30), QueuePop DEF SlotsSound
<1> QED
  BY ZenonT(30), <1>2, <1>3, QueuePop DEF SlotsSound

\* A number below twice the divisor.
LEMMA ModOnce ==
  ASSUME NEW c \in Nat \ {0}, NEW n \in 0 .. c + c - 1
  PROVE  n % c = IF n >= c THEN n - c ELSE n
<1>1. CASE n < c
  BY <1>1
<1>2. CASE n >= c
  <2>1. n = c * 1 + (n - c) /\ n - c \in 0 .. c - 1
    BY <1>2
  <2> QED
    BY <2>1, <1>2
<1> QED
  BY <1>1, <1>2

\* A removal record leaves only entries that were pending before.
LEMMA RemovalShrinks ==
  ASSUME NEW id, LogsRemoval(id) \/ LogsRemovalFailed(id)
  PROVE  durable' \subseteq durable
BY ZenonT(30) DEF LogsRemoval, LogsRemovalFailed, Logged, LogFailed, Forget

\* A cancellation that does not overrun the ring finds room in it.
LEMMA CancelRoom ==
  ASSUME Base, CancelReservation, "overrun" \notin cancels'
  PROVE  ~Full(queue)
<1>1. queue.size \in Nat /\ queue.cap \in Nat
  BY ZenonT(30), TypeParts DEF StoreType, IsRing
<1>2. ~(queue.size >= queue.cap)
  BY ZenonT(30) DEF CancelReservation
<1> QED
  BY <1>1, <1>2 DEF Full

\* The ring is sound throughout.
LEMMA RingInvariant == Spec => []RingSound
\* The ring that a restart builds.
<1>RingLoad.
      ASSUME Base, CrashRestart, \A e \in durable : e.msg.id \in Msgs
      PROVE  SlotsSound'
  <2> USE <1>RingLoad
  <2>1. PICK s, n : Restored(s, n)
    BY ZenonT(30), QueueLoad
  <2>2. /\ n \in Nat /\ queue'.cap \in Nat \ {0} /\ n <= queue'.cap
        /\ queue'.head = 0 /\ queue'.size = n /\ queue'.tail = n % queue'.cap
        /\ DOMAIN queue'.items = 0 .. queue'.cap - 1
        /\ \A i \in 0 .. queue'.cap - 1 :
             queue'.items[i] = IF i < n THEN s[i + 1].msg ELSE ZeroMessage
        /\ s \in [1 .. n -> durable]
    BY ZenonT(30), <2>1 DEF Restored
  <2>3. \A i \in 1 .. n : s[i].msg.id \in Msgs
    BY ZenonT(30), <2>2
  <2>4. \A i \in 0 .. queue'.cap - 1 : i < n => queue'.items[i].id \in Msgs
    BY <2>2, <2>3
  <2>5. \A i \in 0 .. queue'.cap - 1 : i < n => queue'.items[i] # ZeroMessage
    BY <2>4, ZeroAssumption, NameAssumption
  <2>6. \A i \in 0 .. queue'.cap - 1 : queue'.items[i] # ZeroMessage <=> Offset(queue', i) < queue'.size
    BY <2>2, <2>5 DEF Offset
  <2>7. queue'.tail = IF n >= queue'.cap THEN n - queue'.cap ELSE n
    BY <2>2, ModOnce
  <2>8. Coherent(queue')
    BY <2>2, <2>6, <2>7 DEF Coherent
  <2>9. \A i \in DOMAIN queue'.items : queue'.items[i] = ZeroMessage \/ queue'.items[i].id \in Msgs
    BY ZenonT(30), <2>2, <2>4
  <2> QED
    BY ZenonT(30), <2>8, <2>9 DEF SlotsSound
\* The ring starts empty.
<1>RingInit.
      ASSUME Init
      PROVE  RingSound
  <2> USE <1>RingInit
  <2>1. Coherent(NewRing(QueueSize)) /\ QueueSize \in Nat \ {0}
    BY ZenonT(30), NewRingType, ZeroIsMessage, ConfigAssumption
  <2>2. \A i \in DOMAIN NewRing(QueueSize).items : NewRing(QueueSize).items[i] = ZeroMessage
    BY ZenonT(30), <2>1 DEF NewRing
  <2>3. SlotsSound
    BY ZenonT(30), <2>1, <2>2 DEF Init, SlotsSound
  <2> QED
    BY ZenonT(30), <2>3 DEF Init, RingSound
\* Every step keeps the ring coherent unless it overruns it.
<1>RingStep.
      ASSUME RingSound, Base, [Next]_vars
      PROVE  RingSound'
  <2> USE <1>RingStep
  <2> SUFFICES ASSUME "overrun" \notin cancels' PROVE RingSound'
    BY ZenonT(30) DEF RingSound
  <2> DEFINE F == \A d \in inFlight' : d.msg.id \in Msgs
             D == \A e \in durable' : e.msg.id \in Msgs
             H == dist' \in {"send", "cancel"} => held'.msg.id \in Msgs
  <2>1. SlotsSound' /\ F /\ D /\ H => RingSound'
    BY ZenonT(30) DEF RingSound
  <2>2. cancels \subseteq cancels'
    BY ZenonT(30), CancelsGrow
  <2>3. /\ SlotsSound /\ \A d \in inFlight : d.msg.id \in Msgs
        /\ \A e \in durable : e.msg.id \in Msgs
        /\ dist \in {"send", "cancel"} => held.msg.id \in Msgs
    BY ZenonT(30), <2>2 DEF RingSound
  <2>4. /\ queue' = queue => SlotsSound'
        /\ durable' \subseteq durable => D
        /\ inFlight' \subseteq inFlight => F
        /\ UNCHANGED <<dist, held>> => H
    BY ZenonT(30), <2>3 DEF SlotsSound
  <2>5. ASSUME NEW id, LogsRemoval(id) \/ LogsRemovalFailed(id) PROVE D
    BY ZenonT(30), <2>4, <2>5, RemovalShrinks
  <2> HIDE DEF F, D, H
  <2>6. CASE Quiet
    <3>1. H
      BY ZenonT(30), <2>3, <2>6 DEF Quiet, H
    <3> QED
      BY ZenonT(30), <2>1, <2>4, <2>6, <3>1 DEF Quiet
  <2>7. ASSUME NEW m \in Msgs, PublishAccept(m) \/ PublishLogError(m) PROVE RingSound'
    <3> DEFINE msg == [id |-> m, retry |-> 0]
    <3>1. msg \in Message /\ msg.id \in Msgs
      BY ZenonT(30) DEF Message
    <3>2. /\ queue' = queue \/ (queue' = Push(queue, msg) /\ ~Full(queue))
          /\ durable' \subseteq AfterPublished(msg)
          /\ inFlight' = inFlight /\ UNCHANGED <<dist, held>>
      BY ZenonT(30), <2>7 DEF PublishAccept, PublishLogError, Logged, LogFailed, AfterPublished, MustWait
    <3>3. D
      BY <2>3, <3>1, <3>2 DEF AfterPublished, D
    <3> HIDE DEF msg
    <3>4. SlotsSound'
      BY ZenonT(30), <2>3, <2>4, <3>1, <3>2, RingPush
    <3> QED
      BY ZenonT(30), <2>1, <2>4, <3>2, <3>3, <3>4
  <2>8. ASSUME NEW d \in inFlight, Ack(d) \/ AckLogError(d) PROVE RingSound'
    <3>1. /\ LogsRemoval(d.msg.id) \/ LogsRemovalFailed(d.msg.id)
          /\ queue' = queue /\ inFlight' \subseteq inFlight /\ UNCHANGED <<dist, held>>
      BY ZenonT(30), <2>8 DEF Ack, AckEffect, AckLogError
    <3> QED
      BY ZenonT(30), <2>1, <2>4, <2>5, <3>1
  <2>9. ASSUME NEW p \in {"distributor", "expiry"}, DeadLetterHead(p) \/ DeadLetterLogError(p)
        PROVE  RingSound'
    <3>1. /\ LogsRemoval(Peek(queue).id) \/ LogsRemovalFailed(Peek(queue).id)
          /\ inFlight' = inFlight /\ UNCHANGED <<held>>
          /\ dist' \in {dist, "top"}
      BY ZenonT(30), <2>9 DEF DeadLetterHead, DeadLetterLogError
    <3>2. queue.size > 0 /\ (queue' = queue \/ queue' = Pop(queue))
      BY ZenonT(30), <2>9 DEF DeadLetterHead, DeadLetterLogError, AtHead, HeadExpired
    <3>3. SlotsSound'
      BY ZenonT(30), <2>3, <2>4, <3>2, RingPop
    <3>4. H
      BY ZenonT(30), <2>3, <3>1 DEF H
    <3> QED
      BY ZenonT(30), <2>1, <2>4, <2>5, <3>1, <3>3, <3>4
  <2>10. CASE ReserveDelivery
    <3>1. PICK d : d.msg = Peek(queue) /\ inFlight' = inFlight \cup {d} /\ held' = d
      BY ZenonT(30), <2>10 DEF ReserveDelivery
    <3>2. queue.size > 0 /\ queue' = Pop(queue) /\ durable' = durable
      BY ZenonT(30), <2>10 DEF ReserveDelivery
    <3>3. SlotsSound' /\ Peek(queue).id \in Msgs
      BY ZenonT(30), <2>3, <3>2, RingPop
    <3>4. F /\ H
      BY ZenonT(30), <2>3, <3>1, <3>3 DEF F, H
    <3> QED
      BY ZenonT(30), <2>1, <2>4, <3>2, <3>3, <3>4
  <2>11. CASE CancelReservation
    <3>1. /\ queue' = Push(queue, held.msg) /\ durable' = durable /\ dist = "cancel"
          /\ inFlight' \subseteq inFlight /\ dist' = "reserve"
      BY ZenonT(30), <2>11 DEF CancelReservation
    <3>2. ~Full(queue)
      BY ZenonT(30), <2>11, CancelRoom
    <3>3. held.msg \in Message
      BY ZenonT(30), TypeParts DEF CtlType, Delivery
    <3>4. SlotsSound'
      BY ZenonT(30), <2>3, <3>1, <3>2, <3>3, RingPush
    <3>5. H
      BY ZenonT(30), <3>1 DEF H
    <3> QED
      BY <2>1, <2>4, <3>1, <3>4, <3>5
  <2>12. ASSUME NEW d \in sweep, SweepDeadLetter(d) \/ SweepRequeue(d) \/ SweepLogError(d)
         PROVE  RingSound'
    <3> DEFINE msg == [d.msg EXCEPT !.retry = @ + 1]
    <3>1. d.msg \in Message /\ d.msg.id \in Msgs
      BY ZenonT(30), <2>3, TypeParts DEF StoreType
    <3>2. msg \in Message /\ msg.id \in Msgs
      BY <3>1 DEF Message
    <3>3. /\ UNCHANGED <<dist, held>> /\ inFlight' \subseteq inFlight
          /\ queue' = queue \/ (queue' = Push(queue, msg) /\ ~Full(queue))
          /\ \/ LogsRemoval(d.msg.id) \/ LogsRemovalFailed(d.msg.id)
             \/ durable' \in {durable, AfterRequeued(msg)}
      BY ZenonT(30), <2>12 DEF SweepDeadLetter, SweepRequeue, SweepLogError, Logged, LogFailed
    <3> HIDE DEF msg
    <3>4. SlotsSound'
      BY ZenonT(30), <2>3, <2>4, <3>2, <3>3, RingPush
    <3>5. D
      <4>1. CASE durable' \in {durable, AfterRequeued(msg)}
        BY <2>3, <3>2, <4>1 DEF AfterRequeued, Forget, D
      <4> QED
        BY ZenonT(30), <2>5, <3>3, <4>1
    <3> QED
      BY ZenonT(30), <2>1, <2>4, <3>3, <3>4, <3>5
  <2>13. CASE CrashRestart
    <3>1. inFlight' = {} /\ dist' = "top" /\ durable' = durable
      BY ZenonT(30), <2>13 DEF CrashRestart
    <3>2. SlotsSound'
      BY ZenonT(30), <2>3, <2>13, <1>RingLoad
    <3>3. F /\ H
      BY ZenonT(30), <3>1 DEF F, H
    <3> QED
      BY ZenonT(30), <2>1, <2>4, <3>1, <3>2, <3>3
  <2> QED
    BY ZenonT(30), <2>6, <2>7, <2>8, <2>9, <2>10, <2>11, <2>12, <2>13, StepKinds
<1>1. Init => RingSound
  BY ZenonT(30), <1>RingInit
<1>2. RingSound /\ Base /\ [Next]_vars => RingSound'
  BY ZenonT(30), <1>RingStep
<1> QED
  BY <1>1, <1>2, BaseInvariant, PTL DEF Spec

\* The slots hold the pending messages after a restart, and nothing else.
LEMMA SlotsLoad ==
  ASSUME Base, CrashRestart
  PROVE  /\ \A e \in durable : \E i \in DOMAIN queue'.items : queue'.items[i] = e.msg
         /\ \A i \in DOMAIN queue'.items :
              queue'.items[i] = ZeroMessage \/ \E e \in durable : queue'.items[i] = e.msg
<1>1. PICK s, n : Restored(s, n)
  BY ZenonT(30), QueueLoad
<1>2. /\ n \in Nat /\ queue'.cap \in Nat \ {0} /\ n <= queue'.cap
      /\ DOMAIN queue'.items = 0 .. queue'.cap - 1
      /\ \A i \in 0 .. queue'.cap - 1 :
           queue'.items[i] = IF i < n THEN s[i + 1].msg ELSE ZeroMessage
      /\ s \in [1 .. n -> durable] /\ \A e \in durable : \E i \in 1 .. n : s[i] = e
  BY ZenonT(30), <1>1 DEF Restored
<1>3. ASSUME NEW e \in durable PROVE \E i \in DOMAIN queue'.items : queue'.items[i] = e.msg
  <2>1. PICK i \in 1 .. n : s[i] = e
    BY ZenonT(30), <1>2
  <2>2. i - 1 \in 0 .. queue'.cap - 1 /\ i - 1 < n /\ (i - 1) + 1 = i
    BY <1>2
  <2>3. queue'.items[i - 1] = s[(i - 1) + 1].msg
    BY ZenonT(30), <1>2, <2>2
  <2> QED
    BY ZenonT(30), <1>2, <2>1, <2>2, <2>3
<1>4. ASSUME NEW i \in DOMAIN queue'.items, queue'.items[i] # ZeroMessage
      PROVE  \E e \in durable : queue'.items[i] = e.msg
  BY <1>2, <1>4
<1> QED
  BY ZenonT(30), <1>3, <1>4

\* The ids in the ring after a Push, a Pop and a restart.
LEMMA IdsPush ==
  ASSUME Base, NEW m \in Message, queue' = Push(queue, m)
  PROVE  /\ QueueIds' \subseteq QueueIds \cup {m.id} /\ m.id \in QueueIds'
         /\ SlotsSound /\ ~Full(queue) /\ m.id \in Msgs => QueueIds \cap Msgs \subseteq QueueIds'
<1>1. QueueIds' \subseteq QueueIds \cup {m.id} /\ m.id \in QueueIds'
  BY QueuePush DEF QueueIds
<1>2. ASSUME SlotsSound, ~Full(queue), m.id \in Msgs PROVE QueueIds \cap Msgs \subseteq QueueIds'
  <2>1. queue.items[queue.tail].id \notin Msgs
    BY <1>2, RingPush, ZeroAssumption, NameAssumption
  <2> QED
    BY <2>1, QueuePush DEF QueueIds
<1> QED
  BY ZenonT(30), <1>1, <1>2

\* A Pop takes out the id of the oldest message and no other.
LEMMA IdsPop ==
  ASSUME Base, queue.size > 0, queue' = Pop(queue)
  PROVE  /\ QueueIds' \subseteq QueueIds \cup {NoId}
         /\ QueueIds \subseteq QueueIds' \cup {Peek(queue).id} /\ Peek(queue).id \in QueueIds
<1>1. ZeroMessage.id = NoId
  BY ZenonT(30), ZeroAssumption
<1> QED
  BY <1>1, QueuePop DEF QueueIds

\* A restart fills the ring with the ids of the log.
LEMMA IdsLoad ==
  ASSUME Base, CrashRestart
  PROVE  DurableIds \subseteq QueueIds' /\ QueueIds' \subseteq DurableIds \cup {NoId}
<1>1. ZeroMessage.id = NoId
  BY ZenonT(30), ZeroAssumption
<1> QED
  BY <1>1, SlotsLoad DEF QueueIds, DurableIds

-----------------------------------------------------------------------------
(* No message is lost. *)

\* The messages in the dead letter queue.
DeadIds == {x.id : x \in deadLetterQueue}

\* A message that is not lost.
Settled(m) ==
  \/ m \in HeldIds \/ m \in ackedIds \/ m \in DeadIds
  \/ (crashes > 0 \/ walFaults > 0) /\ m \in removedIds

\* An accepted message is never lost: it is queued, in flight, acknowledged or in
\* the dead letter queue (or, after a restart or a failed append, covered by a
\* removal record), for any number of messages, consumers, redeliveries,
\* cancellations and crashes, unless cancelReservation pushed into a full ring.
THEOREM MessagesKept == Spec => []NoMessageLost
\* A failed append is one from which removedIds counts.
<1>FaultCounts.
      ASSUME Base, NEW id, LogsRemovalFailed(id)
      PROVE  walFaults' > 0 /\ removedIds \subseteq removedIds'
  <2> USE <1>FaultCounts
  <2>1. walFaults \in Nat
    BY ZenonT(30), TypeParts DEF LogType
  <2> QED
    BY <2>1 DEF LogsRemovalFailed, LogFailed
\* A message stays settled through every step.
<1>SettledStep.
      ASSUME RingSound, HeldSound, LogKeepsAccepted, Base, [Next]_vars,
             "overrun" \notin cancels, "overrun" \notin cancels', NEW m \in Accepted, Settled(m)
      PROVE  Settled(m)'
  <2> USE <1>SettledStep
  <2>0. m \in Msgs /\ SlotsSound /\ walFaults \in Nat /\ crashes \in Nat
    BY ZenonT(30), TypeParts DEF Accepted, RingSound, LogType, LifeType
  <2>1. CASE Quiet
    <3>1. UNCHANGED <<QueueIds, HeldIds, DeadIds>>
      BY ZenonT(30), <2>1 DEF Quiet, QueueIds, HeldIds, DeadIds
    <3> QED
      BY ZenonT(30), <2>1, <3>1 DEF Quiet, Settled
  <2>2. ASSUME NEW p \in Msgs, PublishAccept(p) \/ PublishLogError(p) PROVE Settled(m)'
    <3> DEFINE msg == [id |-> p, retry |-> 0]
    <3>1. msg \in Message /\ msg.id \in Msgs
      BY ZenonT(30) DEF Message
    <3>2. /\ queue' = queue \/ (queue' = Push(queue, msg) /\ ~Full(queue))
          /\ UNCHANGED <<inFlight, deadLetterQueue, ackedIds, removedIds, crashes>>
          /\ walFaults' \in {walFaults, walFaults + 1}
      BY ZenonT(30), <2>2 DEF PublishAccept, PublishLogError, Logged, LogFailed, MustWait
    <3> HIDE DEF msg
    <3>3. QueueIds \cap Msgs \subseteq QueueIds'
      <4>1. CASE queue' = queue
        BY ZenonT(30), <4>1 DEF QueueIds
      <4> QED
        BY ZenonT(30), <2>0, <3>1, <3>2, <4>1, IdsPush
    <3> QED
      BY <2>0, <3>2, <3>3 DEF Settled, HeldIds, DeadIds
  <2>3. ASSUME NEW d \in inFlight, Ack(d) PROVE Settled(m)'
    <3>1. /\ UNCHANGED <<queue, deadLetterQueue, crashes, walFaults>>
          /\ inFlight' = inFlight \ {d}
          /\ ackedIds' = ackedIds \cup {d.msg.id} /\ removedIds \subseteq removedIds'
      BY ZenonT(30), <2>3 DEF Ack, AckEffect, LogsRemoval, Logged
    <3>2. HeldIds \subseteq HeldIds' \cup ackedIds'
      BY ZenonT(30), <3>1 DEF HeldIds, QueueIds
    <3> QED
      BY ZenonT(30), <3>1, <3>2 DEF Settled, DeadIds
  <2>4. ASSUME NEW id, LogsRemovalFailed(id), UNCHANGED <<store, ackedIds>>
        PROVE  Settled(m)'
    <3>1. UNCHANGED <<HeldIds, DeadIds>>
      BY ZenonT(30), <2>4 DEF HeldIds, QueueIds, DeadIds
    <3> QED
      BY ZenonT(30), <2>4, <3>1, <1>FaultCounts DEF Settled
  <2>5. ASSUME NEW p \in {"distributor", "expiry"}, DeadLetterHead(p) PROVE Settled(m)'
    <3>1. /\ UNCHANGED <<inFlight, ackedIds, crashes, walFaults>>
          /\ queue' = Pop(queue) /\ queue.size > 0
          /\ deadLetterQueue' = deadLetterQueue \cup {Peek(queue)}
          /\ removedIds \subseteq removedIds'
      BY ZenonT(30), <2>5 DEF DeadLetterHead, LogsRemoval, Logged, AtHead, HeadExpired
    <3>2. QueueIds \subseteq QueueIds' \cup {Peek(queue).id}
      BY ZenonT(30), <3>1, IdsPop
    <3>3. HeldIds \cup DeadIds \subseteq HeldIds' \cup DeadIds'
      BY ZenonT(30), <3>1, <3>2 DEF HeldIds, DeadIds
    <3> QED
      BY ZenonT(30), <3>1, <3>3 DEF Settled
  <2>6. CASE ReserveDelivery
    <3>1. PICK d : d.msg = Peek(queue) /\ inFlight' = inFlight \cup {d}
      BY ZenonT(30), <2>6 DEF ReserveDelivery
    <3>2. /\ UNCHANGED <<deadLetterQueue, ackedIds, removedIds, crashes, walFaults>>
          /\ queue' = Pop(queue) /\ queue.size > 0
      BY ZenonT(30), <2>6 DEF ReserveDelivery
    <3>3. QueueIds \subseteq QueueIds' \cup {Peek(queue).id}
      BY ZenonT(30), <3>2, IdsPop
    <3>4. HeldIds \subseteq HeldIds'
      BY ZenonT(30), <3>1, <3>3 DEF HeldIds
    <3> QED
      BY ZenonT(30), <3>2, <3>4 DEF Settled, DeadIds
  <2>7. CASE CancelReservation
    <3>1. /\ UNCHANGED <<deadLetterQueue, ackedIds, removedIds, crashes, walFaults>>
          /\ queue' = Push(queue, held.msg) /\ dist = "cancel"
          /\ inFlight' = {d \in inFlight : d.token # held.token}
      BY ZenonT(30), <2>7 DEF CancelReservation
    <3>2. ~Full(queue)
      BY ZenonT(30), <2>7, CancelRoom
    <3>3. held.msg \in Message /\ held.msg.id \in Msgs
      BY ZenonT(30), <3>1, TypeParts DEF CtlType, Delivery, RingSound
    <3>4. QueueIds \cap Msgs \subseteq QueueIds' /\ held.msg.id \in QueueIds'
      BY ZenonT(30), <2>0, <3>1, <3>2, <3>3, IdsPush
    <3>5. \A d \in inFlight : d \in inFlight' \/ d = held
      BY ZenonT(30), <3>1 DEF HeldSound
    <3>6. HeldIds \cap Msgs \subseteq HeldIds'
      BY ZenonT(30), <3>4, <3>5 DEF HeldIds
    <3> QED
      BY ZenonT(30), <2>0, <3>1, <3>6 DEF Settled, DeadIds
  <2>8. ASSUME NEW d \in sweep, SweepDeadLetter(d) PROVE Settled(m)'
    <3>1. /\ UNCHANGED <<queue, ackedIds, crashes, walFaults>>
          /\ inFlight' = inFlight \ {d}
          /\ deadLetterQueue' = deadLetterQueue \cup {d.msg} /\ removedIds \subseteq removedIds'
      BY ZenonT(30), <2>8 DEF SweepDeadLetter, LogsRemoval, Logged
    <3>2. HeldIds \cup DeadIds \subseteq HeldIds' \cup DeadIds'
      BY ZenonT(30), <3>1 DEF HeldIds, DeadIds, QueueIds
    <3> QED
      BY ZenonT(30), <3>1, <3>2 DEF Settled
  <2>9. ASSUME NEW d \in sweep, SweepRequeue(d) PROVE Settled(m)'
    <3> DEFINE msg == [d.msg EXCEPT !.retry = @ + 1]
    <3>1. d \in inFlight /\ d.msg \in Message /\ d.msg.id \in Msgs
      BY ZenonT(30), TypeParts DEF StoreType, RingSound
    <3>2. msg \in Message /\ msg.id = d.msg.id
      BY <3>1 DEF Message
    <3>3. /\ UNCHANGED <<deadLetterQueue, ackedIds, crashes, walFaults>> /\ ~Full(queue)
          /\ queue' = Push(queue, msg) /\ inFlight' = inFlight \ {d}
          /\ removedIds' = removedIds \ {d.msg.id}
      BY ZenonT(30), <2>9 DEF SweepRequeue, Logged
    <3> HIDE DEF msg
    <3>4. QueueIds \cap Msgs \subseteq QueueIds' /\ d.msg.id \in QueueIds'
      BY ZenonT(30), <2>0, <3>1, <3>2, <3>3, IdsPush
    <3>5. HeldIds \cap Msgs \subseteq HeldIds' /\ d.msg.id \in HeldIds'
      BY ZenonT(30), <3>3, <3>4 DEF HeldIds
    <3> QED
      BY ZenonT(30), <2>0, <3>3, <3>5 DEF Settled, DeadIds
  <2>10. ASSUME NEW d \in sweep, SweepLogError(d) PROVE Settled(m)'
    <3>1. UNCHANGED <<store, ackedIds, crashes>>
      BY ZenonT(30), <2>10 DEF SweepLogError
    <3>2. CASE LogsRemovalFailed(d.msg.id)
      BY ZenonT(30), <2>4, <3>1, <3>2
    <3>3. CASE ~LogsRemovalFailed(d.msg.id)
      <4>1. walFaults' = walFaults + 1 /\ removedIds' \in {removedIds, removedIds \ {d.msg.id}}
        BY ZenonT(30), <2>10, <3>3 DEF SweepLogError, LogFailed
      <4>2. UNCHANGED <<HeldIds, DeadIds>> /\ d.msg.id \in HeldIds
        BY ZenonT(30), <3>1, TypeParts DEF StoreType, HeldIds, QueueIds, DeadIds
      <4> QED
        BY <2>0, <3>1, <4>1, <4>2 DEF Settled
    <3> QED
      BY ZenonT(30), <3>2, <3>3
  <2>11. CASE CrashRestart
    <3>1. crashes' > 0 /\ removedIds' = removedIds
      BY <2>0, <2>11 DEF CrashRestart
    <3>2. m \in DurableIds \/ m \in removedIds
      BY ZenonT(30) DEF LogKeepsAccepted
    <3> QED
      BY ZenonT(30), <2>11, <3>1, <3>2, IdsLoad DEF Settled, HeldIds
  <2> QED
    <3>1. \A d \in inFlight : AckLogError(d) => Settled(m)'
      BY ZenonT(30), <2>4 DEF AckLogError
    <3>2. \A p \in {"distributor", "expiry"} : DeadLetterLogError(p) => Settled(m)'
      BY ZenonT(30), <2>4 DEF DeadLetterLogError
    <3> QED
      BY ZenonT(30), <2>1, <2>2, <2>3, <2>5, <2>6, <2>7, <2>8, <2>9, <2>10, <2>11, <3>1, <3>2, StepKinds
<1>1. Init => HeldSound /\ NoMessageLost
  BY ZenonT(30) DEF Init, HeldSound, NoMessageLost, Accepted
<1>2. HeldSound /\ Base /\ [Next]_vars => HeldSound'
  BY ZenonT(30), HeldStep
<1>3. /\ NoMessageLost /\ RingSound /\ HeldSound /\ LogKeepsAccepted /\ Base /\ [Next]_vars
      => NoMessageLost'
  <2> SUFFICES ASSUME NoMessageLost, RingSound, HeldSound, LogKeepsAccepted, Base, [Next]_vars,
                      "overrun" \notin cancels', NEW m \in Accepted'
               PROVE  Settled(m)'
    BY ZenonT(30) DEF NoMessageLost, Settled, DeadIds
  <2>1. "overrun" \notin cancels
    BY ZenonT(30), CancelsGrow
  <2>2. CASE m \in Accepted
    <3>1. Settled(m)
      BY ZenonT(30), <2>1, <2>2 DEF NoMessageLost, Settled, DeadIds
    <3> QED
      BY ZenonT(30), <2>1, <2>2, <3>1, <1>SettledStep
  <2>3. CASE m \notin Accepted
    <3>1. PublishAccept(m)
      BY ZenonT(30), <2>3, AcceptedBy
    <3>2. [id |-> m, retry |-> 0] \in Message /\ queue' = Push(queue, [id |-> m, retry |-> 0])
      BY ZenonT(30), <3>1 DEF Message, Accepted, PublishAccept
    <3>3. m \in QueueIds'
      BY ZenonT(30), <3>2, IdsPush
    <3> QED
      BY ZenonT(30), <3>3 DEF Settled, HeldIds
  <2> QED
    BY ZenonT(30), <2>2, <2>3
<1> QED
  BY <1>1, <1>2, <1>3, RingInvariant, DurabilityCorrect, BaseInvariant, PTL DEF Spec

-----------------------------------------------------------------------------
(* Copies of a message. *)

\* The ids in memory or in the log.
Known == HeldIds \cup DurableIds

\* The ids that a step brings into the memory or the log: the id of a message that
\* is being published, or the one that the distributor puts back.
LEMMA KnownStep ==
  ASSUME Base, [Next]_vars
  PROVE  \/ Known' \subseteq Known \cup {NoId}
         \/ \E m \in Unpublished \ Unpublished' : Known' \subseteq Known \cup {m}
         \/ CancelReservation /\ Known' \subseteq Known \cup {held.msg.id}
\* A Published or Requeued record, written or half-written, adds at most the id of
\* its message to the log; a removal record adds none.
<1>LogIds.
      ASSUME NEW m,
             \/ durable' \subseteq durable
             \/ durable' \in {AfterPublished(m), AfterRequeued(m)}
      PROVE  DurableIds' \subseteq DurableIds \cup {m.id}
  <2> USE <1>LogIds
  <2>1. \A e \in durable' : e \in durable \/ e = [pos |-> lsn + 1, msg |-> m]
    BY DEF AfterPublished, AfterRequeued, Forget
  <2> QED
    BY <2>1 DEF DurableIds
<1>1. CASE Quiet
  BY ZenonT(30), <1>1 DEF Quiet, Known, HeldIds, QueueIds, DurableIds
<1>2. ASSUME NEW p \in Msgs, PublishAccept(p) \/ PublishLogError(p)
      PROVE  \E m \in Unpublished \ Unpublished' : Known' \subseteq Known \cup {m}
  <2> DEFINE msg == [id |-> p, retry |-> 0]
  <2>1. msg \in Message /\ msg.id = p
    BY ZenonT(30) DEF Message
  <2>2. /\ queue' = queue \/ queue' = Push(queue, msg)
        /\ inFlight' = inFlight /\ durable' \in {durable, AfterPublished(msg)}
    BY ZenonT(30), <1>2 DEF PublishAccept, PublishLogError, Logged, LogFailed
  <2>3. /\ pub[p] \in {"new", "woken"}
        /\ pub' \in {[pub EXCEPT ![p] = "accepted"], [pub EXCEPT ![p] = "rejected"]}
    BY ZenonT(30), <1>2 DEF PublishAccept, PublishLogError, Entering
  <2>4. p \in Unpublished \ Unpublished'
    BY ZenonT(30), <2>3, TypeParts DEF HistType, Unpublished
  <2> HIDE DEF msg
  <2>5. DurableIds' \subseteq DurableIds \cup {p}
    BY ZenonT(30), <2>1, <2>2, <1>LogIds
  <2>6. QueueIds' \subseteq QueueIds \cup {p}
    <3>1. CASE queue' = queue
      BY ZenonT(30), <3>1 DEF QueueIds
    <3> QED
      BY ZenonT(30), <2>1, <2>2, <3>1, IdsPush
  <2>7. Known' \subseteq Known \cup {p}
    BY ZenonT(30), <2>2, <2>5, <2>6 DEF Known, HeldIds
  <2> QED
    BY ZenonT(30), <2>4, <2>7
<1>3. ASSUME NEW d \in inFlight, Ack(d) \/ AckLogError(d) PROVE Known' \subseteq Known
  <2>1. /\ LogsRemoval(d.msg.id) \/ LogsRemovalFailed(d.msg.id)
        /\ queue' = queue /\ inFlight' \subseteq inFlight
    BY ZenonT(30), <1>3 DEF Ack, AckEffect, AckLogError
  <2>2. durable' \subseteq durable
    BY ZenonT(30), <2>1, RemovalShrinks
  <2> QED
    BY ZenonT(30), <2>1, <2>2 DEF Known, HeldIds, QueueIds, DurableIds
<1>4. ASSUME NEW p \in {"distributor", "expiry"}, DeadLetterHead(p) \/ DeadLetterLogError(p)
      PROVE  Known' \subseteq Known \cup {NoId}
  <2>1. /\ LogsRemoval(Peek(queue).id) \/ LogsRemovalFailed(Peek(queue).id)
        /\ queue.size > 0 /\ (queue' = queue \/ queue' = Pop(queue)) /\ inFlight' = inFlight
    BY ZenonT(30), <1>4 DEF DeadLetterHead, DeadLetterLogError, AtHead, HeadExpired
  <2>2. durable' \subseteq durable
    BY ZenonT(30), <2>1, RemovalShrinks
  <2>3. QueueIds' \subseteq QueueIds \cup {NoId}
    <3>1. CASE queue' = queue
      BY ZenonT(30), <3>1 DEF QueueIds
    <3> QED
      BY ZenonT(30), <2>1, <3>1, IdsPop
  <2> QED
    BY ZenonT(30), <2>1, <2>2, <2>3 DEF Known, HeldIds, DurableIds
<1>5. CASE ReserveDelivery
  <2>1. PICK d : d.msg = Peek(queue) /\ inFlight' = inFlight \cup {d}
    BY ZenonT(30), <1>5 DEF ReserveDelivery
  <2>2. queue.size > 0 /\ queue' = Pop(queue) /\ durable' = durable
    BY ZenonT(30), <1>5 DEF ReserveDelivery
  <2>3. QueueIds' \subseteq QueueIds \cup {NoId} /\ Peek(queue).id \in QueueIds
    BY ZenonT(30), <2>2, IdsPop
  <2> QED
    BY <2>1, <2>2, <2>3 DEF Known, HeldIds, DurableIds
<1>6. CASE CancelReservation
  <2>1. queue' = Push(queue, held.msg) /\ inFlight' \subseteq inFlight /\ durable' = durable
    BY ZenonT(30), <1>6 DEF CancelReservation
  <2>2. held.msg \in Message
    BY ZenonT(30), TypeParts DEF CtlType, Delivery
  <2>3. QueueIds' \subseteq QueueIds \cup {held.msg.id}
    BY ZenonT(30), <2>1, <2>2, IdsPush
  <2> QED
    BY <1>6, <2>1, <2>3 DEF Known, HeldIds, DurableIds
<1>7. ASSUME NEW d \in sweep, SweepDeadLetter(d) \/ SweepRequeue(d) \/ SweepLogError(d)
      PROVE  Known' \subseteq Known
  <2> DEFINE msg == [d.msg EXCEPT !.retry = @ + 1]
  <2>1. d \in inFlight /\ d.msg \in Message
    BY ZenonT(30), TypeParts DEF StoreType
  <2>2. msg \in Message /\ msg.id = d.msg.id
    BY <2>1 DEF Message
  <2>3. /\ inFlight' \subseteq inFlight /\ (queue' = queue \/ queue' = Push(queue, msg))
        /\ \/ LogsRemoval(d.msg.id) \/ LogsRemovalFailed(d.msg.id)
           \/ durable' \in {durable, AfterRequeued(msg)}
    BY ZenonT(30), <1>7 DEF SweepDeadLetter, SweepRequeue, SweepLogError, Logged, LogFailed
  <2> HIDE DEF msg
  <2>4. DurableIds' \subseteq DurableIds \cup {d.msg.id}
    BY ZenonT(30), <2>2, <2>3, RemovalShrinks, <1>LogIds
  <2>5. QueueIds' \subseteq QueueIds \cup {d.msg.id}
    <3>1. CASE queue' = queue
      BY ZenonT(30), <3>1 DEF QueueIds
    <3> QED
      BY ZenonT(30), <2>2, <2>3, <3>1, IdsPush
  <2>6. d.msg.id \in HeldIds
    BY ZenonT(30), <2>1 DEF HeldIds
  <2> QED
    BY ZenonT(30), <2>3, <2>4, <2>5, <2>6 DEF Known, HeldIds
<1>8. CASE CrashRestart
  <2>1. inFlight' = {} /\ durable' = durable
    BY ZenonT(30), <1>8 DEF CrashRestart
  <2> QED
    BY <1>8, <2>1, IdsLoad DEF Known, HeldIds, DurableIds
<1> QED
  BY ZenonT(30), <1>1, <1>2, <1>3, <1>4, <1>5, <1>6, <1>7, <1>8, StepKinds

\* A message whose Publish has not returned is nowhere to be found.
Fresh == Unpublished \cap (Known \cup ackedIds \cup {held.msg.id}) = {}

\* The log holds one pending entry per message, and none from the future.
LogSound ==
  /\ \A e, f \in durable : e.msg.id = f.msg.id => e = f
  /\ \A e \in durable : e.pos <= lsn

\* A message is in one slot of the ring at most, or in flight under one token,
\* and not both, as long as no cancellation came late.
SlotsSingle ==
  \A i, j \in DOMAIN queue.items :
    queue.items[i].id \in Msgs /\ queue.items[i].id = queue.items[j].id => i = j

\* A message is in flight under one token at most.
FlightSingle == \A d, e \in inFlight : d.msg.id \in Msgs /\ d.msg.id = e.msg.id => d = e

\* A message in flight is not in the ring.
Apart == \A d \in inFlight : d.msg.id \in Msgs => d.msg.id \notin QueueIds

\* There is one copy of a message, as long as no cancellation came late.
SingleCopy == "late" \notin cancels => SlotsSingle /\ FlightSingle /\ Apart

\* A Pop takes the only copy.
LEMMA SinglePop ==
  ASSUME Base, SlotsSingle, queue.size > 0, queue' = Pop(queue)
  PROVE  SlotsSingle' /\ (Peek(queue).id \in Msgs => Peek(queue).id \notin QueueIds')
<1>1. ZeroMessage.id \notin Msgs
  BY ZenonT(30), ZeroAssumption, NameAssumption
<1>2. SlotsSingle'
  BY <1>1, QueuePop DEF SlotsSingle
<1>3. \A i \in DOMAIN queue'.items : Peek(queue).id \in Msgs => queue'.items[i].id # Peek(queue).id
  BY ZenonT(30), <1>1, QueuePop DEF SlotsSingle
<1> QED
  BY ZenonT(30), <1>2, <1>3 DEF QueueIds

\* Together: where a message is.
CopyInv == HeldSound /\ Fresh /\ LogSound /\ SingleCopy

\* It holds from the start and is kept.
LEMMA CopyInvariant == Spec => []CopyInv
<1>FreshStep.
      ASSUME Fresh, Base, [Next]_vars
      PROVE  Fresh'
  <2> USE <1>FreshStep
  <2>1. Unpublished' \subseteq Unpublished /\ NoId \notin Unpublished
    BY ZenonT(30), AcceptedBy, NameAssumption DEF Unpublished
  <2>2. Unpublished' \cap Known' = {}
    BY ZenonT(30), <2>1, KnownStep DEF Fresh
  <2>3. ackedIds' \subseteq ackedIds \cup HeldIds
    <3>1. ackedIds' = ackedIds \/ \E d \in inFlight : Ack(d)
      BY ZenonT(30), StepKinds DEF Quiet, PublishAccept, PublishLogError, AckLogError, DeadLetterHead,
         DeadLetterLogError, ReserveDelivery, CancelReservation, SweepDeadLetter, SweepRequeue,
         SweepLogError, CrashRestart
    <3> QED
      BY ZenonT(30), <3>1 DEF Ack, AckEffect, HeldIds
  <2>4. held'.msg.id \in Known \cup {held.msg.id, NoId}
    <3>1. CASE ReserveDelivery
      <4>1. PICK d : d.msg = Peek(queue) /\ held' = d
        BY ZenonT(30), <3>1 DEF ReserveDelivery
      <4>2. queue.size > 0 /\ queue' = Pop(queue)
        BY ZenonT(30), <3>1 DEF ReserveDelivery
      <4>3. Peek(queue).id \in QueueIds
        BY ZenonT(30), <4>2, IdsPop
      <4> QED
        BY ZenonT(30), <4>1, <4>3 DEF Known, HeldIds
    <3>2. CASE held' \in {held, NoDelivery}
      BY <3>2, ZeroAssumption DEF NoDelivery
    <3> QED
      BY ZenonT(30), <3>1, <3>2, FlightStep
  <2> QED
    BY ZenonT(30), <2>1, <2>2, <2>3, <2>4 DEF Fresh, Known
\* What a step may do to the log.
<1>LogStep.
      ASSUME Base, [Next]_vars
      PROVE  /\ lsn' \in Nat /\ lsn' >= lsn
             /\ \/ durable' \subseteq durable
                \/ \E p \in Unpublished : /\ durable' = AfterPublished([id |-> p, retry |-> 0])
                                          /\ lsn' = lsn + 1
                \/ \E m \in Message : durable' = AfterRequeued(m) /\ lsn' = lsn + 1
  <2> USE <1>LogStep
  <2>0. lsn \in Nat
    BY ZenonT(30), TypeParts DEF LogType
  <2>1. ASSUME NEW id, LogsRemoval(id) \/ LogsRemovalFailed(id)
        PROVE  durable' \subseteq durable /\ lsn' = lsn
    BY ZenonT(30), <2>1, RemovalShrinks DEF LogsRemoval, LogsRemovalFailed
  <2>2. ASSUME NEW p \in Msgs, PublishAccept(p) \/ PublishLogError(p)
        PROVE  /\ p \in Unpublished /\ lsn' = lsn + 1
               /\ durable' \in {durable, AfterPublished([id |-> p, retry |-> 0])}
    BY ZenonT(30), <2>2 DEF PublishAccept, PublishLogError, Entering, Unpublished, Logged, LogFailed
  <2>3. ASSUME NEW d \in sweep, SweepDeadLetter(d) \/ SweepRequeue(d) \/ SweepLogError(d)
        PROVE  \/ LogsRemoval(d.msg.id) \/ LogsRemovalFailed(d.msg.id)
               \/ /\ lsn' = lsn + 1
                  /\ \E m \in Message : durable' \in {durable, AfterRequeued(m)}
    <3> DEFINE msg == [d.msg EXCEPT !.retry = @ + 1]
    <3>1. d.msg \in Message
      BY ZenonT(30), TypeParts DEF StoreType
    <3>2. msg \in Message
      BY <3>1 DEF Message
    <3>3. \/ LogsRemoval(d.msg.id) \/ LogsRemovalFailed(d.msg.id)
          \/ lsn' = lsn + 1 /\ durable' \in {durable, AfterRequeued(msg)}
      BY ZenonT(30), <2>3 DEF SweepDeadLetter, SweepRequeue, SweepLogError, Logged, LogFailed
    <3> HIDE DEF msg
    <3> QED
      BY ZenonT(30), <3>2, <3>3
  <2>4. CASE UNCHANGED <<durable, lsn>>
    BY <2>0, <2>4
  <2>5. \/ UNCHANGED <<durable, lsn>>
        \/ \E id : LogsRemoval(id) \/ LogsRemovalFailed(id)
        \/ \E p \in Msgs : PublishAccept(p) \/ PublishLogError(p)
        \/ \E d \in sweep : SweepDeadLetter(d) \/ SweepRequeue(d) \/ SweepLogError(d)
    BY ZenonT(30), StepKinds DEF Quiet, Ack, AckLogError, DeadLetterHead, DeadLetterLogError,
       ReserveDelivery, CancelReservation, CrashRestart
  <2>6. lsn' \in {lsn, lsn + 1}
    BY ZenonT(30), <2>1, <2>2, <2>3, <2>4, <2>5
  <2>7. \/ durable' \subseteq durable
        \/ \E p \in Unpublished : /\ durable' = AfterPublished([id |-> p, retry |-> 0])
                                  /\ lsn' = lsn + 1
        \/ \E m \in Message : durable' = AfterRequeued(m) /\ lsn' = lsn + 1
    <3>1. CASE \E p \in Msgs : PublishAccept(p) \/ PublishLogError(p)
      BY ZenonT(30), <2>2, <3>1
    <3>2. CASE \E d \in sweep : SweepDeadLetter(d) \/ SweepRequeue(d) \/ SweepLogError(d)
      BY ZenonT(30), <2>1, <2>3, <3>2
    <3> QED
      BY ZenonT(30), <2>1, <2>4, <2>5, <3>1, <3>2
  <2> QED
    BY <2>0, <2>6, <2>7
<1>LogSoundStep.
      ASSUME LogSound, Fresh, Base, [Next]_vars
      PROVE  LogSound'
  <2> USE <1>LogSoundStep
  <2>0. lsn \in Nat /\ lsn' \in Nat /\ lsn' >= lsn /\ \A e \in durable : e.pos \in Nat
    BY ZenonT(30), <1>LogStep, TypeParts DEF LogType, Entries
  <2>1. CASE durable' \subseteq durable
    BY <2>0, <2>1 DEF LogSound
  <2>2. ASSUME NEW m, NEW old \in SUBSET durable, lsn' = lsn + 1,
               durable' = old \cup {[pos |-> lsn + 1, msg |-> m]},
               \A e \in old : e.msg.id # m.id
        PROVE  LogSound'
    BY <2>0, <2>2 DEF LogSound
  <2>3. ASSUME NEW p \in Unpublished, lsn' = lsn + 1,
               durable' = AfterPublished([id |-> p, retry |-> 0])
        PROVE  LogSound'
    <3> DEFINE msg == [id |-> p, retry |-> 0]
    <3>1. \A e \in durable : e.msg.id # msg.id
      BY ZenonT(30) DEF Fresh, Known, DurableIds
    <3>2. durable' = durable \cup {[pos |-> lsn + 1, msg |-> msg]} /\ durable \in SUBSET durable
      BY ZenonT(30), <2>3 DEF AfterPublished
    <3> HIDE DEF msg
    <3> QED
      BY ZenonT(30), <2>2, <2>3, <3>1, <3>2
  <2>4. ASSUME NEW m \in Message, durable' = AfterRequeued(m), lsn' = lsn + 1
        PROVE  LogSound'
    <3>1. /\ durable' = Forget(m.id) \cup {[pos |-> lsn + 1, msg |-> m]}
          /\ Forget(m.id) \in SUBSET durable /\ \A e \in Forget(m.id) : e.msg.id # m.id
      BY ZenonT(30), <2>4 DEF AfterRequeued, Forget
    <3> QED
      BY ZenonT(30), <2>2, <2>4, <3>1
  <2> QED
    BY ZenonT(30), <2>1, <2>3, <2>4, <1>LogStep
\* A Push of a message that is not there yet, a Pop, and a restart.
<1>SinglePush.
      ASSUME Base, SlotsSingle, NEW m \in Message, m.id \notin QueueIds, queue' = Push(queue, m)
      PROVE  SlotsSingle'
  BY <1>SinglePush, QueuePush DEF SlotsSingle, QueueIds
<1>SingleLoad.
      ASSUME Base, LogSound, CrashRestart
      PROVE  SlotsSingle'
  <2> USE <1>SingleLoad
  <2>1. PICK s, n : Restored(s, n)
    BY ZenonT(30), QueueLoad
  <2>2. /\ n \in Nat /\ queue'.cap \in Nat \ {0} /\ n <= queue'.cap
        /\ DOMAIN queue'.items = 0 .. queue'.cap - 1
        /\ \A i \in 0 .. queue'.cap - 1 :
             queue'.items[i] = IF i < n THEN s[i + 1].msg ELSE ZeroMessage
        /\ s \in [1 .. n -> durable]
        /\ \A i, j \in 1 .. n : i < j => s[i].pos < s[j].pos
    BY ZenonT(30), <2>1 DEF Restored
  <2>3. ZeroMessage.id \notin Msgs
    BY ZenonT(30), ZeroAssumption, NameAssumption
  <2>4. ASSUME NEW i \in 1 .. n, NEW j \in 1 .. n, s[i].msg.id = s[j].msg.id PROVE i = j
    <3>1. s[i] = s[j] /\ s[i].pos \in Nat
      BY <2>2, <2>4, TypeParts DEF LogSound, LogType, Entries
    <3> QED
      BY <2>2, <3>1
  <2>5. ASSUME NEW i \in DOMAIN queue'.items, NEW j \in DOMAIN queue'.items,
               queue'.items[i].id \in Msgs, queue'.items[i].id = queue'.items[j].id
        PROVE  i = j
    <3>1. i < n /\ j < n /\ i \in Nat /\ j \in Nat
      BY <2>2, <2>3, <2>5
    <3>2. s[i + 1].msg.id = s[j + 1].msg.id
      BY ZenonT(30), <2>2, <2>5, <3>1
    <3> QED
      BY <2>2, <2>4, <3>1, <3>2
  <2> QED
    BY ZenonT(30), <2>5 DEF SlotsSingle
\* A delivery goes back into the ring: it was in flight, and is not any more.
<1>SingleReturn.
      ASSUME Base, SlotsSingle, FlightSingle, Apart, NEW d \in inFlight, NEW m \in Message,
             m.id = d.msg.id, inFlight' = inFlight \ {d}, queue' = Push(queue, m)
      PROVE  SlotsSingle' /\ FlightSingle' /\ Apart'
  <2> USE <1>SingleReturn
  <2>1. FlightSingle'
    BY ZenonT(30) DEF FlightSingle
  <2>2. CASE m.id \in Msgs
    <3>1. m.id \notin QueueIds /\ \A e \in inFlight' : e.msg.id # m.id
      BY ZenonT(30), <2>2 DEF Apart, FlightSingle
    <3>2. SlotsSingle' /\ QueueIds' \subseteq QueueIds \cup {m.id}
      BY ZenonT(30), <3>1, <1>SinglePush, IdsPush
    <3> QED
      BY ZenonT(30), <2>1, <3>1, <3>2 DEF Apart
  <2>3. CASE m.id \notin Msgs
    <3>1. SlotsSingle' /\ QueueIds' \subseteq QueueIds \cup {m.id}
      BY <2>3, QueuePush, IdsPush DEF SlotsSingle
    <3> QED
      BY ZenonT(30), <2>1, <2>3, <3>1 DEF Apart
  <2> QED
    BY ZenonT(30), <2>2, <2>3
\* Every step keeps one copy of each message, unless it cancels late.
<1>SingleStep.
      ASSUME SingleCopy, HeldSound, Fresh, LogSound, Base, [Next]_vars
      PROVE  SingleCopy'
  <2> USE <1>SingleStep
  <2> SUFFICES ASSUME "late" \notin cancels' PROVE SlotsSingle' /\ FlightSingle' /\ Apart'
    BY ZenonT(30) DEF SingleCopy
  <2>1. SlotsSingle /\ FlightSingle /\ Apart
    BY ZenonT(30), CancelsGrow DEF SingleCopy
  <2>2. CASE queue' = queue /\ inFlight' \subseteq inFlight
    BY ZenonT(30), <2>1, <2>2 DEF SlotsSingle, FlightSingle, Apart, QueueIds
  <2>3. ASSUME NEW p \in Msgs, PublishAccept(p) PROVE SlotsSingle' /\ FlightSingle' /\ Apart'
    <3> DEFINE msg == [id |-> p, retry |-> 0]
    <3>1. msg \in Message /\ msg.id = p
      BY ZenonT(30) DEF Message
    <3>2. queue' = Push(queue, msg) /\ inFlight' = inFlight /\ p \in Unpublished
      BY ZenonT(30), <2>3 DEF PublishAccept, Entering, Unpublished
    <3> HIDE DEF msg
    <3>3. p \notin QueueIds /\ \A d \in inFlight : d.msg.id # p
      BY ZenonT(30), <3>2 DEF Fresh, Known, HeldIds
    <3>4. SlotsSingle' /\ QueueIds' \subseteq QueueIds \cup {p}
      BY ZenonT(30), <2>1, <3>1, <3>2, <3>3, <1>SinglePush, IdsPush
    <3> QED
      BY <2>1, <3>2, <3>3, <3>4 DEF FlightSingle, Apart
  <2>4. ASSUME NEW p \in {"distributor", "expiry"}, DeadLetterHead(p)
        PROVE  SlotsSingle' /\ FlightSingle' /\ Apart'
    <3>1. queue.size > 0 /\ queue' = Pop(queue) /\ inFlight' = inFlight
      BY ZenonT(30), <2>4 DEF DeadLetterHead, AtHead, HeadExpired
    <3>2. SlotsSingle' /\ QueueIds' \subseteq QueueIds \cup {NoId}
      BY ZenonT(30), <2>1, <3>1, SinglePop, IdsPop
    <3> QED
      BY ZenonT(30), <2>1, <3>1, <3>2, NameAssumption DEF FlightSingle, Apart
  <2>5. CASE ReserveDelivery
    <3>1. PICK d : d.msg = Peek(queue) /\ inFlight' = inFlight \cup {d}
      BY ZenonT(30), <2>5 DEF ReserveDelivery
    <3>2. queue.size > 0 /\ queue' = Pop(queue)
      BY ZenonT(30), <2>5 DEF ReserveDelivery
    <3>3. /\ SlotsSingle' /\ QueueIds' \subseteq QueueIds \cup {NoId}
          /\ Peek(queue).id \in QueueIds
          /\ Peek(queue).id \in Msgs => Peek(queue).id \notin QueueIds'
      BY ZenonT(30), <2>1, <3>2, SinglePop, IdsPop
    <3>4. \A e \in inFlight : e.msg.id \in Msgs => e.msg.id # d.msg.id
      BY ZenonT(30), <2>1, <3>1, <3>3 DEF Apart
    <3>5. FlightSingle'
      BY ZenonT(30), <2>1, <3>1, <3>4 DEF FlightSingle
    <3> QED
      BY ZenonT(30), <2>1, <3>1, <3>3, <3>5, NameAssumption DEF Apart
  <2>6. CASE CancelReservation
    <3>1. held \in inFlight /\ inFlight' = inFlight \ {held}
      BY ZenonT(30), <2>6, CancelTakes
    <3>2. queue' = Push(queue, held.msg) /\ held.msg \in Message
      BY ZenonT(30), <2>6, TypeParts DEF CancelReservation, CtlType, Delivery
    <3> QED
      BY ZenonT(30), <2>1, <3>1, <3>2, <1>SingleReturn
  <2>7. ASSUME NEW d \in sweep, SweepRequeue(d) PROVE SlotsSingle' /\ FlightSingle' /\ Apart'
    <3> DEFINE msg == [d.msg EXCEPT !.retry = @ + 1]
    <3>1. d \in inFlight /\ d.msg \in Message
      BY ZenonT(30), TypeParts DEF StoreType
    <3>2. msg \in Message /\ msg.id = d.msg.id
      BY <3>1 DEF Message
    <3>3. queue' = Push(queue, msg) /\ inFlight' = inFlight \ {d}
      BY ZenonT(30), <2>7 DEF SweepRequeue
    <3> HIDE DEF msg
    <3> QED
      BY ZenonT(30), <2>1, <3>1, <3>2, <3>3, <1>SingleReturn
  <2>8. CASE CrashRestart
    <3>1. inFlight' = {}
      BY ZenonT(30), <2>8 DEF CrashRestart
    <3> QED
      BY ZenonT(30), <2>8, <3>1, <1>SingleLoad DEF FlightSingle, Apart
  <2>9. \/ queue' = queue /\ inFlight' \subseteq inFlight
        \/ \E p \in Msgs : PublishAccept(p)
        \/ \E p \in {"distributor", "expiry"} : DeadLetterHead(p)
        \/ ReserveDelivery \/ CancelReservation \/ (\E d \in sweep : SweepRequeue(d)) \/ CrashRestart
    BY ZenonT(30), StepKinds DEF Quiet, PublishLogError, Ack, AckEffect, AckLogError, DeadLetterLogError,
       SweepDeadLetter, SweepLogError
  <2> QED
    BY ZenonT(30), <2>2, <2>3, <2>4, <2>5, <2>6, <2>7, <2>8, <2>9
<1>1. Init => CopyInv
  <2> SUFFICES ASSUME Init PROVE CopyInv
    BY ZenonT(30)
  <2>1. \A i \in DOMAIN queue.items : queue.items[i].id = NoId
    BY ZenonT(30), ConfigAssumption, ZeroAssumption DEF Init, NewRing
  <2>2. HeldSound /\ LogSound /\ FlightSingle /\ Apart
    BY ZenonT(30) DEF Init, HeldSound, LogSound, FlightSingle, Apart
  <2>3. SlotsSingle
    BY ZenonT(30), <2>1, NameAssumption DEF SlotsSingle
  <2>4. Fresh
    BY ZenonT(30), <2>1, NameAssumption, ZeroAssumption DEF Init, Fresh, Unpublished, Known, HeldIds,
       QueueIds, DurableIds, NoDelivery
  <2> QED
    BY ZenonT(30), <2>2, <2>3, <2>4 DEF CopyInv, SingleCopy
<1>2. CopyInv /\ Base /\ [Next]_vars => CopyInv'
  BY ZenonT(30), HeldStep, <1>FreshStep, <1>LogSoundStep, <1>SingleStep DEF CopyInv
<1> QED
  BY <1>1, <1>2, BaseInvariant, PTL DEF Spec

\* Ack is final: an acknowledged message is neither queued nor in flight and would
\* not be recovered, for any number of messages, tokens, faults and crashes, unless
\* a cancellation came after the redelivery worker had taken its token away.
THEOREM AckFinal == Spec => []AckedIsFinal
<1>1. Init => AckedIsFinal
  BY ZenonT(30) DEF Init, AckedIsFinal
<1>2. AckedIsFinal /\ CopyInv /\ Base /\ [Next]_vars => AckedIsFinal'
  <2> SUFFICES ASSUME AckedIsFinal, CopyInv, Base, [Next]_vars, "late" \notin cancels'
               PROVE  ackedIds' \cap Msgs \cap Known' = {}
    BY ZenonT(30) DEF AckedIsFinal, Known
  <2>1. ackedIds \cap Msgs \cap Known = {} /\ SlotsSingle /\ FlightSingle /\ Apart
    BY ZenonT(30), CancelsGrow DEF AckedIsFinal, Known, CopyInv, SingleCopy
  <2>2. ASSUME NEW d \in inFlight, Ack(d) PROVE ackedIds' \cap Msgs \cap Known' = {}
    <3>1. /\ queue' = queue /\ inFlight' = inFlight \ {d} /\ durable' = Forget(d.msg.id)
          /\ ackedIds' = ackedIds \cup {d.msg.id}
      BY ZenonT(30), <2>2 DEF Ack, AckEffect, LogsRemoval, Logged
    <3>2. d.msg.id \in Msgs => d.msg.id \notin Known'
      BY ZenonT(30), <2>1, <3>1 DEF Known, HeldIds, QueueIds, DurableIds, Forget, FlightSingle, Apart
    <3>3. Known' \subseteq Known
      BY ZenonT(30), <3>1 DEF Known, HeldIds, QueueIds, DurableIds, Forget
    <3> QED
      BY ZenonT(30), <2>1, <3>1, <3>2, <3>3
  <2>3. ackedIds' = ackedIds \/ \E d \in inFlight : Ack(d)
    BY ZenonT(30), StepKinds DEF Quiet, PublishAccept, PublishLogError, AckLogError, DeadLetterHead,
       DeadLetterLogError, ReserveDelivery, CancelReservation, SweepDeadLetter, SweepRequeue,
       SweepLogError, CrashRestart
  <2>4. CASE ackedIds' = ackedIds
    <3>1. CancelReservation => held.msg.id \in Known
      BY ZenonT(30), CancelTakes DEF CopyInv, Known, HeldIds
    <3>2. Unpublished \cap ackedIds = {}
      BY ZenonT(30) DEF CopyInv, Fresh
    <3> QED
      BY ZenonT(30), <2>1, <2>4, <3>1, <3>2, KnownStep, NameAssumption
  <2> QED
    BY ZenonT(30), <2>2, <2>3, <2>4
<1> QED
  BY <1>1, <1>2, CopyInvariant, BaseInvariant, PTL DEF Spec

-----------------------------------------------------------------------------
(* The log and the memory. *)

\* The messages in the ring.
Queued == {queue.items[i] : i \in DOMAIN queue.items} \ {ZeroMessage}

\* The messages that the queue holds, in the ring or in flight.
Memory == Queued \cup {d.msg : d \in inFlight}

\* The messages that Load would return.
LogMsgs == {e.msg : e \in durable}

\* As long as no append failed and no cancellation overran the ring or came late, a
\* restart at any moment would rebuild exactly the messages that are in memory,
\* each with its retry count.
THEOREM LogMatches == Spec => []LogMatchesMemory
\* The messages in the ring after a Push, a Pop and a restart.
<1>QueuedPush.
      ASSUME Base, SlotsSound, ~Full(queue), NEW m \in Message, m.id \in Msgs,
             queue' = Push(queue, m)
      PROVE  Queued' = Queued \cup {m}
  <2> USE <1>QueuedPush
  <2>1. m # ZeroMessage
    BY ZeroAssumption, NameAssumption
  <2>2. queue.items[queue.tail] = ZeroMessage
    BY ZenonT(30), RingPush
  <2> QED
    BY <2>1, <2>2, QueuePush DEF Queued
<1>QueuedPop.
      ASSUME Base, SlotsSound, queue.size > 0, queue' = Pop(queue)
      PROVE  Queued = Queued' \cup {Peek(queue)} /\ Peek(queue).id \in Msgs
  <2> USE <1>QueuedPop
  <2>1. Peek(queue).id \in Msgs /\ Peek(queue) # ZeroMessage
    BY RingPop, ZeroAssumption, NameAssumption
  <2> QED
    BY <2>1, QueuePop DEF Queued
<1>QueuedLoad.
      ASSUME Base, CrashRestart, \A e \in durable : e.msg.id \in Msgs
      PROVE  Queued' = LogMsgs
  <2> USE <1>QueuedLoad
  <2>1. \A e \in durable : e.msg # ZeroMessage
    BY ZeroAssumption, NameAssumption
  <2> QED
    BY <2>1, SlotsLoad DEF Queued, LogMsgs
\* A Published or Requeued record adds its message to what is left.
<1>LogMsgsAdd.
      ASSUME NEW old, NEW m, NEW k, durable' = old \cup {[pos |-> k, msg |-> m]}
      PROVE  LogMsgs' = {e.msg : e \in old} \cup {m}
  <2> USE <1>LogMsgsAdd
  <2> DEFINE new == [pos |-> k, msg |-> m]
  <2>1. new.msg = m /\ durable' = old \cup {new}
    BY ZenonT(30)
  <2> HIDE DEF new
  <2> QED
    BY ZenonT(30), <2>1 DEF LogMsgs
\* Everything queued is a real message.
<1>QueuedReal.
      ASSUME Base, SlotsSound
      PROVE  \A m \in Queued : m.id \in Msgs /\ m.id \in QueueIds
  BY ZenonT(30), <1>QueuedReal DEF SlotsSound, Queued, QueueIds
\* Every step but a restart keeps the two in step, when no append fails.
<1>MatchStep.
      ASSUME RingSound, CopyInv, Base, [Next]_vars, LogMsgs = Memory,
             "overrun" \notin cancels', "late" \notin cancels', walFaults' = 0
      PROVE  LogMsgs' = Memory'
  <2> USE <1>MatchStep
  <2>0. /\ SlotsSound /\ SlotsSingle /\ FlightSingle /\ Apart /\ HeldSound
        /\ \A d \in inFlight : d.msg.id \in Msgs
        /\ \A e \in durable : e.msg.id \in Msgs
    BY ZenonT(30), CancelsGrow DEF RingSound, CopyInv, SingleCopy
  <2>1. walFaults' # walFaults + 1
    BY TypeParts DEF LogType
  <2>2. CASE Quiet
    BY ZenonT(30), <2>2 DEF Quiet, LogMsgs, Memory, Queued
  <2>3. ASSUME NEW p \in Msgs, PublishAccept(p) PROVE LogMsgs' = Memory'
    <3> DEFINE msg == [id |-> p, retry |-> 0]
    <3>1. msg \in Message /\ msg.id \in Msgs
      BY ZenonT(30) DEF Message
    <3>2. /\ queue' = Push(queue, msg) /\ ~Full(queue) /\ inFlight' = inFlight
          /\ durable' = AfterPublished(msg)
      BY ZenonT(30), <2>3 DEF PublishAccept, Logged, MustWait
    <3> HIDE DEF msg
    <3>3. Queued' = Queued \cup {msg}
      BY ZenonT(30), <2>0, <3>1, <3>2, <1>QueuedPush
    <3>4. LogMsgs' = LogMsgs \cup {msg}
      BY ZenonT(30), <3>2, <1>LogMsgsAdd DEF AfterPublished, LogMsgs
    <3> QED
      BY ZenonT(30), <3>2, <3>3, <3>4 DEF Memory
  <2>4. ASSUME NEW d \in inFlight, inFlight' = inFlight \ {d}, queue' = queue,
               durable' = Forget(d.msg.id)
        PROVE  LogMsgs' = Memory'
    <3>1. LogMsgs' = {m \in LogMsgs : m.id # d.msg.id}
      BY ZenonT(30), <2>4 DEF LogMsgs, Forget
    <3>2. Memory' = {m \in Memory : m.id # d.msg.id}
      <4>1. \A m \in Queued : m.id # d.msg.id
        BY ZenonT(30), <2>0, <1>QueuedReal DEF Apart
      <4>2. \A e \in inFlight : e.msg.id = d.msg.id => e = d
        BY ZenonT(30), <2>0 DEF FlightSingle
      <4> QED
        BY ZenonT(30), <2>4, <4>1, <4>2 DEF Memory, Queued
    <3> QED
      BY ZenonT(30), <3>1, <3>2
  <2>5. ASSUME NEW p \in {"distributor", "expiry"}, DeadLetterHead(p) PROVE LogMsgs' = Memory'
    <3>1. /\ queue.size > 0 /\ queue' = Pop(queue) /\ inFlight' = inFlight
          /\ durable' = Forget(Peek(queue).id)
      BY ZenonT(30), <2>5 DEF DeadLetterHead, AtHead, HeadExpired, LogsRemoval, Logged
    <3>2. LogMsgs' = {m \in LogMsgs : m.id # Peek(queue).id}
      BY ZenonT(30), <3>1 DEF LogMsgs, Forget
    <3>3. Memory' = {m \in Memory : m.id # Peek(queue).id}
      <4>1. Queued = Queued' \cup {Peek(queue)} /\ Peek(queue).id \in Msgs
        BY ZenonT(30), <2>0, <3>1, <1>QueuedPop
      <4>2. Peek(queue).id \notin QueueIds' /\ Peek(queue).id \in QueueIds
        BY ZenonT(30), <2>0, <3>1, <4>1, SinglePop, IdsPop
      <4>3. \A m \in Queued' : m.id # Peek(queue).id
        BY ZenonT(30), <4>2 DEF Queued, QueueIds
      <4>4. \A d \in inFlight : d.msg.id # Peek(queue).id
        BY ZenonT(30), <2>0, <4>2 DEF Apart
      <4> QED
        BY ZenonT(30), <3>1, <4>1, <4>3, <4>4 DEF Memory
    <3> QED
      BY ZenonT(30), <3>2, <3>3
  <2>6. CASE ReserveDelivery
    <3>1. PICK d : d.msg = Peek(queue) /\ inFlight' = inFlight \cup {d}
      BY ZenonT(30), <2>6 DEF ReserveDelivery
    <3>2. queue.size > 0 /\ queue' = Pop(queue) /\ durable' = durable
      BY ZenonT(30), <2>6 DEF ReserveDelivery
    <3>3. Queued = Queued' \cup {Peek(queue)}
      BY ZenonT(30), <2>0, <3>2, <1>QueuedPop
    <3> QED
      BY ZenonT(30), <3>1, <3>2, <3>3 DEF Memory, LogMsgs
  <2>7. CASE CancelReservation
    <3>1. held \in inFlight /\ inFlight' = inFlight \ {held} /\ ~Full(queue)
      BY ZenonT(30), <2>0, <2>7, CancelTakes, CancelRoom
    <3>2. queue' = Push(queue, held.msg) /\ held.msg \in Message /\ durable' = durable
      BY ZenonT(30), <2>7, TypeParts DEF CancelReservation, CtlType, Delivery
    <3>3. Queued' = Queued \cup {held.msg}
      BY ZenonT(30), <2>0, <3>1, <3>2, <1>QueuedPush
    <3> QED
      BY ZenonT(30), <3>1, <3>2, <3>3 DEF Memory, LogMsgs
  <2>8. ASSUME NEW d \in sweep, SweepRequeue(d) PROVE LogMsgs' = Memory'
    <3> DEFINE msg == [d.msg EXCEPT !.retry = @ + 1]
    <3>1. d \in inFlight /\ d.msg \in Message /\ d.msg.id \in Msgs
      BY ZenonT(30), <2>0, TypeParts DEF StoreType
    <3>2. msg \in Message /\ msg.id = d.msg.id
      BY <3>1 DEF Message
    <3>3. /\ queue' = Push(queue, msg) /\ ~Full(queue) /\ inFlight' = inFlight \ {d}
          /\ durable' = AfterRequeued(msg)
      BY ZenonT(30), <2>8 DEF SweepRequeue, Logged
    <3> HIDE DEF msg
    <3>4. LogMsgs' = {m \in LogMsgs : m.id # d.msg.id} \cup {msg}
      <4>1. LogMsgs' = {e.msg : e \in Forget(d.msg.id)} \cup {msg}
        BY ZenonT(30), <3>2, <3>3, <1>LogMsgsAdd DEF AfterRequeued
      <4> QED
        BY ZenonT(30), <4>1 DEF LogMsgs, Forget
    <3>5. Queued' = Queued \cup {msg}
      BY ZenonT(30), <2>0, <3>1, <3>2, <3>3, <1>QueuedPush
    <3>6. \A m \in Queued : m.id # d.msg.id
      BY ZenonT(30), <2>0, <3>1, <1>QueuedReal DEF Apart
    <3>7. \A e \in inFlight : e.msg.id = d.msg.id => e = d
      BY ZenonT(30), <2>0, <3>1 DEF FlightSingle
    <3>8. Memory' = {m \in Memory : m.id # d.msg.id} \cup {msg}
      BY ZenonT(30), <3>3, <3>5, <3>6, <3>7 DEF Memory
    <3> QED
      BY ZenonT(30), <3>4, <3>8
  <2>9. CASE CrashRestart
    <3>1. inFlight' = {} /\ durable' = durable
      BY ZenonT(30), <2>9 DEF CrashRestart
    <3>2. Queued' = LogMsgs
      BY ZenonT(30), <2>0, <2>9, <1>QueuedLoad
    <3> QED
      BY ZenonT(30), <3>1, <3>2 DEF Memory, LogMsgs
  <2>10. ASSUME NEW d, Ack(d) \/ SweepDeadLetter(d), d \in inFlight PROVE LogMsgs' = Memory'
    <3>1. inFlight' = inFlight \ {d} /\ queue' = queue /\ durable' = Forget(d.msg.id)
      BY ZenonT(30), <2>10 DEF Ack, AckEffect, SweepDeadLetter, LogsRemoval, Logged
    <3> QED
      BY ZenonT(30), <2>4, <2>10, <3>1
  <2>11. \/ walFaults' = walFaults + 1
         \/ Quiet \/ (\E p \in Msgs : PublishAccept(p)) \/ (\E d \in inFlight : Ack(d))
         \/ (\E p \in {"distributor", "expiry"} : DeadLetterHead(p))
         \/ ReserveDelivery \/ CancelReservation
         \/ (\E d \in sweep : SweepRequeue(d) \/ SweepDeadLetter(d)) \/ CrashRestart
    BY ZenonT(30), StepKinds DEF PublishLogError, AckLogError, DeadLetterLogError, SweepLogError,
       LogsRemovalFailed, LogFailed
  <2>12. sweep \subseteq inFlight
    BY ZenonT(30), TypeParts DEF StoreType
  <2> QED
    BY ZenonT(30), <2>1, <2>2, <2>3, <2>5, <2>6, <2>7, <2>8, <2>9, <2>10, <2>11, <2>12
<1>1. Init => LogMatchesMemory
  <2> SUFFICES ASSUME Init PROVE LogMsgs = Memory
    BY ZenonT(30) DEF LogMatchesMemory, LogMsgs, Memory, Queued
  <2>1. \A i \in DOMAIN queue.items : queue.items[i] = ZeroMessage
    BY ZenonT(30), ConfigAssumption DEF Init, NewRing
  <2> QED
    BY ZenonT(30), <2>1 DEF Init, LogMsgs, Memory, Queued
<1>2. /\ LogMatchesMemory /\ RingSound /\ CopyInv /\ Base /\ [Next]_vars
      => LogMatchesMemory'
  <2> SUFFICES ASSUME LogMatchesMemory, RingSound, CopyInv, Base, [Next]_vars, walFaults' = 0,
                      "overrun" \notin cancels', "late" \notin cancels'
               PROVE  LogMsgs' = Memory'
    BY ZenonT(30) DEF LogMatchesMemory, LogMsgs, Memory, Queued
  <2>1. walFaults = 0 /\ cancels \cap {"overrun", "late"} = {}
    BY ZenonT(30), FaultsGrow, CancelsGrow
  <2>2. LogMsgs = Memory
    BY ZenonT(30), <2>1 DEF LogMatchesMemory, LogMsgs, Memory, Queued
  <2> QED
    BY ZenonT(30), <2>2, <1>MatchStep
<1> QED
  BY <1>1, <1>2, RingInvariant, CopyInvariant, BaseInvariant, PTL DEF Spec

-----------------------------------------------------------------------------
(* The order of the ring. *)

\* The occupied slots, from the head on, are in the order of the log.
SlotOrder ==
  \A i, j \in DOMAIN queue.items :
    /\ queue.items[i] # ZeroMessage /\ queue.items[j] # ZeroMessage
    /\ Offset(queue, i) < Offset(queue, j)
    => \A e, f \in durable : e.msg = queue.items[i] /\ f.msg = queue.items[j] => e.pos < f.pos

\* The inductive invariant of the order.
OrderInv == (walFaults = 0 /\ cancels = {}) => SlotOrder

\* The slot of the k-th oldest element, in a ring of c slots whose head is h.
SlotOf(h, k, c) == (h + k - 1) % c

\* The ring is in log order: a restart would put the messages back in the order in
\* which they would have left, for any number of requeues and crashes, as long as
\* no append failed and no reservation was cancelled.
THEOREM RingInLogOrder == Spec => []QueueInLogOrder
\* Moving the head on brings every other slot one step nearer.
<1>OffsetPop.
      ASSUME NEW c \in Nat \ {0}, NEW h \in 0 .. c - 1, NEW i \in 0 .. c - 1, i # h,
             NEW g, g = IF h + 1 = c THEN 0 ELSE h + 1
      PROVE  (IF i >= g THEN i - g ELSE i - g + c) = (IF i >= h THEN i - h ELSE i - h + c) - 1
  BY <1>OffsetPop
\* A Pop leaves the order of the others.
<1>OrderPop.
      ASSUME Base, SlotOrder, queue.size > 0, queue' = Pop(queue), durable' \subseteq durable
      PROVE  SlotOrder'
  <2> USE <1>OrderPop
  <2>1. IsRing(queue, Message)
    BY ZenonT(30), TypeParts DEF StoreType
  <2>2. /\ queue.cap \in Nat \ {0} /\ queue.head \in 0 .. queue.cap - 1
        /\ DOMAIN queue.items = 0 .. queue.cap - 1
    BY ZenonT(30), <2>1 DEF IsRing
  <2>3. queue'.head = IF queue.head + 1 = queue.cap THEN 0 ELSE queue.head + 1
    BY ZenonT(30), QueuePop
  <2>4. ASSUME NEW i \in DOMAIN queue.items, i # queue.head
        PROVE  Offset(queue', i) = Offset(queue, i) - 1 /\ Offset(queue, i) \in Int
    <3>1. i \in 0 .. queue.cap - 1 /\ queue'.cap = queue.cap
      BY ZenonT(30), <2>2, QueuePop
    <3>2. (IF i >= queue'.head THEN i - queue'.head ELSE i - queue'.head + queue.cap)
            = (IF i >= queue.head THEN i - queue.head ELSE i - queue.head + queue.cap) - 1
      BY ZenonT(30), <2>2, <2>3, <2>4, <3>1, <1>OffsetPop
    <3> QED
      BY <2>2, <3>1, <3>2 DEF Offset
  <2>5. ASSUME NEW i \in DOMAIN queue'.items, NEW j \in DOMAIN queue'.items,
               queue'.items[i] # ZeroMessage, queue'.items[j] # ZeroMessage,
               Offset(queue', i) < Offset(queue', j)
        PROVE  /\ i \in DOMAIN queue.items /\ j \in DOMAIN queue.items
               /\ queue'.items[i] = queue.items[i] /\ queue'.items[j] = queue.items[j]
               /\ Offset(queue, i) < Offset(queue, j)
    <3>1. i \in DOMAIN queue.items /\ j \in DOMAIN queue.items /\ i # queue.head /\ j # queue.head
      BY ZenonT(30), <2>5, QueuePop
    <3> QED
      BY <2>4, <2>5, <3>1, QueuePop
  <2> QED
    BY <2>5 DEF SlotOrder
\* A Push of a message whose record is the last one in the log.
<1>OrderPush.
      ASSUME Base, SlotOrder, SlotsSound, LogSound, ~Full(queue), NEW m \in Message, m.id \in Msgs,
             m.id \notin QueueIds, queue' = Push(queue, m),
             NEW old \in SUBSET durable, \A e \in old : e.msg.id # m.id,
             durable' = old \cup {[pos |-> lsn + 1, msg |-> m]}
      PROVE  SlotOrder'
  <2> USE <1>OrderPush
  <2>1. IsRing(queue, Message)
    BY ZenonT(30), TypeParts DEF StoreType
  <2>2. /\ queue.cap \in Nat \ {0} /\ queue.head \in 0 .. queue.cap - 1
        /\ queue.size \in Nat /\ DOMAIN queue.items = 0 .. queue.cap - 1
    BY ZenonT(30), <2>1 DEF IsRing
  <2>3. queue'.head = queue.head /\ queue'.cap = queue.cap
    BY ZenonT(30), QueuePush
  <2>4. \A i : Offset(queue', i) = Offset(queue, i)
    BY ZenonT(30), <2>3 DEF Offset
  <2>0. /\ Offset(queue, queue.tail) = queue.size
        /\ \A i \in DOMAIN queue.items : queue.items[i] # ZeroMessage =>
             Offset(queue, i) < queue.size /\ Offset(queue, i) \in Int
    BY ZenonT(30), <2>1, CoherentOffsets DEF SlotsSound, Full
  <2>5. Offset(queue, queue.tail) = queue.size /\ queue.items[queue.tail] = ZeroMessage
    BY ZenonT(30), <2>0, RingPush
  <2>6. ASSUME NEW i \in DOMAIN queue.items, i # queue.tail, queue'.items[i] # ZeroMessage
        PROVE  /\ queue'.items[i] = queue.items[i] /\ queue.items[i].id # m.id
               /\ Offset(queue, i) < queue.size /\ Offset(queue, i) \in Int
    <3>1. queue'.items[i] = queue.items[i]
      BY ZenonT(30), <2>6, QueuePush
    <3> QED
      BY ZenonT(30), <2>0, <2>6, <3>1 DEF QueueIds
  <2>7. \A e \in durable' : e.msg.id # m.id => e \in durable
    OBVIOUS
  <2>8. \A e \in durable' : e.msg = m => e.pos = lsn + 1
    OBVIOUS
  <2>9. lsn \in Nat /\ \A e \in durable : e.pos \in Nat /\ e.pos <= lsn
    BY ZenonT(30), TypeParts DEF LogType, Entries, LogSound
  <2>10. ASSUME NEW i \in DOMAIN queue.items, NEW j \in DOMAIN queue.items,
                queue'.items[i] # ZeroMessage, queue'.items[j] # ZeroMessage,
                Offset(queue, i) < Offset(queue, j),
                NEW e \in durable', NEW f \in durable', e.msg = queue'.items[i], f.msg = queue'.items[j]
         PROVE  e.pos < f.pos
    <3>1. i # queue.tail
      BY <2>2, <2>5, <2>6, <2>10
    <3>2. e \in durable /\ e.msg = queue.items[i]
      BY ZenonT(30), <2>6, <2>7, <2>10, <3>1
    <3>3. CASE j = queue.tail
      <4>1. f.msg = m
        BY ZenonT(30), <2>10, <3>3, QueuePush
      <4> QED
        BY <2>8, <2>9, <3>2, <4>1
    <3>4. CASE j # queue.tail
      <4>1. f \in durable /\ f.msg = queue.items[j]
        BY ZenonT(30), <2>6, <2>7, <2>10, <3>4
      <4>2. queue.items[i] # ZeroMessage /\ queue.items[j] # ZeroMessage
        BY ZenonT(30), <2>6, <2>10, <3>1, <3>4
      <4> QED
        BY ZenonT(30), <2>10, <3>2, <4>1, <4>2 DEF SlotOrder
    <3> QED
      BY ZenonT(30), <3>3, <3>4
  <2>11. DOMAIN queue'.items = DOMAIN queue.items
    BY ZenonT(30), QueuePush
  <2> QED
    BY <2>4, <2>10, <2>11 DEF SlotOrder
\* A restart fills the ring in log order.
<1>OrderLoad.
      ASSUME Base, LogSound, CrashRestart, \A e \in durable : e.msg.id \in Msgs
      PROVE  SlotOrder'
  <2> USE <1>OrderLoad
  <2>1. PICK s, n : Restored(s, n)
    BY ZenonT(30), QueueLoad
  <2>2. /\ n \in Nat /\ queue'.cap \in Nat \ {0} /\ n <= queue'.cap /\ queue'.head = 0
        /\ DOMAIN queue'.items = 0 .. queue'.cap - 1
        /\ \A i \in 0 .. queue'.cap - 1 :
             queue'.items[i] = IF i < n THEN s[i + 1].msg ELSE ZeroMessage
        /\ s \in [1 .. n -> durable]
        /\ \A i, j \in 1 .. n : i < j => s[i].pos < s[j].pos
    BY ZenonT(30), <2>1 DEF Restored
  <2>3. durable' = durable
    BY ZenonT(30) DEF CrashRestart
  <2>4. ASSUME NEW i \in DOMAIN queue'.items, queue'.items[i] # ZeroMessage,
               NEW e \in durable, e.msg = queue'.items[i]
        PROVE  i \in Nat /\ i + 1 \in 1 .. n /\ Offset(queue', i) = i /\ e = s[i + 1]
    <3>1. i \in Nat /\ i + 1 \in 1 .. n /\ Offset(queue', i) = i
      BY <2>2, <2>4 DEF Offset
    <3>2. s[i + 1] \in durable /\ s[i + 1].msg = e.msg
      BY ZenonT(30), <2>2, <2>4, <3>1
    <3> QED
      BY ZenonT(30), <3>1, <3>2 DEF LogSound
  <2>5. ASSUME NEW i \in DOMAIN queue'.items, NEW j \in DOMAIN queue'.items,
               queue'.items[i] # ZeroMessage, queue'.items[j] # ZeroMessage,
               Offset(queue', i) < Offset(queue', j),
               NEW e \in durable, NEW f \in durable, e.msg = queue'.items[i], f.msg = queue'.items[j]
        PROVE  e.pos < f.pos
    <3>1. i \in Nat /\ i + 1 \in 1 .. n /\ Offset(queue', i) = i /\ e = s[i + 1]
      BY ZenonT(30), <2>4, <2>5
    <3>2. j \in Nat /\ j + 1 \in 1 .. n /\ Offset(queue', j) = j /\ f = s[j + 1]
      BY ZenonT(30), <2>4, <2>5
    <3>3. i + 1 < j + 1
      BY <2>5, <3>1, <3>2
    <3> QED
      BY ZenonT(30), <2>2, <3>1, <3>2, <3>3
  <2> QED
    BY <2>3, <2>5 DEF SlotOrder
\* Every step keeps the order.
<1>OrderStep.
      ASSUME OrderInv, RingSound, CopyInv, Base, [Next]_vars
      PROVE  OrderInv'
  <2> USE <1>OrderStep
  <2> SUFFICES ASSUME walFaults' = 0, cancels' = {} PROVE SlotOrder'
    BY ZenonT(30) DEF OrderInv
  <2>0. /\ SlotOrder /\ SlotsSound /\ LogSound /\ SlotsSingle /\ FlightSingle /\ Apart
        /\ \A d \in inFlight : d.msg.id \in Msgs
        /\ \A e \in durable : e.msg.id \in Msgs
    BY ZenonT(30), FaultsGrow, CancelsGrow DEF OrderInv, RingSound, CopyInv, SingleCopy
  <2>1. CASE queue' = queue /\ durable' \subseteq durable
    <3> SUFFICES ASSUME NEW i \in DOMAIN queue'.items, NEW j \in DOMAIN queue'.items,
                        queue'.items[i] # ZeroMessage, queue'.items[j] # ZeroMessage,
                        Offset(queue', i) < Offset(queue', j),
                        NEW e \in durable', NEW f \in durable',
                        e.msg = queue'.items[i], f.msg = queue'.items[j]
                 PROVE  e.pos < f.pos
      BY ZenonT(30) DEF SlotOrder
    <3>1. e \in durable /\ f \in durable
      BY ZenonT(30), <2>1
    <3> QED
      BY ZenonT(30), <2>0, <2>1, <3>1 DEF SlotOrder
  <2>2. ASSUME NEW p \in Msgs, PublishAccept(p) PROVE SlotOrder'
    <3> DEFINE msg == [id |-> p, retry |-> 0]
    <3>1. msg \in Message /\ msg.id = p
      BY ZenonT(30) DEF Message
    <3>2. /\ queue' = Push(queue, msg) /\ ~Full(queue)
          /\ durable' = durable \cup {[pos |-> lsn + 1, msg |-> msg]} /\ p \in Unpublished
      BY ZenonT(30), <2>2 DEF PublishAccept, Logged, MustWait, AfterPublished, Entering, Unpublished
    <3> HIDE DEF msg
    <3>3. p \notin QueueIds /\ \A e \in durable : e.msg.id # p
      BY ZenonT(30), <3>2 DEF CopyInv, Fresh, Known, HeldIds, DurableIds
    <3> QED
      BY ZenonT(30), <2>0, <3>1, <3>2, <3>3, <1>OrderPush
  <2>3. ASSUME queue.size > 0, queue' = Pop(queue), durable' \subseteq durable PROVE SlotOrder'
    BY ZenonT(30), <2>0, <2>3, <1>OrderPop
  <2>4. ASSUME NEW d \in sweep, SweepRequeue(d) PROVE SlotOrder'
    <3> DEFINE msg == [d.msg EXCEPT !.retry = @ + 1]
    <3>1. d \in inFlight /\ d.msg \in Message /\ d.msg.id \in Msgs
      BY ZenonT(30), <2>0, TypeParts DEF StoreType
    <3>2. msg \in Message /\ msg.id = d.msg.id
      BY <3>1 DEF Message
    <3>3. /\ queue' = Push(queue, msg) /\ ~Full(queue)
          /\ durable' = Forget(msg.id) \cup {[pos |-> lsn + 1, msg |-> msg]}
      BY ZenonT(30), <2>4 DEF SweepRequeue, Logged, AfterRequeued
    <3> HIDE DEF msg
    <3>4. msg.id \notin QueueIds
      BY ZenonT(30), <2>0, <3>1, <3>2 DEF Apart
    <3>5. Forget(msg.id) \in SUBSET durable /\ \A e \in Forget(msg.id) : e.msg.id # msg.id
      BY ZenonT(30) DEF Forget
    <3> QED
      BY ZenonT(30), <2>0, <3>1, <3>2, <3>3, <3>4, <3>5, <1>OrderPush
  <2>5. CASE CrashRestart
    BY ZenonT(30), <2>0, <2>5, <1>OrderLoad
  <2>6. walFaults' # walFaults + 1
    BY TypeParts DEF LogType
  <2>7. \/ walFaults' = walFaults + 1 \/ cancels' # {}
        \/ queue' = queue /\ durable' \subseteq durable
        \/ \E p \in Msgs : PublishAccept(p)
        \/ queue.size > 0 /\ queue' = Pop(queue) /\ durable' \subseteq durable
        \/ (\E d \in sweep : SweepRequeue(d)) \/ CrashRestart
    BY ZenonT(30), StepKinds DEF Quiet, PublishLogError, Ack, AckLogError, DeadLetterHead,
       DeadLetterLogError, AtHead, HeadExpired, ReserveDelivery, CancelReservation,
       SweepDeadLetter, SweepLogError, LogsRemoval, LogsRemovalFailed, Logged, LogFailed, Forget
  <2> QED
    BY ZenonT(30), <2>1, <2>2, <2>3, <2>4, <2>5, <2>6, <2>7
<1>OffsetAt.
      ASSUME NEW c \in Nat \ {0}, NEW h \in 0 .. c - 1, NEW k \in 1 .. c
      PROVE  LET x == SlotOf(h, k, c)
             IN x \in 0 .. c - 1 /\ (IF x >= h THEN x - h ELSE x - h + c) = k - 1
  <2> USE <1>OffsetAt
  <2>1. ASSUME NEW n, n = h + k - 1, NEW x, x = n % c
        PROVE  x \in 0 .. c - 1 /\ (IF x >= h THEN x - h ELSE x - h + c) = k - 1
    <3>1. n \in 0 .. c + c - 1
      BY <2>1
    <3>2. x = IF n >= c THEN n - c ELSE n
      BY ZenonT(30), <2>1, <3>1, ModOnce
    <3> QED
      BY <2>1, <3>1, <3>2
  <2> QED
    BY ZenonT(30), <2>1 DEF SlotOf
<1>1. Init => OrderInv
  <2> SUFFICES ASSUME Init PROVE SlotOrder
    BY ZenonT(30) DEF OrderInv
  <2> QED
    BY ZenonT(30) DEF Init, SlotOrder
<1>2. OrderInv /\ RingSound /\ CopyInv /\ Base /\ [Next]_vars => OrderInv'
  BY ZenonT(30), <1>OrderStep
<1>3. OrderInv /\ RingSound /\ Base => QueueInLogOrder
  <2> SUFFICES ASSUME SlotOrder, SlotsSound, Base,
                      NEW i \in 1 .. queue.size, NEW j \in 1 .. queue.size, i < j,
                      NEW e \in durable, NEW f \in durable,
                      e.msg = Contents(queue)[i], f.msg = Contents(queue)[j]
               PROVE  e.pos < f.pos
    BY DEF OrderInv, RingSound, QueueInLogOrder, Contents
  <2>1. /\ queue.cap \in Nat \ {0} /\ queue.head \in 0 .. queue.cap - 1
        /\ queue.size \in Nat /\ queue.size <= queue.cap
        /\ DOMAIN queue.items = 0 .. queue.cap - 1
    BY ZenonT(30), TypeParts DEF StoreType, IsRing, SlotsSound, Coherent
  <2>2. ASSUME NEW k \in 1 .. queue.size
        PROVE  /\ SlotOf(queue.head, k, queue.cap) \in DOMAIN queue.items
               /\ Offset(queue, SlotOf(queue.head, k, queue.cap)) = k - 1
    <3>1. k \in 1 .. queue.cap
      BY <2>1
    <3> QED
      BY ZenonT(30), <2>1, <3>1, <1>OffsetAt DEF Offset
  <2> DEFINE x == SlotOf(queue.head, i, queue.cap)
             y == SlotOf(queue.head, j, queue.cap)
  <2>3. /\ x \in DOMAIN queue.items /\ Offset(queue, x) = i - 1
        /\ y \in DOMAIN queue.items /\ Offset(queue, y) = j - 1
    BY ZenonT(30), <2>2
  <2>4. e.msg = queue.items[x] /\ f.msg = queue.items[y]
    BY ZenonT(30) DEF Contents, SlotOf
  <2> HIDE DEF x, y
  <2>5. Offset(queue, x) < Offset(queue, y) /\ Offset(queue, x) < queue.size /\ Offset(queue, y) < queue.size
    BY <2>1, <2>3
  <2>6. queue.items[x] # ZeroMessage /\ queue.items[y] # ZeroMessage
    BY ZenonT(30), <2>1, <2>3, <2>5 DEF SlotsSound, Coherent
  <2> QED
    BY ZenonT(30), <2>3, <2>4, <2>5, <2>6 DEF SlotOrder
<1> QED
  BY <1>1, <1>2, <1>3, RingInvariant, CopyInvariant, BaseInvariant, PTL DEF Spec
=============================================================================
