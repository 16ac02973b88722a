-------------------------- MODULE QueueCountProofs --------------------------
(***************************************************************************)
(* What the queue counts is right: the metrics add up, the prefetch        *)
(* counters are the number of deliveries in flight, the prefetch limit     *)
(* holds, and no wakeup of a publisher is lost. The proofs are over the    *)
(* cardinality of sets of messages and deliveries that are finite, however *)
(* large.                                                                  *)
(***************************************************************************)
EXTENDS QueueRuntimeProofs, FiniteSetTheorems

USE DEF vars, data, store, counts, log, hist, sched, conns, ctl, lock, distr,
        env, life, clocks, Notify

\* A step that names no prover is given more time than the default.
USE SMTT(30), ZenonT(30)

\* Only finitely many deliveries are in flight, however many there may be.
Finite == IsFiniteSet(inFlight)

\* Every step puts one delivery in flight at most.
LEMMA FiniteInvariant == Spec => []Finite
<1>1. Init => Finite
  BY ZenonT(30), FS_EmptySet DEF Init, Finite
<1>2. Finite /\ Base /\ [Next]_vars => Finite'
  <2> SUFFICES ASSUME Finite, Base, [Next]_vars PROVE Finite'
    BY ZenonT(30)
  <2>1. CASE ReserveDelivery
    <3>1. PICK d : inFlight' = inFlight \cup {d}
      BY ZenonT(30), <2>1 DEF ReserveDelivery
    <3> QED
      BY ZenonT(30), <3>1, FS_AddElement DEF Finite
  <2>2. CASE inFlight' \subseteq inFlight
    BY ZenonT(30), <2>2, FS_Subset DEF Finite
  <2> QED
    BY ZenonT(30), <2>1, <2>2, FlightStep
<1> QED
  BY <1>1, <1>2, BaseInvariant, PTL DEF Spec

-----------------------------------------------------------------------------
(* Metrics. *)

\* Metrics adds up under q.mu, for any number of messages, redeliveries, expiries
\* and crashes, unless a cancellation came late: every method that moves a message
\* counts it once.
THEOREM MetricsAddUp == Spec => []MetricsBalance
\* The number of deliveries in flight after one more, and after one less.
<1>FlightCount.
      ASSUME Finite
      PROVE  /\ Cardinality(inFlight) \in Nat
             /\ \A d : d \notin inFlight =>
                  Cardinality(inFlight \cup {d}) = Cardinality(inFlight) + 1
             /\ \A d \in inFlight : Cardinality(inFlight \ {d}) = Cardinality(inFlight) - 1
  <2> USE <1>FlightCount
  <2>1. IsFiniteSet(inFlight)
    BY ZenonT(30) DEF Finite
  <2> QED
    BY ZenonT(30), <2>1, FS_CardinalityType, FS_AddElement, FS_RemoveElement
<1>1. Init => MetricsBalance
  BY FS_EmptySet DEF Init, NewRing, MetricsBalance
<1>2. MetricsBalance /\ HeldSound /\ Finite /\ Base /\ [Next]_vars => MetricsBalance'
  <2> SUFFICES ASSUME MetricsBalance, HeldSound, Finite, Base, [Next]_vars, "late" \notin cancels'
               PROVE  producedCount' = ackedCount' + deadletteredCount'
                                         + Cardinality(inFlight') + queue'.size
    BY ZenonT(30) DEF MetricsBalance
  <2> DEFINE c == Cardinality(inFlight)
             Goal == producedCount' = ackedCount' + deadletteredCount'
                                        + Cardinality(inFlight') + queue'.size
  <2>1. /\ producedCount \in Nat /\ ackedCount \in Nat /\ deadletteredCount \in Nat
        /\ queue.size \in Nat /\ c \in Nat
    BY ZenonT(30), TypeParts, <1>FlightCount DEF LogType, StoreType, IsRing
  <2>2. producedCount = ackedCount + deadletteredCount + c + queue.size
    BY ZenonT(30), CancelsGrow DEF MetricsBalance
  <2>3. CASE UNCHANGED <<counts, inFlight, queue>>
    BY ZenonT(30), <2>2, <2>3
  <2>4. ASSUME NEW p \in Msgs, PublishAccept(p) PROVE Goal
    <3>1. /\ queue' = Push(queue, [id |-> p, retry |-> 0]) /\ producedCount' = producedCount + 1
          /\ UNCHANGED <<ackedCount, deadletteredCount, inFlight>>
      BY ZenonT(30), <2>4 DEF PublishAccept
    <3>2. queue'.size = queue.size + 1
      BY ZenonT(30), <3>1 DEF Push
    <3> QED
      BY <2>1, <2>2, <3>1, <3>2
  <2>5. ASSUME NEW d \in inFlight, Ack(d) PROVE Goal
    <3>1. /\ inFlight' = inFlight \ {d} /\ ackedCount' = ackedCount + 1
          /\ UNCHANGED <<queue, producedCount, deadletteredCount>>
      BY ZenonT(30), <2>5 DEF Ack, AckEffect
    <3>2. Cardinality(inFlight') = c - 1
      BY ZenonT(30), <3>1, <1>FlightCount
    <3> QED
      BY <2>1, <2>2, <3>1, <3>2
  <2>6. ASSUME NEW p \in {"distributor", "expiry"}, DeadLetterHead(p) PROVE Goal
    <3>1. /\ queue.size > 0 /\ queue' = Pop(queue) /\ deadletteredCount' = deadletteredCount + 1
          /\ UNCHANGED <<producedCount, ackedCount, inFlight>>
      BY ZenonT(30), <2>6 DEF DeadLetterHead, AtHead, HeadExpired
    <3>2. queue'.size = queue.size - 1
      BY ZenonT(30), <3>1 DEF Pop
    <3> QED
      BY <2>1, <2>2, <3>1, <3>2
  <2>7. CASE ReserveDelivery
    <3>1. PICK d : d.token = tokens + 1 /\ inFlight' = inFlight \cup {d}
      BY ZenonT(30), <2>7 DEF ReserveDelivery
    <3>2. d \notin inFlight
      BY <3>1, TypeParts DEF StoreType
    <3>3. Cardinality(inFlight') = c + 1
      BY ZenonT(30), <3>1, <3>2, <1>FlightCount
    <3>4. queue' = Pop(queue) /\ UNCHANGED counts
      BY ZenonT(30), <2>7 DEF ReserveDelivery
    <3>5. queue'.size = queue.size - 1
      BY ZenonT(30), <3>4 DEF Pop
    <3> QED
      BY <2>1, <2>2, <3>3, <3>4, <3>5
  <2>8. CASE CancelReservation
    <3>1. held \in inFlight /\ inFlight' = inFlight \ {held}
      BY ZenonT(30), <2>8, CancelTakes
    <3>2. Cardinality(inFlight') = c - 1
      BY ZenonT(30), <3>1, <1>FlightCount
    <3>3. queue' = Push(queue, held.msg) /\ UNCHANGED counts
      BY ZenonT(30), <2>8 DEF CancelReservation
    <3>4. queue'.size = queue.size + 1
      BY ZenonT(30), <3>3 DEF Push
    <3> QED
      BY <2>1, <2>2, <3>2, <3>3, <3>4
  <2>9. ASSUME NEW d \in sweep, SweepDeadLetter(d) \/ SweepRequeue(d) PROVE Goal
    <3>1. d \in inFlight /\ inFlight' = inFlight \ {d}
      BY ZenonT(30), <2>9, TypeParts DEF StoreType, SweepDeadLetter, SweepRequeue
    <3>2. Cardinality(inFlight') = c - 1
      BY ZenonT(30), <3>1, <1>FlightCount
    <3>3. CASE SweepDeadLetter(d)
      <4>1. /\ deadletteredCount' = deadletteredCount + 1
            /\ UNCHANGED <<queue, producedCount, ackedCount>>
        BY ZenonT(30), <3>3 DEF SweepDeadLetter
      <4> QED
        BY <2>1, <2>2, <3>2, <4>1
    <3>4. CASE SweepRequeue(d)
      <4>1. queue'.size = queue.size + 1 /\ UNCHANGED counts
        BY ZenonT(30), <3>4 DEF SweepRequeue, Push
      <4> QED
        BY <2>1, <2>2, <3>2, <4>1
    <3> QED
      BY ZenonT(30), <2>9, <3>3, <3>4
  <2>10. CASE CrashRestart
    <3>1. inFlight' = {} /\ ackedCount' = 0 /\ deadletteredCount' = 0
      BY ZenonT(30), <2>10 DEF CrashRestart
    <3>2. PICK s, n : Restored(s, n)
      BY ZenonT(30), <2>10, QueueLoad
    <3>3. producedCount' = queue'.size /\ queue'.size \in Nat
      BY ZenonT(30), <3>2 DEF Restored
    <3>4. Cardinality(inFlight') = 0
      BY ZenonT(30), <3>1, FS_EmptySet
    <3> QED
      BY <3>1, <3>3, <3>4
  <2>11. \/ UNCHANGED <<counts, inFlight, queue>>
         \/ (\E p \in Msgs : PublishAccept(p)) \/ (\E d \in inFlight : Ack(d))
         \/ (\E p \in {"distributor", "expiry"} : DeadLetterHead(p))
         \/ ReserveDelivery \/ CancelReservation
         \/ (\E d \in sweep : SweepRequeue(d) \/ SweepDeadLetter(d)) \/ CrashRestart
    BY ZenonT(30), StepKinds DEF Quiet, PublishLogError, AckLogError, DeadLetterLogError, SweepLogError
  <2> QED
    BY ZenonT(30), <2>3, <2>4, <2>5, <2>6, <2>7, <2>8, <2>9, <2>10, <2>11
<1> QED
  BY <1>1, <1>2, HeldInvariant, FiniteInvariant, BaseInvariant, PTL DEF Spec

-----------------------------------------------------------------------------
(* Wakeups. *)

\* The calls of Publish that sleep on condProd or were woken from it.
Sleepers == {m \in Msgs : pub[m] \in {"waiting", "woken"}}

\* Those that were woken.
Woken == {m \in Msgs : pub[m] = "woken"}

\* Only finitely many calls of Publish have started, however many there may be.
WakeInv == WakeupsCover /\ IsFiniteSet(Sleepers)

\* No wakeup is lost on condProd: while a publisher sleeps, every vacant slot has a
\* woken publisher on its way to it, for any number of publishers, as long as no
\* append failed.
THEOREM NoLostWakeup == Spec => []WakeupsCover
\* The steps by what they do to the publishers and to the size of the ring.
<1>WakeKinds.
      ASSUME Base, [Next]_vars
      PROVE  \/ UNCHANGED <<pub, closed>> /\ (queue' = queue \/ \E m : queue' = Push(queue, m))
             \/ /\ closed' = closed /\ pub' \in Signal(pub)
                /\ queue' = Pop(queue) \/ \E m : queue' = Push(queue, m)
             \/ \E m \in Msgs : Publish(m)
             \/ CloseRuntime \/ CrashRestart
  <2> USE <1>WakeKinds
  <2>1. CASE UNCHANGED vars
    BY ZenonT(30), <2>1
  <2>2. CASE \/ \E m \in Msgs : TTLPasses(m)
             \/ \E d \in inFlight : Ack(d) \/ AckLogError(d)
             \/ \E t \in handed : AckInvalid(t)
             \/ \E s \in Sessions : Subscribe(s) \/ Unsubscribe(s) \/ Receive(s)
    BY ZenonT(30), <2>2 DEF TTLPasses, Ack, AckLogError, AckInvalid, Subscribe, Unsubscribe, Receive
  <2>3. CASE Distributor
    BY ZenonT(30), <2>3 DEF Distributor, DistributorTop, DistributorNotified, DistributorCancelled,
       DeadLetterHead, DeadLetterLogError, ReserveNothing, ReserveDelivery, SendDelivery,
       SendRefused, CancelReservation, FreesSlot
  <2>4. CASE RedeliveryWorker
    BY ZenonT(30), <2>4 DEF RedeliveryWorker, SweepBegin, SweepItem, SweepSkip, SweepDeadLetter,
       SweepRequeue, SweepLogError, WorkerExit
  <2>5. CASE ExpiryWorker
    BY ZenonT(30), <2>5 DEF ExpiryWorker, DeadLetterHead, DeadLetterLogError, ExpirySweepEnds, WorkerExit,
       FreesSlot
  <2>6. CASE CancelContext \/ ReleaseTokens \/ AckTimeoutPasses
    BY ZenonT(30), <2>6 DEF CancelContext, ReleaseTokens, AckTimeoutPasses
  <2> QED
    BY ZenonT(30), <2>1, <2>2, <2>3, <2>4, <2>5, <2>6 DEF Next, Shutdown, CloseIfEmpty
\* The woken publishers are finitely many; one of them going, or one coming.
<1>WokenCount.
      ASSUME IsFiniteSet(Sleepers)
      PROVE  /\ IsFiniteSet(Woken) /\ Cardinality(Woken) \in Nat
             /\ \A m : Cardinality(Woken \ {m}) >= Cardinality(Woken) - 1 /\ Cardinality(Woken \ {m}) \in Nat
             /\ \A m : m \notin Woken => Cardinality(Woken \cup {m}) = Cardinality(Woken) + 1
  <2> USE <1>WokenCount
  <2>1. Woken \in SUBSET Sleepers
    BY ZenonT(30) DEF Woken, Sleepers
  <2>2. IsFiniteSet(Woken)
    BY ZenonT(30), <2>1, FS_Subset
  <2>3. Cardinality(Woken) \in Nat
    BY ZenonT(30), <2>2, FS_CardinalityType
  <2>4. ASSUME NEW m
        PROVE  Cardinality(Woken \ {m}) >= Cardinality(Woken) - 1 /\ Cardinality(Woken \ {m}) \in Nat
    <3>1. /\ IsFiniteSet(Woken \ {m})
          /\ Cardinality(Woken \ {m}) = IF m \in Woken THEN Cardinality(Woken) - 1 ELSE Cardinality(Woken)
      BY ZenonT(30), <2>2, FS_RemoveElement
    <3>2. Cardinality(Woken \ {m}) \in Nat
      BY ZenonT(30), <3>1, FS_CardinalityType
    <3> QED
      BY <2>3, <3>1, <3>2
  <2>5. \A m : m \notin Woken => Cardinality(Woken \cup {m}) = Cardinality(Woken) + 1
    BY ZenonT(30), <2>2, FS_AddElement
  <2> QED
    BY ZenonT(30), <2>2, <2>3, <2>4, <2>5
\* The size of the ring after a Push and a Pop.
<1>SizeAfter.
      ASSUME Base
      PROVE  /\ queue.size \in Nat /\ queue.cap \in Nat
             /\ \A m : queue' = Push(queue, m) => queue'.size = queue.size + 1 /\ queue'.cap = queue.cap
             /\ queue' = Pop(queue) => queue'.size = queue.size - 1 /\ queue'.cap = queue.cap
  BY <1>SizeAfter, TypeParts DEF StoreType, IsRing, Push, Pop
\* Every step keeps the wakeups ahead of the vacant slots.
<1>WakeStep.
      ASSUME WakeInv, Base, [Next]_vars
      PROVE  WakeInv'
  <2> USE <1>WakeStep
  <2> DEFINE w == Cardinality(Woken)
  <2>1. /\ pub \in [Msgs -> PubStates] /\ closed \in BOOLEAN /\ walFaults \in Nat
        /\ IsFiniteSet(Sleepers) /\ w \in Nat
    BY ZenonT(30), TypeParts, <1>WokenCount DEF HistType, LifeType, LogType, WakeInv
  <2>2. walFaults' = 0 /\ Waiting(pub) # {} => ~closed /\ queue.cap - queue.size <= w
    BY ZenonT(30), FaultsGrow DEF WakeInv, WakeupsCover, Woken
  <2>3. ASSUME IsFiniteSet(Sleepers'),
               (walFaults' = 0 /\ Waiting(pub') # {}) =>
                  ~closed' /\ queue'.cap - queue'.size <= Cardinality(Woken')
        PROVE  WakeInv'
    BY ZenonT(30), <2>3 DEF WakeInv, WakeupsCover, Woken
  <2>4. CASE UNCHANGED <<pub, closed>> /\ (queue' = queue \/ \E m : queue' = Push(queue, m))
    <3>1. Sleepers' = Sleepers /\ Woken' = Woken /\ Waiting(pub') = Waiting(pub)
      BY ZenonT(30), <2>4 DEF Sleepers, Woken
    <3>2. queue'.cap - queue'.size <= queue.cap - queue.size /\ queue'.cap - queue'.size \in Int
      BY <2>4, <1>SizeAfter
    <3>3. queue.cap - queue.size \in Int
      BY <1>SizeAfter
    <3> QED
      BY <2>1, <2>2, <2>3, <2>4, <3>1, <3>2, <3>3
  <2>5. CASE /\ closed' = closed /\ pub' \in Signal(pub)
             /\ queue' = Pop(queue) \/ \E m : queue' = Push(queue, m)
    <3>0. queue'.cap - queue'.size <= queue.cap - queue.size + 1
      BY <2>5, <1>SizeAfter
    <3>1. CASE Waiting(pub) = {}
      <4>1. pub' = pub
        BY ZenonT(30), <2>5, <3>1 DEF Signal
      <4>2. Sleepers' = Sleepers /\ Waiting(pub') = {}
        BY ZenonT(30), <3>1, <4>1 DEF Sleepers
      <4> QED
        BY ZenonT(30), <2>1, <2>3, <4>2
    <3>2. CASE Waiting(pub) # {}
      <4>1. PICK m \in Waiting(pub) : pub' = [pub EXCEPT ![m] = "woken"]
        BY ZenonT(30), <2>5, <3>2 DEF Signal
      <4>2. m \in Msgs /\ pub[m] = "waiting"
        BY ZenonT(30) DEF Waiting
      <4>3. Sleepers' = Sleepers /\ Woken' = Woken \cup {m} /\ m \notin Woken
        BY ZenonT(30), <2>1, <4>1, <4>2 DEF Sleepers, Woken
      <4>4. Cardinality(Woken') = w + 1
        BY ZenonT(30), <2>1, <4>3, <1>WokenCount
      <4>5. walFaults' = 0 => ~closed' /\ queue'.cap - queue'.size <= Cardinality(Woken')
        <5>1. queue.cap - queue.size \in Int /\ queue'.cap - queue'.size \in Int
          BY <2>5, <1>SizeAfter
        <5> QED
          BY <2>1, <2>2, <2>5, <3>0, <3>2, <4>4, <5>1
      <4> QED
        BY ZenonT(30), <2>1, <2>3, <4>3, <4>5
    <3> QED
      BY ZenonT(30), <3>1, <3>2
  <2>6. ASSUME NEW m \in Msgs, PublishWait(m) PROVE WakeInv'
    <3>1. pub' = [pub EXCEPT ![m] = "waiting"] /\ ~closed' /\ queue' = queue /\ Full(queue)
      BY ZenonT(30), <2>6 DEF PublishWait, MustWait
    <3>2. Sleepers' = Sleepers \cup {m} /\ Woken' = Woken \ {m}
      BY ZenonT(30), <2>1, <3>1 DEF Sleepers, Woken
    <3>3. IsFiniteSet(Sleepers') /\ Cardinality(Woken') \in Nat
      BY ZenonT(30), <2>1, <3>2, FS_AddElement, <1>WokenCount
    <3>4. queue'.cap - queue'.size <= Cardinality(Woken')
      BY <3>1, <3>3, <1>SizeAfter DEF Full
    <3> QED
      BY ZenonT(30), <2>3, <3>1, <3>3, <3>4
  <2>7. ASSUME NEW m \in Msgs, PublishClosed(m) \/ PublishAccept(m) \/ PublishLogError(m)
        PROVE  WakeInv'
    <3>1. /\ pub' \in {[pub EXCEPT ![m] = "accepted"], [pub EXCEPT ![m] = "rejected"]}
          /\ closed' = closed
      BY ZenonT(30), <2>7 DEF PublishClosed, PublishAccept, PublishLogError
    <3>2. Sleepers' = Sleepers \ {m} /\ Woken' = Woken \ {m} /\ Waiting(pub') \subseteq Waiting(pub)
      BY ZenonT(30), <2>1, <3>1 DEF Sleepers, Woken, Waiting
    <3>3. IsFiniteSet(Sleepers') /\ Cardinality(Woken') >= w - 1 /\ Cardinality(Woken') \in Nat
      BY ZenonT(30), <2>1, <3>2, FS_RemoveElement, <1>WokenCount
    <3>4. CASE PublishClosed(m)
      <4>1. closed /\ walFaults' = walFaults
        BY ZenonT(30), <3>4 DEF PublishClosed
      <4> QED
        BY ZenonT(30), <2>2, <2>3, <3>2, <3>3, <4>1
    <3>5. CASE PublishLogError(m)
      <4>1. walFaults' # 0
        BY <2>1, <3>5 DEF PublishLogError, LogFailed
      <4> QED
        BY ZenonT(30), <2>3, <3>3, <4>1
    <3>6. CASE PublishAccept(m)
      <4>1. queue'.cap - queue'.size = queue.cap - queue.size - 1 /\ queue.cap - queue.size \in Int
        BY <3>6, <1>SizeAfter DEF PublishAccept
      <4>2. walFaults' = 0 /\ Waiting(pub') # {} =>
              ~closed' /\ queue'.cap - queue'.size <= Cardinality(Woken')
        BY <2>1, <2>2, <3>1, <3>2, <3>3, <4>1
      <4> QED
        BY ZenonT(30), <2>3, <3>3, <4>2
    <3> QED
      BY ZenonT(30), <2>7, <3>4, <3>5, <3>6
  <2>8. CASE CloseRuntime \/ CrashRestart
    <3>1. Sleepers' \in SUBSET Sleepers /\ Waiting(pub') = {}
      <4>1. CASE CloseRuntime
        BY ZenonT(30), <2>1, <4>1 DEF CloseRuntime, Broadcast, Sleepers, Waiting
      <4>2. CASE CrashRestart
        BY ZenonT(30), <2>1, <4>2 DEF CrashRestart, Sleepers, Waiting
      <4> QED
        BY ZenonT(30), <2>8, <4>1, <4>2
    <3>2. IsFiniteSet(Sleepers')
      BY ZenonT(30), <2>1, <3>1, FS_Subset
    <3> QED
      BY ZenonT(30), <2>3, <3>1, <3>2
  <2> QED
    BY ZenonT(30), <2>4, <2>5, <2>6, <2>7, <2>8, <1>WakeKinds DEF Publish
<1>1. Init => WakeInv
  <2> SUFFICES ASSUME Init PROVE WakeInv
    BY ZenonT(30)
  <2>1. Sleepers = {} /\ Waiting(pub) = {}
    BY ZenonT(30) DEF Init, Sleepers, Waiting
  <2> QED
    BY ZenonT(30), <2>1, FS_EmptySet DEF WakeInv, WakeupsCover
<1>2. WakeInv /\ Base /\ [Next]_vars => WakeInv'
  BY ZenonT(30), <1>WakeStep
<1>3. WakeInv => WakeupsCover
  BY ZenonT(30) DEF WakeInv
<1> QED
  BY <1>1, <1>2, <1>3, BaseInvariant, PTL DEF Spec

-----------------------------------------------------------------------------
(* Prefetch. *)

\* The counter of the session registered under c, and what it should be.
Counted(c) ==
  LET s == consumerSessions[c]
  IN unackedCount[s] + Cardinality(carried[s]) = Cardinality(Outstanding(c))

\* A session that has not subscribed yet is registered nowhere and counts nothing.
Unused(s) == unackedCount[s] = 0 /\ \A c \in Consumers : consumerSessions[c] # s

\* The counters of the registered sessions are right and within the limit.
PrefetchInv ==
  /\ \A c \in Consumers : Registered(c) =>
       Counted(c) /\ unackedCount[consumerSessions[c]] <= ConsumerPrefetch
  /\ \A s \in Sessions : IsFiniteSet(carried[s]) /\ (handler[s] = "new" => Unused(s))

\* A delivery leaves the in-flight table and its consumer gets the credit.
Credited(d) ==
  /\ inFlight' = inFlight \ {d} /\ unackedCount' = Credit(d.consumer)
  /\ UNCHANGED <<consumerSessions, carried, handler>>

\* The counters hold from the start.
LEMMA PrefetchInvariant == Spec => []PrefetchInv
\* The steps by what they do to the counters.
<1>PrefetchKinds.
      ASSUME HeldSound, Base, [Next]_vars
      PROVE  \/ UNCHANGED <<inFlight, unackedCount, consumerSessions, carried, handler>>
             \/ \E d \in inFlight : Credited(d)
             \/ \E s \in Sessions : Subscribe(s) \/ Unsubscribe(s)
             \/ ReserveDelivery \/ CloseRuntime \/ CrashRestart
  <2> USE <1>PrefetchKinds
  <2>1. CASE UNCHANGED vars
    BY ZenonT(30), <2>1
  <2>2. CASE \/ \E m \in Msgs : Publish(m) \/ TTLPasses(m)
             \/ \E d \in inFlight : AckLogError(d)
             \/ \E t \in handed : AckInvalid(t)
             \/ \E s \in Sessions : Receive(s)
             \/ CancelContext \/ ReleaseTokens \/ AckTimeoutPasses
    BY ZenonT(30), <2>2 DEF Publish, PublishWait, PublishClosed, PublishAccept, PublishLogError, TTLPasses,
       AckLogError, AckInvalid, Receive, CancelContext, ReleaseTokens, AckTimeoutPasses
  <2>3. ASSUME NEW d \in inFlight, Ack(d) PROVE Credited(d)
    BY ZenonT(30), <2>3 DEF Ack, AckEffect, Credited
  <2>4. CASE CancelReservation
    <3>1. CASE held.token \in Tokens
      <4>1. held \in inFlight /\ inFlight' = inFlight \ {held}
        BY ZenonT(30), <2>4, <3>1 DEF CancelReservation, Tokens, HeldSound
      <4>2. Credited(held)
        BY ZenonT(30), <2>4, <3>1, <4>1 DEF CancelReservation, Credited
      <4> QED
        BY ZenonT(30), <4>1, <4>2
    <3>2. CASE held.token \notin Tokens
      BY <2>4, <3>2 DEF CancelReservation, Tokens
    <3> QED
      BY ZenonT(30), <3>1, <3>2
  <2>5. CASE Distributor
    BY ZenonT(30), <2>4, <2>5 DEF Distributor, DistributorTop, DistributorNotified, DistributorCancelled,
       DeadLetterHead, DeadLetterLogError, ReserveNothing, SendDelivery, SendRefused
  <2>6. ASSUME NEW d \in sweep, SweepItem(d)
        PROVE  \/ UNCHANGED <<inFlight, unackedCount, consumerSessions, carried, handler>>
               \/ d \in inFlight /\ Credited(d)
    <3>1. d \in inFlight
      BY ZenonT(30), TypeParts DEF StoreType
    <3> QED
      BY ZenonT(30), <2>6, <3>1 DEF SweepItem, SweepSkip, SweepDeadLetter, SweepRequeue, SweepLogError, Credited
  <2>7. CASE RedeliveryWorker \/ ExpiryWorker
    BY ZenonT(30), <2>6, <2>7 DEF RedeliveryWorker, ExpiryWorker, SweepBegin, WorkerExit, DeadLetterHead,
       DeadLetterLogError, ExpirySweepEnds
  <2> QED
    BY ZenonT(30), <2>1, <2>2, <2>3, <2>5, <2>7 DEF Next, Shutdown, CloseIfEmpty
\* The number of deliveries that a consumer has outstanding.
<1>OutstandingCount.
      ASSUME Finite, NEW c
      PROVE  /\ IsFiniteSet(Outstanding(c)) /\ Cardinality(Outstanding(c)) \in Nat
             /\ \A d : d \notin inFlight =>
                  Cardinality(Outstanding(c) \cup {d}) = Cardinality(Outstanding(c)) + 1
             /\ \A d \in inFlight : d.consumer = c =>
                  Cardinality(Outstanding(c) \ {d}) = Cardinality(Outstanding(c)) - 1
  <2> USE <1>OutstandingCount
  <2>1. IsFiniteSet(inFlight) /\ Outstanding(c) \in SUBSET inFlight
    BY ZenonT(30) DEF Finite, Outstanding
  <2>2. IsFiniteSet(Outstanding(c))
    BY ZenonT(30), <2>1, FS_Subset
  <2>3. Cardinality(Outstanding(c)) \in Nat
    BY ZenonT(30), <2>2, FS_CardinalityType
  <2>4. \A d : d \notin inFlight =>
          Cardinality(Outstanding(c) \cup {d}) = Cardinality(Outstanding(c)) + 1
    BY ZenonT(30), <2>1, <2>2, FS_AddElement
  <2>5. \A d \in inFlight : d.consumer = c => d \in Outstanding(c)
    BY ZenonT(30) DEF Outstanding
  <2>6. \A d \in inFlight : d.consumer = c =>
          Cardinality(Outstanding(c) \ {d}) = Cardinality(Outstanding(c)) - 1
    BY ZenonT(30), <2>2, <2>5, FS_RemoveElement
  <2> QED
    BY ZenonT(30), <2>2, <2>3, <2>4, <2>6
\* No two consumers share a session.
<1>OwnSession.
      ASSUME Base, NEW c \in Consumers, NEW b \in Consumers, Registered(c),
             consumerSessions[b] = consumerSessions[c]
      PROVE  b = c
  BY ZenonT(30), <1>OwnSession DEF Base, SchedulerSound, Registered
\* A credit goes to the session registered under the id, and to no other.
<1>CreditAt.
      ASSUME Base, NEW b \in Consumers, NEW s \in Sessions
      PROVE  Credit(b)[s] = IF s = consumerSessions[b] THEN unackedCount[s] - 1 ELSE unackedCount[s]
  <2> USE <1>CreditAt
  <2>1. unackedCount \in [Sessions -> Int] /\ NoSession \notin Sessions
    BY ZenonT(30), TypeParts, NameAssumption DEF SchedType
  <2> QED
    BY ZenonT(30), <2>1 DEF Credit, Registered
\* Every step keeps the counters right.
<1>PrefetchStep.
      ASSUME PrefetchInv, HeldSound, Finite, Base, [Next]_vars
      PROVE  PrefetchInv'
  <2> USE <1>PrefetchStep
  <2>0. /\ unackedCount \in [Sessions -> Int] /\ NoSession \notin Sessions
        /\ consumerSessions \in [Consumers -> Sessions \cup {NoSession}]
        /\ handler \in [Sessions -> {"new", "active", "gone"}]
        /\ carried \in [Sessions -> SUBSET Delivery] /\ ConsumerPrefetch \in Nat
        /\ ConsumerOf \in [Sessions -> Consumers]
    BY ZenonT(30), TypeParts, NameAssumption, ConfigAssumption DEF SchedType, ConnsType, HistType
  <2>1. \A s \in Sessions : Cardinality(carried[s]) \in Nat
    BY ZenonT(30), FS_CardinalityType DEF PrefetchInv
  <2>2. \A c \in Consumers : Registered(c) => consumerSessions[c] \in Sessions
    BY ZenonT(30), <2>0 DEF Registered
  <2>3. CASE UNCHANGED <<inFlight, unackedCount, consumerSessions, carried, handler>>
    BY ZenonT(30), <2>3 DEF PrefetchInv, Counted, Unused, Registered, Outstanding
  <2>4. ASSUME NEW d \in inFlight, Credited(d) PROVE PrefetchInv'
    <3>0. d.consumer \in Consumers
      BY ZenonT(30), TypeParts DEF StoreType
    <3>1. ASSUME NEW s \in Sessions
          PROVE  unackedCount'[s] = IF s = consumerSessions[d.consumer] THEN unackedCount[s] - 1
                                                                        ELSE unackedCount[s]
      BY ZenonT(30), <2>4, <3>0, <1>CreditAt DEF Credited
    <3>2. ASSUME NEW c \in Consumers, Registered(c)'
          PROVE  Counted(c)' /\ unackedCount'[consumerSessions'[c]] <= ConsumerPrefetch
      <4> DEFINE s == consumerSessions[c]
      <4>1. Registered(c) /\ s \in Sessions /\ consumerSessions' = consumerSessions /\ carried' = carried
        BY ZenonT(30), <2>2, <2>4, <3>2 DEF Registered, Credited
      <4>2. /\ unackedCount[s] + Cardinality(carried[s]) = Cardinality(Outstanding(c))
            /\ unackedCount[s] <= ConsumerPrefetch
        BY ZenonT(30), <4>1 DEF PrefetchInv, Counted
      <4>3. CASE c = d.consumer
        <5>1. unackedCount'[s] = unackedCount[s] - 1
          BY ZenonT(30), <3>1, <4>1, <4>3
        <5>2. Outstanding(c)' = Outstanding(c) \ {d}
          BY ZenonT(30), <2>4 DEF Credited, Outstanding
        <5>3. Cardinality(Outstanding(c)') = Cardinality(Outstanding(c)) - 1
          BY ZenonT(30), <4>3, <5>2, <1>OutstandingCount
        <5>4. unackedCount'[s] + Cardinality(carried[s]) = Cardinality(Outstanding(c)')
          BY <2>0, <2>1, <4>1, <4>2, <5>1, <5>3
        <5> QED
          BY <2>0, <4>1, <4>2, <5>1, <5>4 DEF Counted
      <4>4. CASE c # d.consumer
        <5>1. s # consumerSessions[d.consumer]
          BY ZenonT(30), <3>0, <4>1, <4>4, <1>OwnSession
        <5>2. unackedCount'[s] = unackedCount[s]
          BY ZenonT(30), <3>1, <4>1, <5>1
        <5>3. Outstanding(c)' = Outstanding(c)
          BY ZenonT(30), <2>4, <4>4 DEF Credited, Outstanding
        <5> QED
          BY ZenonT(30), <4>1, <4>2, <5>2, <5>3 DEF Counted
      <4> QED
        BY ZenonT(30), <4>3, <4>4
    <3>3. ASSUME NEW s \in Sessions
          PROVE  IsFiniteSet(carried'[s]) /\ (handler'[s] = "new" => Unused(s)')
      <4>1. handler' = handler /\ carried' = carried /\ consumerSessions' = consumerSessions
        BY ZenonT(30), <2>4 DEF Credited
      <4>2. handler[s] = "new" => Unused(s)
        BY ZenonT(30) DEF PrefetchInv
      <4> QED
        BY ZenonT(30), <3>0, <3>1, <4>1, <4>2 DEF PrefetchInv, Unused
    <3> QED
      BY ZenonT(30), <3>2, <3>3 DEF PrefetchInv
  <2>5. ASSUME NEW t \in Sessions, Subscribe(t) PROVE PrefetchInv'
    <3> DEFINE b == ConsumerOf[t]
    <3>1. /\ b \in Consumers /\ handler[t] = "new" /\ handler' = [handler EXCEPT ![t] = "active"]
          /\ UNCHANGED <<inFlight, unackedCount>>
      BY ZenonT(30), <2>0, <2>5 DEF Subscribe
    <3>2. Unused(t)
      BY ZenonT(30), <3>1 DEF PrefetchInv
    <3>3. CASE Registered(b)
      <4>1. UNCHANGED <<consumerSessions, carried>>
        BY ZenonT(30), <2>5, <3>3 DEF Subscribe
      <4>2. \A s \in Sessions : handler'[s] = "new" => handler[s] = "new"
        BY ZenonT(30), <2>0, <3>1
      <4> QED
        BY ZenonT(30), <3>1, <4>1, <4>2 DEF PrefetchInv, Counted, Unused, Registered, Outstanding
    <3>4. CASE ~Registered(b)
      <4>1. /\ consumerSessions' = [consumerSessions EXCEPT ![b] = t]
            /\ carried' = [carried EXCEPT ![t] = Outstanding(b)]
        BY ZenonT(30), <2>5, <3>4 DEF Subscribe
      <4>2. \A c : Outstanding(c)' = Outstanding(c)
        BY ZenonT(30), <3>1 DEF Outstanding
      <4>3. ASSUME NEW c \in Consumers, Registered(c)'
            PROVE  Counted(c)' /\ unackedCount'[consumerSessions'[c]] <= ConsumerPrefetch
        <5>1. CASE c = b
          <6>1. consumerSessions'[c] = t /\ carried'[t] = Outstanding(c) /\ unackedCount'[t] = 0
            BY ZenonT(30), <2>0, <3>1, <3>2, <4>1, <5>1 DEF Unused
          <6>2. Cardinality(Outstanding(c)) \in Nat
            BY ZenonT(30), <1>OutstandingCount
          <6> QED
            BY <2>0, <4>2, <6>1, <6>2 DEF Counted
        <5>2. CASE c # b
          <6>1. consumerSessions'[c] = consumerSessions[c] /\ consumerSessions[c] # t
            BY ZenonT(30), <2>0, <3>1, <3>2, <4>1, <5>2 DEF Unused
          <6>2. Registered(c) /\ consumerSessions[c] \in Sessions
            BY ZenonT(30), <2>2, <4>3, <6>1 DEF Registered
          <6>3. carried'[consumerSessions[c]] = carried[consumerSessions[c]]
            BY ZenonT(30), <2>0, <4>1, <6>1, <6>2
          <6> QED
            BY ZenonT(30), <3>1, <4>2, <6>1, <6>2, <6>3 DEF PrefetchInv, Counted
        <5> QED
          BY ZenonT(30), <5>1, <5>2
      <4>4. ASSUME NEW s \in Sessions
            PROVE  IsFiniteSet(carried'[s]) /\ (handler'[s] = "new" => Unused(s)')
        <5>1. IsFiniteSet(carried'[s])
          BY ZenonT(30), <2>0, <4>1, <1>OutstandingCount DEF PrefetchInv
        <5>2. ASSUME handler'[s] = "new" PROVE Unused(s)'
          <6>1. s # t /\ handler[s] = "new"
            BY ZenonT(30), <2>0, <3>1, <5>2
          <6>2. Unused(s)
            BY ZenonT(30), <6>1 DEF PrefetchInv
          <6> QED
            BY ZenonT(30), <2>0, <3>1, <4>1, <6>1, <6>2 DEF Unused
        <5> QED
          BY ZenonT(30), <5>1, <5>2
      <4> QED
        BY ZenonT(30), <4>3, <4>4 DEF PrefetchInv
    <3> QED
      BY ZenonT(30), <3>3, <3>4
  <2>6. ASSUME UNCHANGED <<inFlight, unackedCount, carried>>,
               \A c \in Consumers : consumerSessions'[c] \in {consumerSessions[c], NoSession},
               \A s \in Sessions : handler'[s] = "new" => handler[s] = "new"
        PROVE  PrefetchInv'
    <3>1. ASSUME NEW c \in Consumers, Registered(c)'
          PROVE  Counted(c)' /\ unackedCount'[consumerSessions'[c]] <= ConsumerPrefetch
      <4>1. consumerSessions'[c] = consumerSessions[c] /\ Registered(c)
        BY ZenonT(30), <2>6, <3>1 DEF Registered
      <4> QED
        BY ZenonT(30), <2>6, <4>1 DEF PrefetchInv, Counted, Outstanding
    <3>2. \A s \in Sessions : handler'[s] = "new" => Unused(s)'
      BY ZenonT(30), <2>0, <2>6 DEF PrefetchInv, Unused
    <3> QED
      BY ZenonT(30), <2>6, <3>1, <3>2 DEF PrefetchInv
  <2>7. ASSUME NEW t \in Sessions, Unsubscribe(t) PROVE PrefetchInv'
    <3>1. /\ UNCHANGED <<inFlight, unackedCount, carried>>
          /\ handler' = [handler EXCEPT ![t] = "gone"]
          /\ \/ consumerSessions' = consumerSessions
             \/ consumerSessions' = [consumerSessions EXCEPT ![ConsumerOf[t]] = NoSession]
      BY ZenonT(30), <2>7 DEF Unsubscribe
    <3>2. /\ \A c \in Consumers : consumerSessions'[c] \in {consumerSessions[c], NoSession}
          /\ \A s \in Sessions : handler'[s] = "new" => handler[s] = "new"
      BY ZenonT(30), <2>0, <3>1
    <3> QED
      BY ZenonT(30), <2>6, <3>1, <3>2
  <2>8. CASE ReserveDelivery
    <3>0. PICK j \in 0 .. Len(consumerOrder) - 1 : \E d :
            /\ d.consumer = Candidate(j) /\ d.token = tokens + 1
            /\ NextSession(j) /\ inFlight' = inFlight \cup {d}
            /\ unackedCount' = [unackedCount EXCEPT ![consumerSessions[Candidate(j)]] = @ + 1]
      BY ZenonT(30), <2>8 DEF ReserveDelivery
    <3>1. PICK d :
            /\ d.consumer = Candidate(j) /\ d.token = tokens + 1
            /\ NextSession(j) /\ inFlight' = inFlight \cup {d}
            /\ unackedCount' = [unackedCount EXCEPT ![consumerSessions[Candidate(j)]] = @ + 1]
      BY ZenonT(30), <3>0
    <3> DEFINE b == Candidate(j)
               t == consumerSessions[b]
    <3>2. UNCHANGED <<consumerSessions, carried, handler>>
      BY ZenonT(30), <2>8 DEF ReserveDelivery
    <3>3. b \in Consumers /\ t \in Sessions /\ Registered(b)
      BY ZenonT(30), <2>0, CandidateRegistered DEF Base, Registered
    <3>4. d \notin inFlight
      <4>1. tokens \in Nat /\ \A e \in inFlight : e.token <= tokens
        BY TypeParts DEF StoreType
      <4> QED
        BY <3>1, <4>1
    <3>5. unackedCount[t] < ConsumerPrefetch
      BY ZenonT(30), <3>1 DEF NextSession, IsEligible
    <3>6. unackedCount' = [unackedCount EXCEPT ![t] = @ + 1] /\ d.consumer = b
      BY ZenonT(30), <3>1
    <3> HIDE DEF b, t
    <3>7. t = consumerSessions[b]
      BY ZenonT(30) DEF t
    <3>8. ASSUME NEW c \in Consumers, Registered(c)'
          PROVE  Counted(c)' /\ unackedCount'[consumerSessions'[c]] <= ConsumerPrefetch
      <4> DEFINE s == consumerSessions[c]
      <4>1. Registered(c) /\ s \in Sessions
        BY ZenonT(30), <2>2, <3>2, <3>8 DEF Registered
      <4>2. /\ unackedCount[s] + Cardinality(carried[s]) = Cardinality(Outstanding(c))
            /\ unackedCount[s] <= ConsumerPrefetch
        BY ZenonT(30), <4>1 DEF PrefetchInv, Counted
      <4>3. CASE c = b
        <5>0. /\ unackedCount[s] \in Int /\ unackedCount[s] < ConsumerPrefetch
              /\ ConsumerPrefetch \in Nat /\ Cardinality(carried[s]) \in Nat
          BY ZenonT(30), <2>0, <2>1, <3>5, <3>7, <4>1, <4>3
        <5>1. unackedCount'[s] = unackedCount[s] + 1
          BY <2>0, <3>3, <3>6, <3>7, <4>3
        <5>2. Outstanding(c)' = Outstanding(c) \cup {d}
          BY ZenonT(30), <3>1, <3>6, <4>3 DEF Outstanding
        <5>3. Cardinality(Outstanding(c)') = Cardinality(Outstanding(c)) + 1
          BY ZenonT(30), <3>4, <5>2, <1>OutstandingCount
        <5>4. unackedCount'[s] + Cardinality(carried[s]) = Cardinality(Outstanding(c)')
          BY <4>2, <5>0, <5>1, <5>3
        <5>5. unackedCount'[s] <= ConsumerPrefetch
          BY <5>0, <5>1
        <5> QED
          BY ZenonT(30), <3>2, <5>4, <5>5 DEF Counted
      <4>4. CASE c # b
        <5>1. s # t
          BY ZenonT(30), <3>3, <3>7, <4>1, <4>4, <1>OwnSession
        <5>2. unackedCount'[s] = unackedCount[s]
          BY ZenonT(30), <2>0, <3>6, <4>1, <5>1
        <5>3. Outstanding(c)' = Outstanding(c)
          BY ZenonT(30), <3>1, <3>6, <4>4 DEF Outstanding
        <5> QED
          BY ZenonT(30), <3>2, <4>2, <5>2, <5>3 DEF Counted
      <4> QED
        BY ZenonT(30), <4>3, <4>4
    <3>9. ASSUME NEW s \in Sessions, handler'[s] = "new" PROVE Unused(s)'
      <4>1. Unused(s)
        BY ZenonT(30), <3>2, <3>9 DEF PrefetchInv
      <4>2. s # t
        BY ZenonT(30), <3>3, <3>7, <4>1 DEF Unused
      <4> QED
        BY ZenonT(30), <2>0, <3>2, <3>6, <4>1, <4>2 DEF Unused
    <3> QED
      BY ZenonT(30), <3>2, <3>8, <3>9 DEF PrefetchInv
  <2>9. CASE CloseRuntime \/ CrashRestart
    <3>1. /\ UNCHANGED <<unackedCount, carried>> /\ consumerSessions' = [c \in Consumers |-> NoSession]
          /\ \A s \in Sessions : handler'[s] = "new" => handler[s] = "new"
      BY ZenonT(30), <2>0, <2>9 DEF CloseRuntime, CrashRestart
    <3>2. \A c \in Consumers : ~Registered(c)'
      BY ZenonT(30), <3>1 DEF Registered
    <3> QED
      BY ZenonT(30), <2>0, <3>1, <3>2 DEF PrefetchInv, Unused
  <2> QED
    BY ZenonT(30), <2>3, <2>4, <2>5, <2>7, <2>8, <2>9, <1>PrefetchKinds
<1>1. Init => PrefetchInv
  <2> SUFFICES ASSUME Init PROVE PrefetchInv
    BY ZenonT(30)
  <2>1. \A c \in Consumers : consumerSessions[c] = NoSession
    BY ZenonT(30) DEF Init
  <2> QED
    BY ZenonT(30), <2>1, FS_EmptySet, NameAssumption DEF Init, PrefetchInv, Registered, Unused
<1>2. PrefetchInv /\ HeldSound /\ Finite /\ Base /\ [Next]_vars => PrefetchInv'
  BY ZenonT(30), <1>PrefetchStep
<1> QED
  BY <1>1, <1>2, HeldInvariant, FiniteInvariant, BaseInvariant, PTL DEF Spec

\* The prefetch counter of a registered session is the number of deliveries in
\* flight under its id, less those it carried over, for any number of consumers and
\* sessions that share and reuse ids.
THEOREM PrefetchCounted == Spec => []PrefetchAccounting
<1>1. PrefetchInv => PrefetchAccounting
  BY ZenonT(30) DEF PrefetchInv, PrefetchAccounting, Counted
<1> QED
  BY <1>1, PrefetchInvariant, PTL

\* ConsumerPrefetch bounds what a consumer has outstanding beyond what it carried
\* over from an earlier session.
THEOREM PrefetchRespected == Spec => []PrefetchBound
<1>1. PrefetchInv /\ Base => PrefetchBound
  <2> SUFFICES ASSUME PrefetchInv, Base, NEW c \in Consumers, Registered(c)
               PROVE  Cardinality(Outstanding(c))
                        <= ConsumerPrefetch + Cardinality(carried[consumerSessions[c]])
    BY ZenonT(30) DEF PrefetchBound
  <2> DEFINE s == consumerSessions[c]
  <2>1. s \in Sessions /\ unackedCount[s] \in Int /\ ConsumerPrefetch \in Nat
    BY ZenonT(30), TypeParts, ConfigAssumption DEF SchedType, Registered
  <2>2. Cardinality(carried[s]) \in Nat
    BY ZenonT(30), <2>1, FS_CardinalityType DEF PrefetchInv
  <2>3. /\ unackedCount[s] + Cardinality(carried[s]) = Cardinality(Outstanding(c))
        /\ unackedCount[s] <= ConsumerPrefetch
    BY ZenonT(30) DEF PrefetchInv, Counted
  <2>4. Cardinality(Outstanding(c)) <= ConsumerPrefetch + Cardinality(carried[s])
    <3> HIDE DEF s
    <3> QED
      BY <2>1, <2>2, <2>3
  <2> QED
    BY ZenonT(30), <2>4
<1> QED
  BY <1>1, PrefetchInvariant, BaseInvariant, PTL
=============================================================================
