--------------------------- MODULE RegistryProofs ---------------------------
(***************************************************************************)
(* The registry of queues, exchanges and bindings, for any sets of names:  *)
(* its types, what Publish promises about the queues it routed to, and     *)
(* that no stored copy is lost. It also holds what the proofs about the    *)
(* log share: the lists of bindings, the steps by what they change, and    *)
(* the records by what they say.                                           *)
(***************************************************************************)
EXTENDS Registry, WellFoundedInduction, TLAPS

USE DEF memory, booting, deletion, log, hist

\* A step that names no prover is given more time than the default.
USE SMTT(30), ZenonT(30)

-----------------------------------------------------------------------------
(* Induction up to a bound, over a set of numbers. *)

\* A set of natural numbers that is not empty has a least element.
LEMMA LeastNumber ==
  ASSUME NEW T \in SUBSET Nat, T # {}
  PROVE  \E n \in T : \A m \in T : n <= m
<1>1. PICK n \in T : \A m \in T : ~(<<m, n>> \in OpToRel(<, Nat))
  BY ZenonT(30), NatLessThanWellFounded, WFMin
<1>2. \A m \in T : <<m, n>> \in OpToRel(<, Nat) <=> m < n
  BY ZenonT(30) DEF OpToRel
<1>3. \A m \in T : ~(m < n)
  BY ZenonT(30), <1>1, <1>2
<1> QED
  BY <1>3

\* A set that holds 0, and i + 1 with every i below n, holds all of 0 .. n.
LEMMA UpTo ==
  ASSUME NEW n \in Nat, NEW P \in SUBSET Nat, 0 \in P,
         \A i \in 0 .. n - 1 : i \in P => i + 1 \in P
  PROVE  \A i \in 0 .. n : i \in P
<1> SUFFICES ASSUME NEW k \in 0 .. n, k \notin P PROVE FALSE
  BY ZenonT(30)
<1> DEFINE T == {i \in 0 .. n : i \notin P}
<1>1. T \in SUBSET Nat /\ k \in T
  OBVIOUS
<1>2. PICK l \in T : \A m \in T : l <= m
  BY ZenonT(30), <1>1, LeastNumber
<1>3. l # 0 /\ l \in 0 .. n
  BY ZenonT(30)
<1>4. l - 1 \in 0 .. n - 1 /\ l - 1 \notin T
  BY <1>2, <1>3
<1>5. l - 1 \in P
  BY <1>4
<1>6. (l - 1) + 1 \in P
  BY ZenonT(30), <1>4, <1>5
<1> QED
  BY <1>3, <1>6

-----------------------------------------------------------------------------
(* Lists of bindings. *)

\* f is the loop of Kept over the first n elements.
Loop(f, bs, K, n) ==
  f = [i \in 0 .. n |->
         IF i = 0 THEN <<>> ELSE IF i \in K THEN Append(f[i - 1], bs[i]) ELSE f[i - 1]]

\* The loop has a result after any number of rounds.
LEMMA LoopExists ==
  ASSUME NEW bs, NEW K, NEW n \in Nat
  PROVE  \E f : Loop(f, bs, K, n)
<1> DEFINE P == {k \in Nat : \E f : Loop(f, bs, K, k)}
<1>1. 0 \in P
  <2>1. Loop([i \in 0 .. 0 |-> <<>>], bs, K, 0)
    BY DEF Loop
  <2> QED
    BY ZenonT(30), <2>1
<1>2. ASSUME NEW k \in 0 .. n - 1, k \in P PROVE k + 1 \in P
  <2>0. k \in Nat /\ k + 1 \in Nat
    OBVIOUS
  <2>1. PICK f : Loop(f, bs, K, k)
    BY ZenonT(30), <1>2
  <2> DEFINE g == [i \in 0 .. k + 1 |-> IF i <= k THEN f[i]
                     ELSE IF i \in K THEN Append(f[k], bs[i]) ELSE f[k]]
  <2>2. \A i \in 0 .. k : f[i] = IF i = 0 THEN <<>> ELSE IF i \in K THEN Append(f[i - 1], bs[i]) ELSE f[i - 1]
    BY ZenonT(30), <2>1 DEF Loop
  <2>3. Loop(g, bs, K, k + 1)
    <3> HIDE <1>2
    <3>2. ASSUME NEW i \in 0 .. k + 1
          PROVE  g[i] = IF i = 0 THEN <<>> ELSE IF i \in K THEN Append(g[i - 1], bs[i]) ELSE g[i - 1]
      <4>1. CASE i = 0
        BY <2>0, <4>1, <2>2
      <4>2. CASE i \in 1 .. k
        BY <2>0, <4>2, <2>2
      <4>3. CASE i = k + 1
        BY <2>0, <4>3
      <4> QED
        BY <2>0, <4>1, <4>2, <4>3
    <3> QED
      BY ZenonT(30), <3>2 DEF Loop
  <2> HIDE DEF g
  <2>4. \E h : Loop(h, bs, K, k + 1)
    BY ZenonT(30), <2>3
  <2> QED
    BY ZenonT(30), <2>0, <2>4
<1>3. P \in SUBSET Nat /\ n \in 0 .. n
  OBVIOUS
<1>4. n \in P
  <2> HIDE DEF P
  <2> QED
    BY ZenonT(30), <1>1, <1>2, <1>3, UpTo
<1> QED
  BY ZenonT(30), <1>4

\* Kept is the last round of the loop.
LEMMA KeptLoop ==
  ASSUME NEW bs, NEW K, Len(bs) \in Nat
  PROVE  \E f : Loop(f, bs, K, Len(bs)) /\ Kept(bs, K) = f[Len(bs)]
<1> DEFINE g == CHOOSE f : f = [i \in 0 .. Len(bs) |->
             IF i = 0 THEN <<>> ELSE IF i \in K THEN Append(f[i - 1], bs[i]) ELSE f[i - 1]]
<1>1. PICK f : Loop(f, bs, K, Len(bs))
  BY ZenonT(30), LoopExists
<1>2. Loop(g, bs, K, Len(bs))
  BY ZenonT(30), <1>1 DEF Loop
<1>3. Kept(bs, K) = g[Len(bs)]
  BY ZenonT(30) DEF Kept
<1> HIDE DEF g
<1> QED
  BY ZenonT(30), <1>2, <1>3

\* The elements of a list.
Members(bs) == {bs[i] : i \in 1 .. Len(bs)}

\* A list that holds no element twice.
Distinct(bs) == \A i, j \in 1 .. Len(bs) : bs[i] = bs[j] => i = j

\* Adding an element at the end.
LEMMA MembersAppend ==
  ASSUME NEW S, NEW s \in Seq(S), NEW e \in S
  PROVE  /\ Append(s, e) \in Seq(S) /\ Members(Append(s, e)) = Members(s) \cup {e}
         /\ Distinct(s) /\ e \notin Members(s) => Distinct(Append(s, e))
<1>1. /\ Append(s, e) \in Seq(S) /\ Len(s) \in Nat /\ Len(Append(s, e)) = Len(s) + 1
      /\ \A i \in 1 .. Len(s) : Append(s, e)[i] = s[i]
      /\ Append(s, e)[Len(s) + 1] = e
  OBVIOUS
<1> DEFINE a == Append(s, e)
<1> HIDE DEF a
<1>2. Members(a) = Members(s) \cup {e}
  BY <1>1 DEF Members, a
<1>3. Distinct(s) /\ e \notin Members(s) => Distinct(a)
  BY <1>1 DEF Members, Distinct, a
<1> QED
  BY ZenonT(30), <1>1, <1>2, <1>3 DEF a

\* Taking the first element.
LEMMA MembersTail ==
  ASSUME NEW S, NEW s \in Seq(S), s # <<>>
  PROVE  /\ Tail(s) \in Seq(S) /\ Head(s) \in S
         /\ Members(s) = {Head(s)} \cup Members(Tail(s))
         /\ Distinct(s) => Distinct(Tail(s)) /\ Head(s) \notin Members(Tail(s))
<1>1. /\ Tail(s) \in Seq(S) /\ Len(s) \in Nat \ {0} /\ Len(Tail(s)) = Len(s) - 1
      /\ \A i \in 1 .. Len(s) - 1 : Tail(s)[i] = s[i + 1]
      /\ Head(s) = s[1] /\ Head(s) \in S
  OBVIOUS
<1> DEFINE t == Tail(s)
           h == Head(s)
<1> HIDE DEF t, h
<1>2. Members(s) = {h} \cup Members(t)
  <2>1. \A x \in Members(s) : x \in {h} \cup Members(t)
    <3> SUFFICES ASSUME NEW i \in 1 .. Len(s), i # 1 PROVE s[i] \in Members(t)
      BY ZenonT(30), <1>1 DEF Members, h
    <3>1. i - 1 \in 1 .. Len(s) - 1 /\ t[i - 1] = s[(i - 1) + 1] /\ (i - 1) + 1 = i
      BY <1>1 DEF t
    <3> QED
      BY ZenonT(30), <1>1, <3>1 DEF Members, t
  <2>2. \A x \in {h} \cup Members(t) : x \in Members(s)
    BY <1>1 DEF Members, t, h
  <2> QED
    BY ZenonT(30), <2>1, <2>2
<1>3. Distinct(s) => Distinct(t) /\ h \notin Members(t)
  <2> SUFFICES ASSUME Distinct(s) PROVE Distinct(t) /\ h \notin Members(t)
    BY ZenonT(30)
  <2>1. \A i \in 1 .. Len(t) : t[i] = s[i + 1] /\ i + 1 \in 1 .. Len(s) /\ i + 1 # 1
    BY <1>1 DEF t
  <2>2. \A i, j \in 1 .. Len(t) : i + 1 = j + 1 => i = j
    BY <1>1 DEF t
  <2>3. 1 \in 1 .. Len(s) /\ h = s[1]
    BY <1>1 DEF h
  <2> QED
    BY <2>1, <2>2, <2>3 DEF Distinct, Members
<1> QED
  BY ZenonT(30), <1>1, <1>2, <1>3 DEF t, h

\* The empty list.
LEMMA MembersEmpty ==
  ASSUME NEW S, NEW s \in Seq(S)
  PROVE  /\ Members(<<>>) = {} /\ Distinct(<<>>) /\ <<>> \in Seq(S)
         /\ s = <<>> <=> Members(s) = {}
         /\ Members(s) \subseteq S
<1>1. Len(<<>>) = 0 /\ <<>> \in Seq(S)
  OBVIOUS
<1>2. Members(<<>>) = {} /\ Distinct(<<>>)
  BY <1>1 DEF Members, Distinct
<1>3. Members(s) \subseteq S
  BY DEF Members
<1>4. ASSUME s # <<>> PROVE s[1] \in Members(s)
  <2>1. Len(s) \in Nat \ {0}
    BY <1>4
  <2> QED
    BY <2>1 DEF Members
<1> QED
  BY ZenonT(30), <1>1, <1>2, <1>3, <1>4

\* What Kept returns: a list of the kept elements, none twice unless there were.
LEMMA KeptProperties ==
  ASSUME NEW S, NEW bs \in Seq(S), NEW K \in SUBSET (1 .. Len(bs))
  PROVE  /\ Kept(bs, K) \in Seq(S) /\ Members(Kept(bs, K)) = {bs[i] : i \in K}
         /\ Distinct(bs) => Distinct(Kept(bs, K))
<1>0. Len(bs) \in Nat /\ \A i \in 1 .. Len(bs) : bs[i] \in S
  OBVIOUS
<1>1. PICK f : Loop(f, bs, K, Len(bs)) /\ Kept(bs, K) = f[Len(bs)]
  BY ZenonT(30), <1>0, KeptLoop
<1> DEFINE Before(i) == {bs[j] : j \in {k \in K : k <= i}}
           Good(s, i) == s \in Seq(S) /\ Members(s) = Before(i) /\ (Distinct(bs) => Distinct(s))
           P == {i \in 0 .. Len(bs) : Good(f[i], i)}
<1>2. \A i \in 0 .. Len(bs) :
        f[i] = IF i = 0 THEN <<>> ELSE IF i \in K THEN Append(f[i - 1], bs[i]) ELSE f[i - 1]
  BY ZenonT(30), <1>1 DEF Loop
<1>3. 0 \in P
  <2>1. \A k \in K : ~(k <= 0)
    BY <1>0
  <2>2. 0 \in 0 .. Len(bs)
    BY <1>0
  <2>3. f[0] = <<>> /\ Before(0) = {}
    BY ZenonT(30), <1>2, <2>1, <2>2
  <2>4. Members(<<>>) = {} /\ Distinct(<<>>) /\ <<>> \in Seq(S)
    BY ZenonT(30), MembersEmpty
  <2> HIDE DEF Before
  <2>5. Good(f[0], 0)
    BY ZenonT(30), <2>3, <2>4
  <2> QED
    BY ZenonT(30), <2>2, <2>5
<1>4. ASSUME NEW i \in 0 .. Len(bs) - 1, i \in P PROVE i + 1 \in P
  <2>0. i + 1 \in 0 .. Len(bs) /\ i + 1 # 0 /\ (i + 1) - 1 = i /\ i + 1 \in 1 .. Len(bs)
    BY <1>0
  <2>1. Good(f[i], i)
    BY ZenonT(30), <1>4
  <2>2. CASE i + 1 \in K
    <3>1. f[i + 1] = Append(f[i], bs[i + 1])
      BY ZenonT(30), <1>2, <2>0, <2>2
    <3>0. \A k \in K : k <= i + 1 <=> k <= i \/ k = i + 1
      BY <1>0
    <3>2. Before(i + 1) = Before(i) \cup {bs[i + 1]}
      BY ZenonT(30), <2>2, <3>0
    <3>3. Distinct(bs) => bs[i + 1] \notin Before(i)
      <4>1. ASSUME Distinct(bs), NEW j \in K, j <= i PROVE bs[i + 1] # bs[j]
        <5>1. j \in 1 .. Len(bs) /\ j # i + 1
          BY <1>0, <4>1
        <5> QED
          BY ZenonT(30), <2>0, <4>1, <5>1 DEF Distinct
      <4> QED
        BY ZenonT(30), <4>1
    <3> DEFINE e == bs[i + 1]
               s == f[i]
    <3>4. e \in S
      BY ZenonT(30), <1>0, <2>0
    <3>5. s \in Seq(S) /\ Members(s) = Before(i) /\ (Distinct(bs) => Distinct(s))
      BY ZenonT(30), <2>1
    <3> HIDE DEF e, s, Before
    <3>6. /\ Append(s, e) \in Seq(S) /\ Members(Append(s, e)) = Members(s) \cup {e}
          /\ Distinct(s) /\ e \notin Members(s) => Distinct(Append(s, e))
      BY ZenonT(30), <3>4, <3>5, MembersAppend
    <3>7. Good(f[i + 1], i + 1)
      BY ZenonT(30), <3>1, <3>2, <3>3, <3>5, <3>6 DEF e, s
    <3> QED
      BY ZenonT(30), <2>0, <3>7
  <2>3. CASE i + 1 \notin K
    <3>1. f[i + 1] = f[i]
      BY ZenonT(30), <1>2, <2>0, <2>3
    <3>0. \A k \in K : k <= i + 1 <=> k <= i
      BY <1>0, <2>3
    <3>2. Before(i + 1) = Before(i)
      BY ZenonT(30), <3>0
    <3> HIDE DEF Before
    <3>3. Good(f[i + 1], i + 1)
      BY ZenonT(30), <2>1, <3>1, <3>2
    <3> QED
      BY ZenonT(30), <2>0, <3>3
  <2> QED
    BY ZenonT(30), <2>2, <2>3
<1>5. P \in SUBSET Nat /\ Len(bs) \in 0 .. Len(bs)
  BY <1>0
<1>6. Len(bs) \in P
  <2> HIDE DEF P
  <2> QED
    BY ZenonT(30), <1>0, <1>3, <1>4, <1>5, UpTo
<1>7. Before(Len(bs)) = {bs[i] : i \in K}
  BY <1>0
<1> QED
  BY ZenonT(30), <1>1, <1>6, <1>7

\* checkBindingExists and hasBinding look for an element of the list; with a key
\* of a binding they look for that one binding.
LEMMA HasMember ==
  ASSUME NEW bs \in Seq(Binding), NEW key, NEW q
  PROVE  /\ HasBinding(bs, key, q) <=> \E b \in Members(bs) : Selected(b, key, q)
         /\ key \in Keys => (HasBinding(bs, key, q) <=> [queue |-> q, key |-> key] \in Members(bs))
<1>1. HasBinding(bs, key, q) <=> \E b \in Members(bs) : Selected(b, key, q)
  BY ZenonT(30) DEF HasBinding, Members
<1>2. \A b \in Members(bs) : b \in Binding
  BY ZenonT(30), MembersEmpty
<1>3. ASSUME key \in Keys, NEW b \in Members(bs)
      PROVE  Selected(b, key, q) <=> b = [queue |-> q, key |-> key]
  BY <1>2, <1>3, NameAssumption DEF Selected, Binding
<1> QED
  BY ZenonT(30), <1>1, <1>3

\* Bind.
LEMMA BindList ==
  ASSUME NEW bs \in Seq(Binding), NEW key \in Keys, NEW q \in Queues
  PROVE  LET b == [queue |-> q, key |-> key]
         IN /\ Bind(bs, key, q) \in Seq(Binding)
            /\ Members(Bind(bs, key, q)) = Members(bs) \cup {b}
            /\ Distinct(bs) /\ b \notin Members(bs) => Distinct(Bind(bs, key, q))
<1> DEFINE b == [queue |-> q, key |-> key]
<1>1. b \in Binding
  BY ZenonT(30) DEF Binding
<1> HIDE DEF b
<1>2. /\ Append(bs, b) \in Seq(Binding) /\ Members(Append(bs, b)) = Members(bs) \cup {b}
      /\ Distinct(bs) /\ b \notin Members(bs) => Distinct(Append(bs, b))
  BY ZenonT(30), <1>1, MembersAppend
<1> QED
  BY ZenonT(30), <1>2 DEF Bind, b

\* Unbind.
LEMMA UnbindList ==
  ASSUME NEW bs \in Seq(Binding), NEW key, NEW q
  PROVE  /\ Unbind(bs, key, q) \in Seq(Binding)
         /\ Members(Unbind(bs, key, q)) = {b \in Members(bs) : ~Selected(b, key, q)}
         /\ Distinct(bs) => Distinct(Unbind(bs, key, q))
<1> DEFINE K == {i \in 1 .. Len(bs) : ~Selected(bs[i], key, q)}
<1>1. K \in SUBSET (1 .. Len(bs))
  BY ZenonT(30)
<1>2. {bs[i] : i \in K} = {b \in Members(bs) : ~Selected(b, key, q)}
  BY ZenonT(30) DEF Members
<1>3. Unbind(bs, key, q) = Kept(bs, K)
  BY ZenonT(30) DEF Unbind
<1> HIDE DEF K
<1>4. /\ Kept(bs, K) \in Seq(Binding) /\ Members(Kept(bs, K)) = {bs[i] : i \in K}
      /\ Distinct(bs) => Distinct(Kept(bs, K))
  BY ZenonT(30), <1>1, KeptProperties
<1> QED
  BY ZenonT(30), <1>2, <1>3, <1>4

-----------------------------------------------------------------------------
(* Types. *)

\* What Load can return.
Disks == [queues : SUBSET Queues, pending : [Queues -> SUBSET Copies],
          exchanges : [Exchanges -> Types \cup {"none"}],
          bindings : [Exchanges -> Seq(Binding)]]

\* A call of Publish.
Calls == [pc : {"idle", "lookup", "store", "ok", "error"},
          todo : Seq(Binding), routed : Seq(Binding), stale : BOOLEAN]

\* The parts of TypeOK.
QueueType ==
  /\ queues \in [Queues -> {"none", "open", "closed"}]
  /\ pending \in [Queues -> SUBSET Copies] /\ closed \in BOOLEAN

\* The exchanges and their binding lists.
TableType ==
  exchanges \in [Exchanges -> Types \cup {"none"}] /\ bindings \in [Exchanges -> Seq(Binding)]

\* DeleteQueue and NewBroker under way.
BootType ==
  /\ deleting \in Queues \cup {NoQueue} /\ unbinding \subseteq Exchanges
  /\ boot \in {"down", "exchanges", "up", "unreadable", "refused", "failed"}
  /\ plan \in [Exchanges -> [type : Types \cup {"none"}, list : Seq(Binding)]]
  /\ at \in Exchanges /\ rest \in Seq(Binding)

\* The log and what happened to it.
LogType == disk \in Disks /\ torn \in BOOLEAN /\ faults \in Nat /\ crashes \in Nat

\* The history.
HistType ==
  /\ stored \subseteq Queues \X Copies /\ consumed \subseteq Queues \X Copies
  /\ bound \subseteq Exchanges \X Keys \X Queues /\ cutShort \subseteq {"boot", "delete", "unbind"}

\* A Publish that is under way has a queue to go to, and a broker that is up.
PubSound ==
  /\ pub \in [Msgs -> Calls]
  /\ \A m \in Msgs : pub[m].pc \in {"lookup", "store"} => boot = "up" /\ pub[m].todo # <<>>

\* The inductive invariant of the types.
Typed == QueueType /\ TableType /\ BootType /\ LogType /\ HistType /\ PubSound

\* TypeOK follows from its parts.
LEMMA TypedIsTyped == Typed => TypeOK
BY ZenonT(30) DEF Typed, QueueType, TableType, BootType, LogType, HistType, PubSound, Disks, Calls, TypeOK

\* The steps that append no record and are not a crash.
Silent ==
  \/ UNCHANGED vars \/ BootLoad \/ BootUnreadable \/ BootRefused \/ ShutdownBegin
  \/ (\E q \in Queues : ShutdownQueue(q)) \/ (\E m \in Msgs : PublishLookup(m))
  \/ \E m \in Msgs, e \in Exchanges, key \in RoutingKeys : PublishRoute(m, e, key)

\* They leave the log and the history alone.
LEMMA SilentFrame == Silent => UNCHANGED <<log, crashes, hist>>
<1>1. UNCHANGED vars => UNCHANGED <<log, crashes, hist>>
  BY ZenonT(30) DEF vars
<1>2. BootLoad \/ BootUnreadable \/ BootRefused \/ ShutdownBegin => UNCHANGED <<log, crashes, hist>>
  BY ZenonT(30) DEF BootLoad, BootUnreadable, BootRefused, ShutdownBegin
<1>3. ASSUME NEW q, ShutdownQueue(q) PROVE UNCHANGED <<log, crashes, hist>>
  BY ZenonT(30), <1>3 DEF ShutdownQueue
<1>4. ASSUME NEW m, PublishLookup(m) PROVE UNCHANGED <<log, crashes, hist>>
  BY ZenonT(30), <1>4 DEF PublishLookup
<1>5. ASSUME NEW m, NEW e, NEW key, PublishRoute(m, e, key)
      PROVE  UNCHANGED <<log, crashes, hist>>
  BY ZenonT(30), <1>5 DEF PublishRoute
<1> QED
  BY ZenonT(30), <1>1, <1>2, <1>3, <1>4, <1>5 DEF Silent

\* The steps that touch the runtimes and what they hold.
LEMMA QueueKinds ==
  ASSUME [Next]_vars
  PROVE  \/ UNCHANGED <<queues, pending, closed>> \/ BootLoad \/ Crash \/ ShutdownBegin
         \/ \E q \in Queues : ShutdownQueue(q)
         \/ \E q \in Queues, ok \in BOOLEAN : CreateQueue(q, ok) \/ DeleteBegin(q, ok)
         \/ \E m \in Msgs, ok \in BOOLEAN : PublishStore(m, ok)
         \/ \E q \in Queues, ok \in BOOLEAN : \E c \in pending[q] : Consume(q, c, ok)
<1> DEFINE Same == UNCHANGED <<queues, pending, closed>>
<1>1. UNCHANGED vars \/ BootUnreadable \/ BootRefused => Same
  BY ZenonT(30) DEF vars, BootUnreadable, BootRefused
<1>2. ASSUME NEW ok, BootBind(ok) \/ BootReady(ok) PROVE Same
  BY ZenonT(30), <1>2 DEF BootBind, BootReady
<1>3. ASSUME NEW ok, NEW e, BootExchange(e, ok) \/ DeleteExchange(e, ok) \/ DeleteUnbind(e, ok)
      PROVE  Same
  BY ZenonT(30), <1>3 DEF BootExchange, DeleteExchange, DeleteUnbind
<1>4. ASSUME NEW ok, NEW e, NEW t, CreateExchange(e, t, ok) PROVE Same
  BY ZenonT(30), <1>4 DEF CreateExchange
<1>5. ASSUME NEW ok, NEW e, NEW q, NEW key, BindQueue(e, q, key, ok) \/ UnbindQueue(e, q, key, ok)
      PROVE  Same
  BY ZenonT(30), <1>5 DEF BindQueue, UnbindQueue
<1>6. ASSUME NEW m, NEW e, NEW key, PublishRoute(m, e, key) \/ PublishLookup(m) PROVE Same
  BY ZenonT(30), <1>6 DEF PublishRoute, PublishLookup
<1> HIDE DEF Same
<1>7. QED
  BY ZenonT(30), <1>1, <1>2, <1>3, <1>4, <1>5, <1>6 DEF Next, Boot, Declare, Traffic, Same

\* The steps that touch the exchanges and the bindings.
LEMMA TableKinds ==
  ASSUME [Next]_vars
  PROVE  \/ UNCHANGED <<exchanges, bindings>> \/ BootLoad \/ Crash
         \/ \E ok \in BOOLEAN : BootBind(ok) \/ BootReady(ok)
         \/ \E e \in Exchanges, ok \in BOOLEAN :
              \/ BootExchange(e, ok) \/ DeleteExchange(e, ok) \/ DeleteUnbind(e, ok)
              \/ \E t \in Kinds : CreateExchange(e, t, ok)
              \/ \E q \in Queues, key \in Keys : BindQueue(e, q, key, ok)
              \/ \E q \in Queues, key \in Keys \cup {NoKey} : UnbindQueue(e, q, key, ok)
<1> DEFINE Same == UNCHANGED <<exchanges, bindings>>
<1>1. UNCHANGED vars \/ BootUnreadable \/ BootRefused \/ ShutdownBegin => Same
  BY ZenonT(30) DEF vars, BootUnreadable, BootRefused, ShutdownBegin
<1>2. ASSUME NEW ok, NEW q, CreateQueue(q, ok) \/ DeleteBegin(q, ok) PROVE Same
  BY ZenonT(30), <1>2 DEF CreateQueue, DeleteBegin
<1>3. ASSUME NEW m, NEW e, NEW key, PublishRoute(m, e, key) \/ PublishLookup(m) PROVE Same
  BY ZenonT(30), <1>3 DEF PublishRoute, PublishLookup
<1>4. ASSUME NEW m, NEW ok, PublishStore(m, ok) PROVE Same
  BY ZenonT(30), <1>4 DEF PublishStore
<1>5. ASSUME NEW q, NEW c, NEW ok, Consume(q, c, ok) PROVE Same
  BY ZenonT(30), <1>5 DEF Consume
<1>6. ASSUME NEW q, ShutdownQueue(q) PROVE Same
  BY ZenonT(30), <1>6 DEF ShutdownQueue
<1> HIDE DEF Same
<1>7. QED
  BY ZenonT(30), <1>1, <1>2, <1>3, <1>4, <1>5, <1>6 DEF Next, Boot, Declare, Traffic, Same

\* The steps that touch the state of NewBroker and of DeleteQueue.
LEMMA BootKinds ==
  ASSUME [Next]_vars
  PROVE  \/ UNCHANGED <<booting, deletion>> \/ BootLoad \/ BootUnreadable \/ BootRefused \/ Crash
         \/ \E ok \in BOOLEAN : BootBind(ok) \/ BootReady(ok)
         \/ \E e \in Exchanges, ok \in BOOLEAN : BootExchange(e, ok) \/ DeleteUnbind(e, ok)
         \/ \E q \in Queues, ok \in BOOLEAN : DeleteBegin(q, ok)
<1> DEFINE Same == UNCHANGED <<booting, deletion>>
<1>1. UNCHANGED vars \/ ShutdownBegin => Same
  BY ZenonT(30) DEF vars, ShutdownBegin
<1>2. ASSUME NEW ok, NEW q, CreateQueue(q, ok) PROVE Same
  BY ZenonT(30), <1>2 DEF CreateQueue
<1>3. ASSUME NEW ok, NEW e, DeleteExchange(e, ok) \/ \E t \in Kinds : CreateExchange(e, t, ok)
      PROVE  Same
  BY ZenonT(30), <1>3 DEF DeleteExchange, CreateExchange
<1>4. ASSUME NEW ok, NEW e, NEW q, NEW key, BindQueue(e, q, key, ok) \/ UnbindQueue(e, q, key, ok)
      PROVE  Same
  BY ZenonT(30), <1>4 DEF BindQueue, UnbindQueue
<1>5. ASSUME NEW m, NEW e, NEW key, PublishRoute(m, e, key) \/ PublishLookup(m) PROVE Same
  BY ZenonT(30), <1>5 DEF PublishRoute, PublishLookup
<1>6. ASSUME NEW m, NEW ok, PublishStore(m, ok) PROVE Same
  BY ZenonT(30), <1>6 DEF PublishStore
<1>7. ASSUME NEW q, NEW c, NEW ok, Consume(q, c, ok) PROVE Same
  BY ZenonT(30), <1>7 DEF Consume
<1>8. ASSUME NEW q, ShutdownQueue(q) PROVE Same
  BY ZenonT(30), <1>8 DEF ShutdownQueue
<1> HIDE DEF Same
<1>9. QED
  BY ZenonT(30), <1>1, <1>2, <1>3, <1>4, <1>5, <1>6, <1>7, <1>8 DEF Next, Boot, Declare, Traffic, Same

\* The steps that touch the Publish calls.
LEMMA PubKinds ==
  ASSUME [Next]_vars
  PROVE  \/ UNCHANGED pub \/ Crash
         \/ \E m \in Msgs : PublishLookup(m)
         \/ \E m \in Msgs, e \in Exchanges, key \in RoutingKeys : PublishRoute(m, e, key)
         \/ \E m \in Msgs, ok \in BOOLEAN : PublishStore(m, ok)
         \/ \E q \in Queues, ok \in BOOLEAN : DeleteBegin(q, ok)
<1> DEFINE Same == UNCHANGED pub
<1>1. UNCHANGED vars \/ ShutdownBegin \/ BootLoad \/ BootUnreadable \/ BootRefused => Same
  BY ZenonT(30) DEF vars, ShutdownBegin, BootLoad, BootUnreadable, BootRefused
<1>2. ASSUME NEW ok, NEW q, CreateQueue(q, ok) \/ BootBind(ok) \/ BootReady(ok) PROVE Same
  BY ZenonT(30), <1>2 DEF CreateQueue, BootBind, BootReady
<1>3. ASSUME NEW ok, NEW e,
             \/ BootExchange(e, ok) \/ DeleteExchange(e, ok) \/ DeleteUnbind(e, ok)
             \/ \E t \in Kinds : CreateExchange(e, t, ok)
      PROVE  Same
  BY ZenonT(30), <1>3 DEF BootExchange, DeleteExchange, DeleteUnbind, CreateExchange
<1>4. ASSUME NEW ok, NEW e, NEW q, NEW key, BindQueue(e, q, key, ok) \/ UnbindQueue(e, q, key, ok)
      PROVE  Same
  BY ZenonT(30), <1>4 DEF BindQueue, UnbindQueue
<1>5. ASSUME NEW q, NEW c, NEW ok, Consume(q, c, ok) PROVE Same
  BY ZenonT(30), <1>5 DEF Consume
<1>6. ASSUME NEW q, ShutdownQueue(q) PROVE Same
  BY ZenonT(30), <1>6 DEF ShutdownQueue
<1> HIDE DEF Same
<1>7. QED
  BY ZenonT(30), <1>1, <1>2, <1>3, <1>4, <1>5, <1>6 DEF Next, Boot, Declare, Traffic, Same

\* The steps that touch the history.
LEMMA HistKinds ==
  ASSUME [Next]_vars
  PROVE  \/ UNCHANGED hist \/ Crash
         \/ \E m \in Msgs, ok \in BOOLEAN : PublishStore(m, ok)
         \/ \E q \in Queues, ok \in BOOLEAN : \E c \in pending[q] : Consume(q, c, ok)
         \/ \E q \in Queues, ok \in BOOLEAN : DeleteBegin(q, ok)
         \/ \E e \in Exchanges, ok \in BOOLEAN :
              \/ DeleteUnbind(e, ok)
              \/ \E q \in Queues, key \in Keys : BindQueue(e, q, key, ok)
              \/ \E q \in Queues, key \in Keys \cup {NoKey} : UnbindQueue(e, q, key, ok)
<1> DEFINE Same == UNCHANGED hist
<1>1. Silent => Same
  BY ZenonT(30), SilentFrame
<1>2. ASSUME NEW ok, NEW q, CreateQueue(q, ok) \/ BootBind(ok) \/ BootReady(ok) PROVE Same
  BY ZenonT(30), <1>2 DEF CreateQueue, BootBind, BootReady
<1>3. ASSUME NEW ok, NEW e,
             \/ BootExchange(e, ok) \/ DeleteExchange(e, ok)
             \/ \E t \in Kinds : CreateExchange(e, t, ok)
      PROVE  Same
  BY ZenonT(30), <1>3 DEF BootExchange, DeleteExchange, CreateExchange
<1> HIDE DEF Same
<1>4. QED
  BY ZenonT(30), <1>1, <1>2, <1>3 DEF Next, Boot, Declare, Traffic, Same, Silent

\* The binding that a Publish is about to serve.
LEMMA AtHand ==
  ASSUME Typed, NEW m \in Msgs, pub[m].pc \in {"lookup", "store"}
  PROVE  LET t == pub[m].todo
         IN /\ t \in Seq(Binding) /\ t # <<>> /\ Tail(t) \in Seq(Binding) /\ Head(t) \in Binding
            /\ Head(t).queue \in Queues /\ [msg |-> m, key |-> Head(t).key] \in Copies
            /\ boot = "up" /\ pub[m] \in Calls
<1>1. pub[m].todo \in Seq(Binding) /\ pub[m].todo # <<>> /\ boot = "up" /\ pub[m] \in Calls
  BY ZenonT(30) DEF Typed, PubSound, Calls
<1>2. Tail(pub[m].todo) \in Seq(Binding) /\ Head(pub[m].todo) \in Binding
  BY ZenonT(30), <1>1, MembersTail
<1> QED
  BY ZenonT(30), <1>1, <1>2 DEF Binding, Copies

\* A broker that is up stays up, or the process ends.
LEMMA StaysUp ==
  ASSUME [Next]_vars, boot = "up", ~Crash
  PROVE  boot' = "up"
<1>1. CASE UNCHANGED <<booting, deletion>>
  BY ZenonT(30), <1>1
<1>2. ASSUME NEW ok, BootBind(ok) \/ BootReady(ok) PROVE FALSE
  BY ZenonT(30), <1>2 DEF BootBind, BootReady
<1>3. ASSUME NEW e, NEW ok, BootExchange(e, ok) PROVE FALSE
  BY ZenonT(30), <1>3 DEF BootExchange
<1>4. ASSUME NEW e, NEW ok, DeleteUnbind(e, ok) PROVE boot' = boot
  BY ZenonT(30), <1>4 DEF DeleteUnbind
<1>5. ASSUME NEW q, NEW ok, DeleteBegin(q, ok) PROVE boot' = boot
  BY ZenonT(30), <1>5 DEF DeleteBegin
<1>6. ~BootLoad /\ ~BootUnreadable /\ ~BootRefused
  BY ZenonT(30) DEF BootLoad, BootUnreadable, BootRefused
<1> QED
  BY ZenonT(30), <1>1, <1>2, <1>3, <1>4, <1>5, <1>6, BootKinds

\* What a step can do to one Publish call: the call is routed, finds its next
\* queue, sees that queue deleted, stores its copy, or fails.
GetsRouted(m) ==
  /\ pub'[m] \in Calls /\ pub'[m].pc = "lookup" /\ pub'[m].todo # <<>>
  /\ pub'[m].todo = pub'[m].routed /\ ~pub'[m].stale

\* The call finds the runtime of its next queue.
FindsQueue(m) ==
  /\ pub[m].pc = "lookup" /\ queues[Head(pub[m].todo).queue] # "none"
  /\ pub'[m] = [pub[m] EXCEPT !.pc = "store"] /\ UNCHANGED queues

\* That runtime is closed by DeleteQueue.
GoesStale(m) ==
  /\ pub[m].pc = "store" /\ pub'[m] = [pub[m] EXCEPT !.stale = TRUE]

\* The queue stores its copy, and the call goes on to the next or ends.
StoresCopy(m) ==
  LET b == Head(pub[m].todo)
  IN /\ pub[m].pc = "store"
     /\ stored' = stored \cup {<<b.queue, [msg |-> m, key |-> b.key]>>}
     /\ pub'[m] = IF Tail(pub[m].todo) = <<>>
                  THEN [pub[m] EXCEPT !.pc = "ok", !.todo = <<>>, !.stale = FALSE]
                  ELSE [pub[m] EXCEPT !.pc = "lookup", !.todo = Tail(pub[m].todo)]

\* The call returns an error.
Fails(m) == pub'[m] \in Calls /\ pub'[m].pc = "error"

\* Any of these, or nothing.
PubMove(m) ==
  \/ pub'[m] = pub[m] /\ (Crash => pub[m].pc \notin {"lookup", "store"})
  \/ ~Crash /\ boot = "up" /\ (GetsRouted(m) \/ FindsQueue(m) \/ GoesStale(m) \/ StoresCopy(m))
  \/ Fails(m)

\* Every step moves every Publish call in one of these ways.
LEMMA PubStep ==
  ASSUME Typed, [Next]_vars, NEW m \in Msgs
  PROVE  pub' \in [Msgs -> Calls] /\ PubMove(m)
\* Route selects from the list.
<1>RouteList.
      ASSUME NEW bs \in Seq(Binding), NEW t \in Types, NEW key
      PROVE  Route(t, bs, key) \in Seq(Binding)
  <2> USE <1>RouteList
  <2>1. Kept(bs, {i \in 1 .. Len(bs) : bs[i].key = key}) \in Seq(Binding)
    <3> DEFINE K == {i \in 1 .. Len(bs) : bs[i].key = key}
    <3>1. K \in SUBSET (1 .. Len(bs))
      BY ZenonT(30)
    <3> HIDE DEF K
    <3>2. Kept(bs, K) \in Seq(Binding)
      BY ZenonT(30), <3>1, KeptProperties
    <3> QED
      BY ZenonT(30), <3>2 DEF K
  <2>2. Kept(bs, {i \in 1 .. Len(bs) : match(bs[i].key, key)}) \in Seq(Binding)
    <3> DEFINE K == {i \in 1 .. Len(bs) : match(bs[i].key, key)}
    <3>1. K \in SUBSET (1 .. Len(bs))
      BY ZenonT(30)
    <3> HIDE DEF K
    <3>2. Kept(bs, K) \in Seq(Binding)
      BY ZenonT(30), <3>1, KeptProperties
    <3> QED
      BY ZenonT(30), <3>2 DEF K
  <2> QED
    BY ZenonT(30), <2>1, <2>2 DEF Route, Types
\* The ways a call changes keep its type.
<1>CallTypes.
      ASSUME NEW c \in Calls, NEW t \in Seq(Binding)
      PROVE  /\ [c EXCEPT !.stale = TRUE] \in Calls
             /\ [c EXCEPT !.pc = "lookup", !.todo = t] \in Calls
             /\ [c EXCEPT !.pc = "store"] \in Calls
             /\ [c EXCEPT !.pc = "ok", !.todo = <<>>, !.stale = FALSE] \in Calls
             /\ [c EXCEPT !.pc = "error", !.todo = <<>>, !.stale = FALSE] \in Calls
  <2> USE <1>CallTypes
  <2>1. <<>> \in Seq(Binding)
    OBVIOUS
  <2> QED
    BY ZenonT(30), <2>1 DEF Calls
\* A Publish that ends, or goes on with the rest of the queues.
<1>EndsAt.
      ASSUME Typed, NEW p \in Msgs, NEW outcome \in {"ok", "error"}, Ends(p, outcome)
      PROVE  /\ pub' \in [Msgs -> Calls] /\ pub'[p].pc = outcome /\ pub'[p].routed = pub[p].routed
             /\ \A n \in Msgs \ {p} : pub'[n] = pub[n]
  <2> USE <1>EndsAt
  <2>1. pub \in [Msgs -> Calls] /\ <<>> \in Seq(Binding)
    BY DEF Typed, PubSound
  <2> QED
    BY ZenonT(30), <2>1 DEF Ends, Calls
\* A crash ends only the calls under way.
<1>CrashPub.
      ASSUME Typed, Crash, NEW p \in Msgs
      PROVE  pub' \in [Msgs -> Calls] /\ PubMove(p)
  <2> USE <1>CrashPub
  <2>1. pub \in [Msgs -> Calls] /\ <<>> \in Seq(Binding)
    BY DEF Typed, PubSound
  <2>2. pub' = [n \in Msgs |-> IF pub[n].pc \in {"lookup", "store"}
                   THEN [pub[n] EXCEPT !.pc = "error", !.todo = <<>>, !.stale = FALSE]
                   ELSE pub[n]]
    BY ZenonT(30) DEF Crash
  <2>3. pub' \in [Msgs -> Calls]
    BY ZenonT(30), <2>1, <2>2 DEF Calls
  <2>4. CASE pub[p].pc \in {"lookup", "store"}
    <3>1. pub'[p].pc = "error"
      BY ZenonT(30), <2>1, <2>2, <2>4 DEF Calls
    <3> QED
      BY ZenonT(30), <2>3, <3>1 DEF PubMove, Fails
  <2>5. CASE pub[p].pc \notin {"lookup", "store"}
    <3>1. pub'[p] = pub[p]
      BY ZenonT(30), <2>2, <2>5
    <3> QED
      BY ZenonT(30), <2>3, <2>5, <3>1 DEF PubMove
  <2> QED
    BY ZenonT(30), <2>4, <2>5
\* A crash is the only step that raises crashes.
<1>NotCrash.
      ASSUME Typed, crashes' = crashes
      PROVE  ~Crash
  <2> USE <1>NotCrash
  <2>1. crashes \in Nat
    BY ZenonT(30) DEF Typed, LogType
  <2>2. Crash => crashes' = crashes + 1
    BY ZenonT(30) DEF Crash
  <2> QED
    BY <2>1, <2>2
\* A Publish that fails.
<1>EndsFails.
      ASSUME Typed, NEW k \in Msgs, Ends(k, "error"), NEW p \in Msgs, ~Crash
      PROVE  pub' \in [Msgs -> Calls] /\ PubMove(p)
  <2> USE <1>EndsFails
  <2>1. /\ pub' \in [Msgs -> Calls] /\ pub'[k].pc = "error"
        /\ \A n \in Msgs \ {k} : pub'[n] = pub[n]
    BY ZenonT(30), <1>EndsAt
  <2> QED
    BY ZenonT(30), <2>1 DEF PubMove, Fails
<1>0. pub \in [Msgs -> Calls] /\ <<>> \in Seq(Binding)
  BY DEF Typed, PubSound
<1>1. CASE UNCHANGED pub
  <2>1. CASE Crash
    BY ZenonT(30), <2>1, <1>CrashPub
  <2>2. CASE ~Crash
    BY ZenonT(30), <1>0, <1>1, <2>2 DEF PubMove
  <2> QED
    BY ZenonT(30), <2>1, <2>2
<1>2. CASE Crash
  BY ZenonT(30), <1>2, <1>CrashPub
<1>3. ASSUME NEW k \in Msgs, PublishLookup(k) PROVE pub' \in [Msgs -> Calls] /\ PubMove(m)
  <2>1. ~Crash /\ boot = "up" /\ pub[k].pc = "lookup"
    BY ZenonT(30), <1>3, <1>NotCrash DEF PublishLookup, Free
  <2>2. CASE Ends(k, "error")
    BY ZenonT(30), <2>1, <2>2, <1>EndsFails
  <2>3. CASE /\ queues[Head(pub[k].todo).queue] # "none"
             /\ pub' = [pub EXCEPT ![k].pc = "store"]
    <3>1. pub' \in [Msgs -> Calls]
      BY ZenonT(30), <1>0, <2>3 DEF Calls
    <3>2. m = k => FindsQueue(m)
      BY ZenonT(30), <1>0, <1>3, <2>1, <2>3 DEF FindsQueue, PublishLookup
    <3>3. m # k => pub'[m] = pub[m]
      BY ZenonT(30), <1>0, <2>3
    <3> QED
      BY ZenonT(30), <2>1, <3>1, <3>2, <3>3 DEF PubMove
  <2> QED
    BY ZenonT(30), <1>3, <2>2, <2>3 DEF PublishLookup
<1>4. ASSUME NEW k \in Msgs, NEW e \in Exchanges, NEW key \in RoutingKeys, PublishRoute(k, e, key)
      PROVE  pub' \in [Msgs -> Calls] /\ PubMove(m)
  <2> DEFINE r == Route(exchanges[e], bindings[e], key)
  <2>1. ~Crash /\ boot = "up"
    BY ZenonT(30), <1>4, <1>NotCrash DEF PublishRoute, Free
  <2>2. CASE Ends(k, "error")
    BY ZenonT(30), <2>1, <2>2, <1>EndsFails
  <2>3. CASE ~Ends(k, "error")
    <3>1. /\ exchanges[e] # "none" /\ r # <<>>
          /\ pub' = [pub EXCEPT ![k] = [pc |-> "lookup", todo |-> r, routed |-> r, stale |-> FALSE]]
      BY ZenonT(30), <1>4, <2>3 DEF PublishRoute
    <3>2. r \in Seq(Binding)
      BY ZenonT(30), <3>1, <1>RouteList DEF Typed, TableType
    <3> HIDE DEF r
    <3>3. pub' \in [Msgs -> Calls]
      BY ZenonT(30), <1>0, <3>1, <3>2 DEF Calls
    <3>4. m = k => GetsRouted(m)
      BY ZenonT(30), <1>0, <3>1, <3>3 DEF GetsRouted
    <3>5. m # k => pub'[m] = pub[m]
      BY ZenonT(30), <1>0, <3>1
    <3> QED
      BY <2>1, <3>3, <3>4, <3>5 DEF PubMove
  <2> QED
    BY ZenonT(30), <2>2, <2>3
<1>5. ASSUME NEW k \in Msgs, NEW ok \in BOOLEAN, PublishStore(k, ok)
      PROVE  pub' \in [Msgs -> Calls] /\ PubMove(m)
  <2> DEFINE b == Head(pub[k].todo)
             c == [msg |-> k, key |-> b.key]
  <2>1. ~Crash /\ boot = "up" /\ pub[k].pc = "store"
    BY ZenonT(30), <1>5, <1>NotCrash DEF PublishStore
  <2>2. CASE Ends(k, "error")
    BY ZenonT(30), <2>1, <2>2, <1>EndsFails
  <2>3. CASE ~Ends(k, "error")
    <3>1. /\ stored' = stored \cup {<<b.queue, c>>}
          /\ IF Tail(pub[k].todo) = <<>> THEN Ends(k, "ok")
             ELSE pub' = [pub EXCEPT ![k] = [@ EXCEPT !.pc = "lookup", !.todo = Tail(pub[k].todo)]]
      BY ZenonT(30), <1>5, <2>3 DEF PublishStore, AfterStore
    <3>2. Tail(pub[k].todo) \in Seq(Binding)
      BY ZenonT(30), <2>1, AtHand
    <3>3. pub' \in [Msgs -> Calls]
      <4>1. /\ [pub[k] EXCEPT !.pc = "ok", !.todo = <<>>, !.stale = FALSE] \in Calls
            /\ [pub[k] EXCEPT !.pc = "lookup", !.todo = Tail(pub[k].todo)] \in Calls
        BY ZenonT(30), <1>0, <3>2, <1>CallTypes
      <4> QED
        BY ZenonT(30), <1>0, <3>1, <4>1 DEF Ends
    <3>4. ASSUME m = k PROVE StoresCopy(m)
      <4>1. CASE Tail(pub[k].todo) = <<>>
        <5>1. pub'[k] = [pub[k] EXCEPT !.pc = "ok", !.todo = <<>>, !.stale = FALSE]
          BY ZenonT(30), <1>0, <3>1, <4>1 DEF Ends
        <5> QED
          BY ZenonT(30), <2>1, <3>1, <3>4, <4>1, <5>1 DEF StoresCopy
      <4>2. CASE Tail(pub[k].todo) # <<>>
        <5>1. pub'[k] = [pub[k] EXCEPT !.pc = "lookup", !.todo = Tail(pub[k].todo)]
          BY ZenonT(30), <1>0, <3>1, <4>2
        <5> QED
          BY ZenonT(30), <2>1, <3>1, <3>4, <4>2, <5>1 DEF StoresCopy
      <4> QED
        BY ZenonT(30), <4>1, <4>2
    <3>5. m # k => pub'[m] = pub[m]
      BY ZenonT(30), <1>0, <3>1 DEF Ends
    <3> QED
      BY ZenonT(30), <2>1, <3>3, <3>4, <3>5 DEF PubMove
  <2> QED
    BY ZenonT(30), <2>2, <2>3
<1>6. ASSUME NEW q \in Queues, NEW ok \in BOOLEAN, DeleteBegin(q, ok)
      PROVE  pub' \in [Msgs -> Calls] /\ PubMove(m)
  <2>1. ~Crash /\ boot = "up"
    BY ZenonT(30), <1>6, <1>NotCrash DEF DeleteBegin, Free
  <2>2. pub' = pub \/ pub' = Outdated(q)
    BY ZenonT(30), <1>6 DEF DeleteBegin
  <2>3. pub' \in [Msgs -> Calls]
    <3>1. \A n \in Msgs : [pub[n] EXCEPT !.stale = TRUE] \in Calls
      BY ZenonT(30), <1>0, <1>CallTypes
    <3> QED
      BY ZenonT(30), <1>0, <2>2, <3>1 DEF Outdated
  <2>4. pub'[m] = pub[m] \/ GoesStale(m)
    <3>1. CASE pub' = pub
      BY ZenonT(30), <3>1
    <3>2. CASE pub' = Outdated(q)
      <4>1. pub'[m] = IF pub[m].pc = "store" /\ Head(pub[m].todo).queue = q
                      THEN [pub[m] EXCEPT !.stale = TRUE] ELSE pub[m]
        BY ZenonT(30), <3>2 DEF Outdated
      <4> QED
        BY ZenonT(30), <4>1 DEF GoesStale
    <3> QED
      BY ZenonT(30), <2>2, <3>1, <3>2
  <2> QED
    BY ZenonT(30), <2>1, <2>3, <2>4 DEF PubMove
<1> QED
  BY ZenonT(30), <1>1, <1>2, <1>3, <1>4, <1>5, <1>6, PubKinds

\* The types hold from the start and for good.
LEMMA TypedInvariant == Spec => []Typed
\* What each record makes of the state that Load returns.
<1>RecordTypes.
      ASSUME disk \in Disks
      PROVE  /\ \A q \in Queues : QueueCreated(q) \in Disks /\ QueueDeleted(q) \in Disks
             /\ \A q \in Queues, c \in Copies : Published(q, c) \in Disks /\ Acknowledged(q, c) \in Disks
             /\ \A e \in Exchanges, t \in Types : ExchangeCreated(e, t) \in Disks
             /\ \A e \in Exchanges : ExchangeDeleted(e) \in Disks
             /\ \A e \in Exchanges, key \in Keys, q \in Queues : QueueBinded(e, key, q) \in Disks
             /\ \A e \in Exchanges : \A key, q : QueueUnbinded(e, key, q) \in Disks
  <2> USE <1>RecordTypes
  <2>1. \A q \in Queues : QueueCreated(q) \in Disks /\ QueueDeleted(q) \in Disks
    BY ZenonT(30) DEF QueueCreated, QueueDeleted, Disks
  <2>2. \A q \in Queues, c \in Copies : Published(q, c) \in Disks /\ Acknowledged(q, c) \in Disks
    BY ZenonT(30) DEF Published, Acknowledged, Disks
  <2>3. /\ \A e \in Exchanges, t \in Types : ExchangeCreated(e, t) \in Disks
        /\ \A e \in Exchanges : ExchangeDeleted(e) \in Disks
    <3>1. <<>> \in Seq(Binding)
      OBVIOUS
    <3> QED
      BY ZenonT(30), <3>1 DEF ExchangeCreated, ExchangeDeleted, Disks
  <2>4. ASSUME NEW e \in Exchanges, NEW key \in Keys, NEW q \in Queues
        PROVE  QueueBinded(e, key, q) \in Disks
    <3>1. Bind(disk.bindings[e], key, q) \in Seq(Binding)
      BY ZenonT(30), BindList DEF Disks
    <3> QED
      BY ZenonT(30), <3>1 DEF QueueBinded, Disks
  <2>5. ASSUME NEW e \in Exchanges, NEW key, NEW q PROVE QueueUnbinded(e, key, q) \in Disks
    <3>1. Unbind(disk.bindings[e], key, q) \in Seq(Binding)
      BY ZenonT(30), UnbindList DEF Disks
    <3> QED
      BY ZenonT(30), <3>1 DEF QueueUnbinded, Disks
  <2> QED
    BY ZenonT(30), <2>1, <2>2, <2>3, <2>4, <2>5
\* An append that fails counts as a fault.
<1>AppendType.
      ASSUME LogType, NEW after \in Disks, NEW ok \in BOOLEAN, Appended(after, ok), crashes' = crashes
      PROVE  LogType'
  <2> USE <1>AppendType
  <2>1. disk' \in Disks /\ torn' \in BOOLEAN
    BY ZenonT(30) DEF LogType, Appended
  <2>2. faults' = faults \/ faults' = faults + 1
    BY ZenonT(30) DEF Appended
  <2>3. faults' \in Nat
    BY <2>2 DEF LogType
  <2> QED
    BY ZenonT(30), <2>1, <2>3 DEF LogType
\* The log keeps its type.
<1>LogTypeStep.
      ASSUME Typed, [Next]_vars
      PROVE  LogType'
  <2> USE <1>LogTypeStep
  <2> USE <1>AppendType, <1>RecordTypes
  <2>0. LogType /\ disk \in Disks
    BY ZenonT(30) DEF Typed, LogType
  <2>1. CASE UNCHANGED <<log, crashes>>
    BY ZenonT(30), <2>0, <2>1 DEF LogType
  <2>2. ASSUME NEW ok \in BOOLEAN, NEW e \in Exchanges, BootExchange(e, ok) PROVE LogType'
    <3>1. plan[e].type \in Types
      BY ZenonT(30), <2>2 DEF BootExchange, Typed, BootType
    <3> QED
      BY ZenonT(30), <2>0, <2>2, <3>1 DEF BootExchange
  <2>3. ASSUME NEW ok \in BOOLEAN, BootBind(ok) PROVE LogType'
    <3>1. Head(rest) \in Binding /\ at \in Exchanges
      BY ZenonT(30), <2>3, MembersTail DEF BootBind, Typed, BootType
    <3>2. Head(rest).queue \in Queues /\ Head(rest).key \in Keys
      BY ZenonT(30), <3>1 DEF Binding
    <3> QED
      BY ZenonT(30), <2>0, <2>3, <3>1, <3>2 DEF BootBind
  <2>4. ASSUME NEW ok \in BOOLEAN, BootReady(ok) PROVE LogType'
    BY ZenonT(30), <2>0, <2>4, NameAssumption DEF BootReady
  <2>5. ASSUME NEW ok \in BOOLEAN, NEW q \in Queues, CreateQueue(q, ok) \/ DeleteBegin(q, ok)
        PROVE  LogType'
    BY ZenonT(30), <2>0, <2>5 DEF CreateQueue, DeleteBegin
  <2>6. ASSUME NEW ok \in BOOLEAN, NEW e \in Exchanges, NEW t \in Kinds, CreateExchange(e, t, ok)
        PROVE  LogType'
    BY ZenonT(30), <2>0, <2>6, NameAssumption DEF CreateExchange
  <2>7. ASSUME NEW ok \in BOOLEAN, NEW e \in Exchanges, DeleteExchange(e, ok) PROVE LogType'
    BY ZenonT(30), <2>0, <2>7 DEF DeleteExchange
  <2>8. ASSUME NEW ok \in BOOLEAN, NEW e \in Exchanges, NEW q \in Queues, NEW key \in Keys,
               BindQueue(e, q, key, ok)
        PROVE  LogType'
    BY ZenonT(30), <2>0, <2>8 DEF BindQueue
  <2>9. ASSUME NEW ok \in BOOLEAN, NEW e \in Exchanges, NEW q \in Queues, NEW key,
               UnbindQueue(e, q, key, ok)
        PROVE  LogType'
    BY ZenonT(30), <2>0, <2>9 DEF UnbindQueue
  <2>10. ASSUME NEW ok \in BOOLEAN, NEW e \in Exchanges, DeleteUnbind(e, ok) PROVE LogType'
    <3>1. UNCHANGED log \/ Appended(QueueUnbinded(e, NoKey, deleting), ok)
      BY ZenonT(30), <2>10 DEF DeleteUnbind
    <3>2. crashes' = crashes
      BY ZenonT(30), <2>10 DEF DeleteUnbind
    <3> QED
      BY ZenonT(30), <2>0, <2>1, <3>1, <3>2
  <2>11. ASSUME NEW ok \in BOOLEAN, NEW m \in Msgs, PublishStore(m, ok) PROVE LogType'
    <3> DEFINE b == Head(pub[m].todo)
               c == [msg |-> m, key |-> b.key]
    <3>1. b \in Binding
      <4>1. pub[m].todo \in Seq(Binding) /\ pub[m].todo # <<>>
        BY ZenonT(30), <2>11 DEF PublishStore, Typed, PubSound, Calls
      <4> QED
        BY ZenonT(30), <4>1, MembersTail
    <3>2. b.queue \in Queues /\ c \in Copies
      BY ZenonT(30), <3>1 DEF Binding, Copies
    <3>3. crashes' = crashes /\ (UNCHANGED log \/ Appended(Published(b.queue, c), ok))
      BY ZenonT(30), <2>11 DEF PublishStore
    <3> QED
      BY ZenonT(30), <2>0, <2>1, <3>2, <3>3
  <2>12. ASSUME NEW ok \in BOOLEAN, NEW q \in Queues, NEW c \in pending[q], Consume(q, c, ok)
         PROVE  LogType'
    <3>1. c \in Copies
      BY ZenonT(30) DEF Typed, QueueType
    <3> QED
      BY ZenonT(30), <2>0, <2>12, <3>1 DEF Consume
  <2> HIDE <1>AppendType, <1>RecordTypes
  <2>13. CASE Crash
    <3>1. UNCHANGED <<disk, faults>> /\ crashes' = crashes + 1
      BY ZenonT(30), <2>13 DEF Crash
    <3>2. torn' \in BOOLEAN
      BY ZenonT(30), <2>0, <2>13 DEF Crash, LogType
    <3> QED
      BY <2>0, <3>1, <3>2 DEF LogType
  <2>14. CASE Silent
    BY ZenonT(30), <2>1, <2>14, SilentFrame
  <2> QED
    BY ZenonT(30), <2>2, <2>3, <2>4, <2>5, <2>6, <2>7, <2>8, <2>9, <2>10, <2>11, <2>12, <2>13, <2>14
       DEF Next, Boot, Declare, Traffic, Silent
\* The runtimes keep their type.
<1>QueueTypeStep.
      ASSUME Typed, [Next]_vars
      PROVE  QueueType'
  <2> USE <1>QueueTypeStep
  <2>0. QueueType /\ disk \in Disks
    BY ZenonT(30) DEF Typed, LogType
  <2>1. CASE UNCHANGED <<queues, pending, closed>>
    BY ZenonT(30), <2>0, <2>1 DEF QueueType
  <2>2. CASE BootLoad
    BY ZenonT(30), <2>0, <2>2 DEF BootLoad, QueueType, Disks
  <2>3. CASE Crash
    BY ZenonT(30), <2>3 DEF Crash, QueueType
  <2>4. CASE ShutdownBegin \/ \E q \in Queues : ShutdownQueue(q)
    BY ZenonT(30), <2>0, <2>4 DEF ShutdownBegin, ShutdownQueue, QueueType
  <2>5. ASSUME NEW q \in Queues, NEW ok \in BOOLEAN, CreateQueue(q, ok) \/ DeleteBegin(q, ok)
        PROVE  QueueType'
    BY ZenonT(30), <2>0, <2>5 DEF CreateQueue, DeleteBegin, QueueType
  <2>6. ASSUME NEW m \in Msgs, NEW ok \in BOOLEAN, PublishStore(m, ok) PROVE QueueType'
    <3> DEFINE b == Head(pub[m].todo)
               c == [msg |-> m, key |-> b.key]
    <3>1. b.queue \in Queues /\ c \in Copies
      BY ZenonT(30), <2>6, AtHand DEF PublishStore
    <3>2. /\ UNCHANGED <<queues, closed>>
          /\ pending' = pending \/ pending' = [pending EXCEPT ![b.queue] = @ \cup {c}]
      BY ZenonT(30), <2>6 DEF PublishStore
    <3> QED
      BY ZenonT(30), <2>0, <3>1, <3>2 DEF QueueType
  <2>7. ASSUME NEW q \in Queues, NEW ok \in BOOLEAN, NEW c \in pending[q], Consume(q, c, ok)
        PROVE  QueueType'
    BY ZenonT(30), <2>0, <2>7 DEF Consume, QueueType
  <2> QED
    BY ZenonT(30), <2>1, <2>2, <2>3, <2>4, <2>5, <2>6, <2>7, QueueKinds
\* The tables keep their type.
<1>TableTypeStep.
      ASSUME Typed, [Next]_vars
      PROVE  TableType'
  <2> USE <1>TableTypeStep
  <2>0. TableType /\ BootType
    BY ZenonT(30) DEF Typed
  <2>1. CASE UNCHANGED <<exchanges, bindings>>
    BY ZenonT(30), <2>0, <2>1 DEF TableType
  <2>2. CASE BootLoad \/ Crash
    <3>1. <<>> \in Seq(Binding)
      OBVIOUS
    <3> QED
      BY ZenonT(30), <2>2, <3>1 DEF BootLoad, Crash, TableType, OnlyDefault, NoExchanges, NoBindings, Types
  <2>3. ASSUME NEW ok \in BOOLEAN, BootBind(ok) PROVE TableType'
    <3>1. Head(rest) \in Binding /\ at \in Exchanges
      BY ZenonT(30), <2>0, <2>3, MembersTail DEF BootBind, BootType
    <3>2. Bind(bindings[at], Head(rest).key, Head(rest).queue) \in Seq(Binding)
      BY ZenonT(30), <2>0, <3>1, BindList DEF Binding, TableType
    <3> QED
      BY ZenonT(30), <2>0, <2>3, <3>1, <3>2 DEF BootBind, TableType
  <2>4. ASSUME NEW ok \in BOOLEAN, BootReady(ok) PROVE TableType'
    <3>1. Bind(bindings[DefaultExchange], DefaultKey, DefaultQueue) \in Seq(Binding)
      BY ZenonT(30), <2>0, NameAssumption, BindList DEF TableType
    <3> QED
      BY ZenonT(30), <2>0, <2>4, <3>1 DEF BootReady, TableType
  <2>5. ASSUME NEW e \in Exchanges, NEW ok \in BOOLEAN, BootExchange(e, ok) PROVE TableType'
    <3>1. plan[e].type \in Types
      BY ZenonT(30), <2>0, <2>5 DEF BootExchange, BootType
    <3> QED
      BY ZenonT(30), <2>0, <2>5, <3>1 DEF BootExchange, TableType
  <2>6. ASSUME NEW e \in Exchanges, NEW ok \in BOOLEAN, DeleteExchange(e, ok) PROVE TableType'
    <3>1. <<>> \in Seq(Binding)
      OBVIOUS
    <3> QED
      BY ZenonT(30), <2>0, <2>6, <3>1 DEF DeleteExchange, TableType
  <2>7. ASSUME NEW e \in Exchanges, NEW ok \in BOOLEAN, DeleteUnbind(e, ok) PROVE TableType'
    <3>1. Unbind(bindings[e], NoKey, deleting) \in Seq(Binding)
      BY ZenonT(30), <2>0, UnbindList DEF TableType
    <3> QED
      BY ZenonT(30), <2>0, <2>7, <3>1 DEF DeleteUnbind, TableType
  <2>8. ASSUME NEW e \in Exchanges, NEW ok \in BOOLEAN, NEW t \in Kinds, CreateExchange(e, t, ok)
        PROVE  TableType'
    BY ZenonT(30), <2>0, <2>8, NameAssumption DEF CreateExchange, TableType
  <2>9. ASSUME NEW e \in Exchanges, NEW ok \in BOOLEAN, NEW q \in Queues, NEW key \in Keys,
               BindQueue(e, q, key, ok)
        PROVE  TableType'
    <3>1. Bind(bindings[e], key, q) \in Seq(Binding)
      BY ZenonT(30), <2>0, BindList DEF TableType
    <3> QED
      BY ZenonT(30), <2>0, <2>9, <3>1 DEF BindQueue, TableType
  <2>10. ASSUME NEW e \in Exchanges, NEW ok \in BOOLEAN, NEW q \in Queues, NEW key,
                UnbindQueue(e, q, key, ok)
         PROVE  TableType'
    <3>1. Unbind(bindings[e], key, q) \in Seq(Binding)
      BY ZenonT(30), <2>0, UnbindList DEF TableType
    <3> QED
      BY ZenonT(30), <2>0, <2>10, <3>1 DEF UnbindQueue, TableType
  <2> QED
    BY ZenonT(30), <2>1, <2>2, <2>3, <2>4, <2>5, <2>6, <2>7, <2>8, <2>9, <2>10, TableKinds
\* The state of NewBroker and DeleteQueue keeps its type.
<1>BootTypeStep.
      ASSUME Typed, [Next]_vars
      PROVE  BootType'
  <2> USE <1>BootTypeStep
  <2>0. BootType /\ disk \in Disks /\ exchanges \in [Exchanges -> Types \cup {"none"}]
    BY ZenonT(30) DEF Typed, LogType, TableType
  <2>e. <<>> \in Seq(Binding)
    OBVIOUS
  <2>1. CASE UNCHANGED <<booting, deletion>>
    BY ZenonT(30), <2>0, <2>1 DEF BootType
  <2>2. CASE BootLoad
    BY ZenonT(30), <2>0, <2>2 DEF BootLoad, BootType, Disks
  <2>3. CASE Crash
    BY ZenonT(30), <2>e, <2>3, NameAssumption DEF Crash, BootType, NothingPlanned
  <2>4. CASE BootUnreadable \/ BootRefused
    BY ZenonT(30), <2>0, <2>4 DEF BootUnreadable, BootRefused, BootType
  <2>5. ASSUME NEW ok \in BOOLEAN, BootBind(ok) PROVE BootType'
    <3>1. Tail(rest) \in Seq(Binding)
      BY ZenonT(30), <2>0, <2>5, MembersTail DEF BootBind, BootType
    <3> QED
      BY ZenonT(30), <2>0, <2>5, <3>1 DEF BootBind, BootType
  <2>6. ASSUME NEW ok \in BOOLEAN, BootReady(ok) PROVE BootType'
    BY ZenonT(30), <2>0, <2>6 DEF BootReady, BootType
  <2>7. ASSUME NEW e \in Exchanges, NEW ok \in BOOLEAN, BootExchange(e, ok) PROVE BootType'
    <3>1. plan[e].list \in Seq(Binding)
      BY ZenonT(30), <2>0 DEF BootType
    <3>2. UNCHANGED deletion
      BY ZenonT(30), <2>7 DEF BootExchange
    <3>3. CASE ok
      <4>1. /\ at' = e /\ rest' = plan[e].list /\ boot' = boot
            /\ plan' = [plan EXCEPT ![e] = [type |-> "none", list |-> <<>>]]
        BY ZenonT(30), <2>7, <3>3 DEF BootExchange
      <4> QED
        BY ZenonT(30), <2>0, <2>e, <3>1, <3>2, <4>1 DEF BootType
    <3>4. CASE ~ok
      <4>1. boot' = "failed" /\ UNCHANGED <<at, rest, plan>>
        BY ZenonT(30), <2>7, <3>4 DEF BootExchange
      <4> QED
        BY ZenonT(30), <2>0, <3>2, <4>1 DEF BootType
    <3> QED
      BY ZenonT(30), <3>3, <3>4
  <2>8. ASSUME NEW e \in Exchanges, NEW ok \in BOOLEAN, DeleteUnbind(e, ok) PROVE BootType'
    BY ZenonT(30), <2>0, <2>8 DEF DeleteUnbind, BootType
  <2>9. ASSUME NEW q \in Queues, NEW ok \in BOOLEAN, DeleteBegin(q, ok) PROVE BootType'
    BY ZenonT(30), <2>0, <2>9 DEF DeleteBegin, BootType
  <2> QED
    BY ZenonT(30), <2>1, <2>2, <2>3, <2>4, <2>5, <2>6, <2>7, <2>8, <2>9, BootKinds
\* The history keeps its type.
<1>HistTypeStep.
      ASSUME Typed, [Next]_vars
      PROVE  HistType'
  <2> USE <1>HistTypeStep
  <2>0. HistType
    BY ZenonT(30) DEF Typed
  <2>1. CASE UNCHANGED hist
    BY ZenonT(30), <2>0, <2>1 DEF HistType
  <2>2. CASE Crash
    BY ZenonT(30), <2>0, <2>2 DEF Crash, HistType
  <2>3. ASSUME NEW m \in Msgs, NEW ok \in BOOLEAN, PublishStore(m, ok) PROVE HistType'
    <3> DEFINE b == Head(pub[m].todo)
               c == [msg |-> m, key |-> b.key]
    <3>1. b.queue \in Queues /\ c \in Copies
      BY ZenonT(30), <2>3, AtHand DEF PublishStore
    <3>2. /\ UNCHANGED <<consumed, bound, cutShort>>
          /\ stored' = stored \/ stored' = stored \cup {<<b.queue, c>>}
      BY ZenonT(30), <2>3 DEF PublishStore
    <3> HIDE DEF b, c
    <3> QED
      BY <2>0, <3>1, <3>2 DEF HistType
  <2>4. ASSUME NEW q \in Queues, NEW ok \in BOOLEAN, NEW c \in pending[q], Consume(q, c, ok)
        PROVE  HistType'
    <3>1. c \in Copies
      BY ZenonT(30) DEF Typed, QueueType
    <3>2. UNCHANGED <<stored, bound, cutShort>> /\ consumed' = consumed \cup {<<q, c>>}
      BY ZenonT(30), <2>4 DEF Consume
    <3> QED
      BY <2>0, <3>1, <3>2 DEF HistType
  <2>5. ASSUME NEW q \in Queues, NEW ok \in BOOLEAN, DeleteBegin(q, ok) PROVE HistType'
    <3>1. /\ UNCHANGED <<stored, consumed>> /\ bound' \subseteq bound
          /\ cutShort' \subseteq cutShort \cup {"delete"}
      BY ZenonT(30), <2>5 DEF DeleteBegin, CutShort
    <3> QED
      BY ZenonT(30), <2>0, <3>1 DEF HistType
  <2>6. ASSUME NEW e \in Exchanges, NEW ok \in BOOLEAN, NEW q \in Queues, NEW key \in Keys,
               BindQueue(e, q, key, ok)
        PROVE  HistType'
    <3>1. UNCHANGED <<stored, consumed, cutShort>> /\ bound' \subseteq bound \cup {<<e, key, q>>}
      BY ZenonT(30), <2>6 DEF BindQueue
    <3> QED
      BY <2>0, <3>1 DEF HistType
  <2>7. ASSUME NEW e \in Exchanges, NEW ok \in BOOLEAN, NEW q \in Queues, NEW key,
               UnbindQueue(e, q, key, ok)
        PROVE  HistType'
    <3>1. /\ UNCHANGED <<stored, consumed>> /\ bound' \subseteq bound
          /\ cutShort' \subseteq cutShort \cup {"unbind"}
      BY ZenonT(30), <2>7 DEF UnbindQueue, CutShort
    <3> QED
      BY ZenonT(30), <2>0, <3>1 DEF HistType
  <2>8. ASSUME NEW e \in Exchanges, NEW ok \in BOOLEAN, DeleteUnbind(e, ok) PROVE HistType'
    <3>1. UNCHANGED <<stored, consumed, bound>> /\ cutShort' \subseteq cutShort \cup {"delete"}
      BY ZenonT(30), <2>8 DEF DeleteUnbind, CutShort
    <3> QED
      BY ZenonT(30), <2>0, <3>1 DEF HistType
  <2> QED
    BY ZenonT(30), <2>1, <2>2, <2>3, <2>4, <2>5, <2>6, <2>7, <2>8, HistKinds
\* The calls under way keep a queue to go to.
<1>PubSoundStep.
      ASSUME Typed, [Next]_vars
      PROVE  PubSound'
  <2> USE <1>PubSoundStep
  <2>1. ASSUME NEW m \in Msgs, pub'[m].pc \in {"lookup", "store"}
        PROVE  boot' = "up" /\ pub'[m].todo # <<>>
    <3>0. PubMove(m) /\ pub[m] \in Calls
      BY ZenonT(30), PubStep DEF Typed, PubSound
    <3>1. pub[m].pc \in {"lookup", "store"} => boot = "up" /\ pub[m].todo # <<>>
      BY ZenonT(30) DEF Typed, PubSound
    <3>2. ~Fails(m)
      BY ZenonT(30), <2>1 DEF Fails
    <3>3. ~Crash /\ boot = "up"
      BY ZenonT(30), <2>1, <3>0, <3>1, <3>2 DEF PubMove
    <3>4. boot' = "up"
      BY ZenonT(30), <3>3, StaysUp
    <3>5. CASE pub'[m] = pub[m]
      BY ZenonT(30), <2>1, <3>1, <3>4, <3>5
    <3>6. CASE GetsRouted(m)
      BY ZenonT(30), <3>4, <3>6 DEF GetsRouted
    <3>7. CASE FindsQueue(m) \/ GoesStale(m)
      BY ZenonT(30), <3>0, <3>1, <3>4, <3>7 DEF FindsQueue, GoesStale, Calls
    <3>8. CASE StoresCopy(m)
      BY ZenonT(30), <2>1, <3>0, <3>4, <3>8 DEF StoresCopy, Calls
    <3> QED
      BY ZenonT(30), <3>0, <3>2, <3>5, <3>6, <3>7, <3>8 DEF PubMove
  <2>2. pub' \in [Msgs -> Calls]
    <3>1. CASE Msgs = {}
      <4>1. pub \in [Msgs -> Calls]
        BY ZenonT(30) DEF Typed, PubSound
      <4>2. UNCHANGED pub \/ Crash \/ \E q, ok : DeleteBegin(q, ok)
        BY ZenonT(30), <3>1, PubKinds
      <4> QED
        BY ZenonT(30), <3>1, <4>1, <4>2 DEF Crash, DeleteBegin, Outdated
    <3>2. CASE Msgs # {}
      BY ZenonT(30), <3>2, PubStep
    <3> QED
      BY ZenonT(30), <3>1, <3>2
  <2> QED
    BY ZenonT(30), <2>1, <2>2 DEF PubSound
<1>1. Init => Typed
  <2> SUFFICES ASSUME Init PROVE Typed
    BY ZenonT(30)
  <2>1. <<>> \in Seq(Binding) /\ Idle \in Calls
    BY DEF Idle, Calls
  <2>2. QueueType
    BY ZenonT(30) DEF Init, QueueType
  <2>3. TableType
    BY ZenonT(30), <2>1 DEF Init, TableType, NoExchanges, NoBindings
  <2>4. BootType
    BY ZenonT(30), <2>1, NameAssumption DEF Init, BootType, NothingPlanned
  <2>5. LogType
    BY ZenonT(30), <2>1 DEF Init, LogType, Disks, NoExchanges, NoBindings
  <2>6. HistType
    BY ZenonT(30) DEF Init, HistType
  <2>7. PubSound
    BY ZenonT(30), <2>1 DEF Init, PubSound, Idle
  <2> QED
    BY ZenonT(30), <2>2, <2>3, <2>4, <2>5, <2>6, <2>7 DEF Typed
<1>2. Typed /\ [Next]_vars => Typed'
  BY ZenonT(30), <1>QueueTypeStep, <1>TableTypeStep, <1>BootTypeStep, <1>LogTypeStep, <1>HistTypeStep, <1>PubSoundStep DEF Typed
<1> QED
  BY <1>1, <1>2, PTL DEF Spec

\* Every variable of the registry keeps its type: no step looks past the end of a
\* binding list, and a Publish under way always has a queue to go to.
THEOREM TypesKept == Spec => []TypeOK
BY TypedInvariant, TypedIsTyped, PTL

-----------------------------------------------------------------------------
(* Publish. *)

\* The copy of m that binding b brings to its queue.
CopyOf(m, b) == <<b.queue, [msg |-> m, key |-> b.key]>>

\* t is what is left of r after its first n elements.
Suffix(t, r, n) ==
  /\ n \in Nat /\ n = Len(r) - Len(t)
  /\ \A i \in 1 .. Len(t) : t[i] = r[n + i]

\* The queues a call has still to serve are the last of those it was routed to,
\* and the earlier ones have stored their copies.
Served(m) ==
  LET n == Len(pub[m].routed) - Len(pub[m].todo)
  IN /\ Suffix(pub[m].todo, pub[m].routed, n)
     /\ \A i \in 1 .. n : CopyOf(m, pub[m].routed[i]) \in stored

\* The queues that a call has passed have their copies.
PubInv ==
  \A m \in Msgs :
    /\ pub[m].pc \in {"lookup", "store"} => Served(m)
    /\ pub[m].pc = "ok" =>
         \A i \in 1 .. Len(pub[m].routed) : CopyOf(m, pub[m].routed[i]) \in stored

\* When Publish returns nil every queue it was routed to has stored its copy, for
\* any number of queues, calls and bindings, whatever is declared, deleted or lost
\* in between.
THEOREM PublishReachesAll == Spec => []PublishComplete
\* One fewer left is one more taken.
<1>CountDown.
      ASSUME NEW a \in Nat, NEW b \in Nat, NEW c, NEW n \in Nat, n = a - b, c = b - 1
      PROVE  a - c = n + 1 /\ (c = 0 => a = n + 1) /\ n + 1 \in Nat
  BY <1>CountDown
\* One more element taken.
<1>OneMore.
      ASSUME NEW r \in Seq(Binding), NEW t \in Seq(Binding), t # <<>>, NEW n \in Nat, Suffix(t, r, n)
      PROVE  /\ Suffix(Tail(t), r, n + 1) /\ r[n + 1] = Head(t)
             /\ Tail(t) = <<>> => Len(r) = n + 1
  <2> USE <1>OneMore
  <2> DEFINE u == Tail(t)
  <2>1. /\ Len(t) \in Nat \ {0} /\ Len(r) \in Nat /\ Len(u) = Len(t) - 1 /\ Head(t) = t[1]
        /\ \A i \in 1 .. Len(t) - 1 : u[i] = t[i + 1]
    OBVIOUS
  <2>2. n \in Nat /\ n = Len(r) - Len(t) /\ \A i \in 1 .. Len(t) : t[i] = r[n + i]
    BY ZenonT(30) DEF Suffix
  <2>3. r[n + 1] = Head(t)
    BY <2>1, <2>2
  <2>e. u \in Seq(Binding)
    OBVIOUS
  <2> HIDE DEF u
  <2>4. u = <<>> => Len(u) = 0
    BY <2>e
  <2>5. Len(r) - Len(u) = n + 1 /\ (Len(u) = 0 => Len(r) = n + 1) /\ n + 1 \in Nat
    <3>1. n \in Nat /\ n = Len(r) - Len(t) /\ Len(t) \in Nat /\ Len(r) \in Nat /\ Len(u) = Len(t) - 1
      BY ZenonT(30), <2>1, <2>2
    <3> DEFINE a == Len(r)
               b == Len(t)
               c == Len(u)
    <3>2. n \in Nat /\ n = a - b /\ b \in Nat /\ a \in Nat /\ c = b - 1
      BY ZenonT(30), <3>1
    <3> HIDE DEF a, b, c
    <3>3. a - c = n + 1 /\ (c = 0 => a = n + 1) /\ n + 1 \in Nat
      BY <3>2, <1>CountDown
    <3> QED
      BY ZenonT(30), <3>3 DEF a, b, c
  <2>6. ASSUME NEW i \in 1 .. Len(u) PROVE u[i] = r[(n + 1) + i]
    <3>1. i \in 1 .. Len(t) - 1 /\ i + 1 \in 1 .. Len(t) /\ n + (i + 1) = (n + 1) + i
      BY <2>1, <2>2
    <3>2. u[i] = t[i + 1] /\ t[i + 1] = r[n + (i + 1)]
      BY ZenonT(30), <2>1, <2>2, <3>1
    <3> QED
      BY ZenonT(30), <3>1, <3>2
  <2>7. Suffix(u, r, n + 1)
    BY ZenonT(30), <2>5, <2>6 DEF Suffix
  <2> QED
    BY ZenonT(30), <2>3, <2>4, <2>5, <2>7 DEF u
\* Nothing stored is forgotten.
<1>StoredGrows.
      ASSUME [Next]_vars
      PROVE  stored \subseteq stored'
  <2> USE <1>StoredGrows
  <2>1. ASSUME NEW m, NEW ok, PublishStore(m, ok) PROVE stored \subseteq stored'
    BY ZenonT(30), <2>1 DEF PublishStore
  <2>2. ASSUME NEW q, NEW c, NEW ok, Consume(q, c, ok) \/ DeleteBegin(q, ok)
        PROVE  stored \subseteq stored'
    BY ZenonT(30), <2>2 DEF Consume, DeleteBegin
  <2>3. ASSUME NEW e, NEW q, NEW key, NEW ok, BindQueue(e, q, key, ok) \/ UnbindQueue(e, q, key, ok)
        PROVE  stored \subseteq stored'
    BY ZenonT(30), <2>3 DEF BindQueue, UnbindQueue
  <2>4. Crash \/ UNCHANGED hist \/ (\E e, ok : DeleteUnbind(e, ok)) => stored \subseteq stored'
    BY ZenonT(30) DEF Crash, DeleteUnbind
  <2> QED
    BY ZenonT(30), <2>1, <2>2, <2>3, <2>4, HistKinds
\* Every step keeps the account of each call.
<1>PubInvStep.
      ASSUME PubInv, Typed, [Next]_vars
      PROVE  PubInv'
  <2> USE <1>PubInvStep
  <2> SUFFICES ASSUME NEW m \in Msgs
               PROVE  /\ pub'[m].pc \in {"lookup", "store"} => Served(m)'
                      /\ pub'[m].pc = "ok" =>
                           \A i \in 1 .. Len(pub'[m].routed) : CopyOf(m, pub'[m].routed[i]) \in stored'
    BY ZenonT(30) DEF PubInv
  <2>0. /\ PubMove(m) /\ pub[m] \in Calls /\ stored \subseteq stored'
        /\ pub[m].pc \in {"lookup", "store"} => Served(m)
        /\ pub[m].pc = "ok" => \A i \in 1 .. Len(pub[m].routed) : CopyOf(m, pub[m].routed[i]) \in stored
    BY ZenonT(30), PubStep, <1>StoredGrows DEF Typed, PubSound, PubInv
  <2>1. CASE pub'[m] = pub[m]
    BY ZenonT(30), <2>0, <2>1 DEF Served
  <2>2. CASE GetsRouted(m)
    <3>1. /\ pub'[m].pc = "lookup" /\ pub'[m].todo = pub'[m].routed /\ Len(pub'[m].routed) \in Nat
      BY <2>2 DEF GetsRouted, Calls
    <3>2. Len(pub'[m].routed) - Len(pub'[m].todo) = 0
      BY <3>1
    <3>3. Suffix(pub'[m].todo, pub'[m].routed, 0)
      BY <3>1 DEF Suffix
    <3> QED
      BY <3>1, <3>2, <3>3 DEF Served
  <2>3. CASE FindsQueue(m) \/ GoesStale(m)
    <3>1. /\ pub'[m].todo = pub[m].todo /\ pub'[m].routed = pub[m].routed
          /\ pub'[m].pc = "store" /\ Served(m)
      BY ZenonT(30), <2>0, <2>3 DEF FindsQueue, GoesStale, Calls
    <3> QED
      BY ZenonT(30), <2>0, <3>1 DEF Served
  <2>4. CASE StoresCopy(m)
    <3> DEFINE t == pub[m].todo
               r == pub[m].routed
               n == Len(r) - Len(t)
    <3>1. pub[m].pc = "store" /\ Served(m) /\ CopyOf(m, Head(t)) \in stored'
      BY ZenonT(30), <2>0, <2>4 DEF StoresCopy, CopyOf
    <3>2. t \in Seq(Binding) /\ r \in Seq(Binding) /\ t # <<>>
      BY ZenonT(30), <2>0, <3>1 DEF Typed, PubSound, Calls
    <3>3. Suffix(t, r, n) /\ \A i \in 1 .. n : CopyOf(m, r[i]) \in stored'
      BY ZenonT(30), <2>0, <3>1 DEF Served
    <3>4. pub'[m].routed = r
      BY ZenonT(30), <2>0, <2>4 DEF StoresCopy, Calls
    <3>5. /\ Tail(t) # <<>> => pub'[m].todo = Tail(t) /\ pub'[m].pc = "lookup"
          /\ Tail(t) = <<>> => pub'[m].pc = "ok"
      BY ZenonT(30), <2>0, <2>4 DEF StoresCopy, Calls
    <3> HIDE DEF t, r, n
    <3>6. /\ Suffix(Tail(t), r, n + 1) /\ r[n + 1] = Head(t)
          /\ Tail(t) = <<>> => Len(r) = n + 1
      <4>1. n \in Nat
        BY ZenonT(30), <3>3 DEF Suffix
      <4> QED
        BY ZenonT(30), <3>2, <3>3, <4>1, <1>OneMore
    <3>7. \A i \in 1 .. n + 1 : CopyOf(m, r[i]) \in stored'
      <4> SUFFICES ASSUME NEW i \in 1 .. n + 1 PROVE CopyOf(m, r[i]) \in stored'
        BY ZenonT(30)
      <4>1. i \in 1 .. n \/ i = n + 1
        BY <3>3 DEF Suffix
      <4> QED
        BY ZenonT(30), <3>1, <3>3, <3>6, <4>1
    <3>8. Len(r) - Len(Tail(t)) = n + 1
      BY ZenonT(30), <3>6 DEF Suffix
    <3>9. CASE Tail(t) = <<>>
      BY ZenonT(30), <3>4, <3>5, <3>6, <3>7, <3>9
    <3>10. CASE Tail(t) # <<>>
      <4>1. pub'[m].pc = "lookup" /\ pub'[m].todo = Tail(t)
        BY ZenonT(30), <3>5, <3>10
      <4> QED
        BY ZenonT(30), <3>4, <3>6, <3>7, <3>8, <4>1 DEF Served
    <3> QED
      BY ZenonT(30), <3>9, <3>10
  <2>5. CASE Fails(m)
    BY ZenonT(30), <2>5 DEF Fails
  <2> QED
    BY ZenonT(30), <2>0, <2>1, <2>2, <2>3, <2>4, <2>5 DEF PubMove
<1>1. Init => PubInv
  <2> SUFFICES ASSUME Init, NEW m \in Msgs PROVE pub[m].pc = "idle"
    BY ZenonT(30) DEF PubInv
  <2> QED
    BY ZenonT(30) DEF Init, Idle
<1>2. PubInv /\ Typed /\ [Next]_vars => PubInv'
  BY ZenonT(30), <1>PubInvStep
<1>3. PubInv => PublishComplete
  BY ZenonT(30) DEF PubInv, PublishComplete, CopyOf
<1> QED
  BY <1>1, <1>2, <1>3, TypedInvariant, PTL DEF Spec

-----------------------------------------------------------------------------
(* What the records say of queues and of exchanges. *)

\* d has the queues and messages of the log.
SameQueues(d) == d.queues = disk.queues /\ d.pending = disk.pending

\* d has the exchanges and bindings of the log.
SameTables(d) == d.exchanges = disk.exchanges /\ d.bindings = disk.bindings

\* A record about exchanges says nothing of queues, and the other way round.
LEMMA RecordFrames ==
  ASSUME disk \in Disks
  PROVE  /\ \A e, t : SameQueues(ExchangeCreated(e, t)) /\ SameQueues(ExchangeDeleted(e))
         /\ \A e, key, q : SameQueues(QueueBinded(e, key, q)) /\ SameQueues(QueueUnbinded(e, key, q))
         /\ \A q : SameTables(QueueCreated(q)) /\ SameTables(QueueDeleted(q))
         /\ \A q, c : SameTables(Published(q, c)) /\ SameTables(Acknowledged(q, c))
<1>1. \A e, t : SameQueues(ExchangeCreated(e, t)) /\ SameQueues(ExchangeDeleted(e))
  BY ZenonT(30) DEF ExchangeCreated, ExchangeDeleted, SameQueues, Disks
<1>2. \A e, key, q : SameQueues(QueueBinded(e, key, q)) /\ SameQueues(QueueUnbinded(e, key, q))
  BY ZenonT(30) DEF QueueBinded, QueueUnbinded, SameQueues, Disks
<1>3. \A q : SameTables(QueueCreated(q)) /\ SameTables(QueueDeleted(q))
  BY ZenonT(30) DEF QueueCreated, QueueDeleted, SameTables, Disks
<1>4. \A q, c : SameTables(Published(q, c)) /\ SameTables(Acknowledged(q, c))
  BY ZenonT(30) DEF Published, Acknowledged, SameTables, Disks
<1> QED
  BY ZenonT(30), <1>1, <1>2, <1>3, <1>4

\* What the records about queues say.
LEMMA RecordValues ==
  ASSUME disk \in Disks, NEW q \in Queues, NEW c
  PROVE  /\ QueueCreated(q).queues = disk.queues \cup {q} /\ QueueCreated(q).pending = disk.pending
         /\ QueueDeleted(q).queues = disk.queues \ {q}
         /\ QueueDeleted(q).pending = [disk.pending EXCEPT ![q] = {}]
         /\ Published(q, c).queues = disk.queues \cup {q}
         /\ Published(q, c).pending = [disk.pending EXCEPT ![q] = @ \cup {c}]
         /\ Acknowledged(q, c).queues = disk.queues \cup {q}
         /\ Acknowledged(q, c).pending = [disk.pending EXCEPT ![q] = @ \ {c}]
<1>1. /\ QueueCreated(q).queues = disk.queues \cup {q} /\ QueueCreated(q).pending = disk.pending
      /\ QueueDeleted(q).queues = disk.queues \ {q}
      /\ QueueDeleted(q).pending = [disk.pending EXCEPT ![q] = {}]
  BY ZenonT(30) DEF QueueCreated, QueueDeleted, Disks
<1>2. /\ Published(q, c).queues = disk.queues \cup {q}
      /\ Published(q, c).pending = [disk.pending EXCEPT ![q] = @ \cup {c}]
  BY ZenonT(30) DEF Published, Disks
<1>3. /\ Acknowledged(q, c).queues = disk.queues \cup {q}
      /\ Acknowledged(q, c).pending = [disk.pending EXCEPT ![q] = @ \ {c}]
  BY ZenonT(30) DEF Acknowledged, Disks
<1> QED
  BY ZenonT(30), <1>1, <1>2, <1>3

\* After an append the log is as before or has the record.
LEMMA AppendFrame ==
  ASSUME NEW after, NEW ok, Appended(after, ok)
  PROVE  /\ disk' \in {disk, after} /\ (ok => disk' = after /\ faults' = faults)
         /\ SameQueues(after) => SameQueues(disk')
         /\ SameTables(after) => SameTables(disk')
<1>1. disk' \in {disk, after} /\ (ok => disk' = after /\ faults' = faults)
  BY ZenonT(30) DEF Appended
<1> QED
  BY ZenonT(30), <1>1 DEF SameQueues, SameTables

\* The steps that log something about a queue.
LEMMA QueueRecords ==
  ASSUME Typed, [Next]_vars
  PROVE  \/ SameQueues(disk')
         \/ \E q \in Queues, ok \in BOOLEAN : CreateQueue(q, ok) \/ DeleteBegin(q, ok)
         \/ \E m \in Msgs, ok \in BOOLEAN : PublishStore(m, ok)
         \/ \E q \in Queues, ok \in BOOLEAN : \E c \in pending[q] : Consume(q, c, ok)
<1>0. disk \in Disks
  BY ZenonT(30) DEF Typed, LogType
<1> DEFINE Same == SameQueues(disk')
<1>1. UNCHANGED disk => Same
  BY ZenonT(30) DEF SameQueues
<1>2. Silent \/ Crash => Same
  BY ZenonT(30), <1>1, SilentFrame DEF Crash
<1>3. ASSUME NEW ok, NEW e, BootExchange(e, ok) \/ DeleteExchange(e, ok) PROVE Same
  BY ZenonT(30), <1>0, <1>3, RecordFrames, AppendFrame DEF BootExchange, DeleteExchange
<1>4. ASSUME NEW ok, NEW e, NEW t, CreateExchange(e, t, ok) PROVE Same
  BY ZenonT(30), <1>0, <1>4, RecordFrames, AppendFrame DEF CreateExchange
<1>5. ASSUME NEW ok, BootBind(ok) \/ BootReady(ok) PROVE Same
  BY ZenonT(30), <1>0, <1>5, RecordFrames, AppendFrame DEF BootBind, BootReady
<1>6. ASSUME NEW ok, NEW e, NEW q, NEW key, BindQueue(e, q, key, ok) \/ UnbindQueue(e, q, key, ok)
      PROVE  Same
  BY ZenonT(30), <1>0, <1>6, RecordFrames, AppendFrame DEF BindQueue, UnbindQueue
<1>7. ASSUME NEW ok, NEW e, DeleteUnbind(e, ok) PROVE Same
  <2>1. UNCHANGED disk \/ Appended(QueueUnbinded(e, NoKey, deleting), ok)
    BY ZenonT(30), <1>7 DEF DeleteUnbind
  <2> QED
    BY ZenonT(30), <1>0, <1>1, <2>1, RecordFrames, AppendFrame
<1> HIDE DEF Same
<1>8. QED
  BY ZenonT(30), <1>2, <1>3, <1>4, <1>5, <1>6, <1>7 DEF Next, Boot, Declare, Traffic, Silent, Same

\* The steps that log something about an exchange.
LEMMA TableRecords ==
  ASSUME Typed, [Next]_vars
  PROVE  \/ SameTables(disk')
         \/ \E ok \in BOOLEAN : BootBind(ok) \/ BootReady(ok)
         \/ \E e \in Exchanges, ok \in BOOLEAN :
              \/ BootExchange(e, ok) \/ DeleteExchange(e, ok) \/ DeleteUnbind(e, ok)
              \/ \E t \in Kinds : CreateExchange(e, t, ok)
              \/ \E q \in Queues, key \in Keys : BindQueue(e, q, key, ok)
              \/ \E q \in Queues, key \in Keys \cup {NoKey} : UnbindQueue(e, q, key, ok)
<1>0. disk \in Disks
  BY ZenonT(30) DEF Typed, LogType
<1> DEFINE Same == SameTables(disk')
<1>1. UNCHANGED disk => Same
  BY ZenonT(30) DEF SameTables
<1>2. Silent \/ Crash => Same
  BY ZenonT(30), <1>1, SilentFrame DEF Crash
<1>3. ASSUME NEW ok, NEW q, CreateQueue(q, ok) \/ DeleteBegin(q, ok) PROVE Same
  BY ZenonT(30), <1>0, <1>3, RecordFrames, AppendFrame DEF CreateQueue, DeleteBegin
<1>4. ASSUME NEW ok, NEW m, PublishStore(m, ok) PROVE Same
  <2>1. \/ UNCHANGED disk
        \/ \E q, c : Appended(Published(q, c), ok)
    BY ZenonT(30), <1>4 DEF PublishStore
  <2> QED
    BY ZenonT(30), <1>0, <1>1, <2>1, RecordFrames, AppendFrame
<1>5. ASSUME NEW q, NEW c, NEW ok, Consume(q, c, ok) PROVE Same
  BY ZenonT(30), <1>0, <1>5, RecordFrames, AppendFrame DEF Consume
<1> HIDE DEF Same
<1>6. QED
  BY ZenonT(30), <1>2, <1>3, <1>4, <1>5 DEF Next, Boot, Declare, Traffic, Silent, Same

-----------------------------------------------------------------------------
(* No copy is lost. *)

\* Only DeleteQueue and the end of the process remove a queue.
LEMMA QueueStands ==
  ASSUME Typed, [Next]_vars, NEW q \in Queues, boot # "down", queues[q] # "none", ~Crash
  PROVE  queues'[q] # "none" \/ DeleteBegin(q, TRUE)
<1>0. queues \in [Queues -> {"none", "open", "closed"}]
  BY ZenonT(30) DEF Typed, QueueType
<1>1. ASSUME NEW p \in Queues, NEW ok \in BOOLEAN, CreateQueue(p, ok) PROVE queues'[q] # "none"
  BY ZenonT(30), <1>0, <1>1 DEF CreateQueue
<1>2. ASSUME NEW p \in Queues, NEW ok \in BOOLEAN, DeleteBegin(p, ok)
      PROVE  queues'[q] # "none" \/ DeleteBegin(q, TRUE)
  <2>1. queues' = [queues EXCEPT ![p] = IF ok THEN "none" ELSE "closed"]
    BY ZenonT(30), <1>2 DEF DeleteBegin
  <2>2. CASE p = q /\ ok
    <3>1. ok = TRUE
      BY ZenonT(30), <2>2
    <3> QED
      BY ZenonT(30), <1>2, <2>2, <3>1
  <2>3. CASE ~(p = q /\ ok)
    BY ZenonT(30), <1>0, <2>1, <2>3
  <2> QED
    BY ZenonT(30), <2>2, <2>3
<1>3. ASSUME NEW p \in Queues, ShutdownQueue(p) PROVE queues'[q] # "none"
  BY ZenonT(30), <1>0, <1>3 DEF ShutdownQueue
<1>4. ASSUME NEW m, NEW ok, PublishStore(m, ok) PROVE queues'[q] # "none"
  BY ZenonT(30), <1>4 DEF PublishStore
<1>5. ASSUME NEW p, NEW c, NEW ok, Consume(p, c, ok) PROVE queues'[q] # "none"
  BY ZenonT(30), <1>5 DEF Consume
<1>6. ShutdownBegin => queues'[q] # "none"
  BY ZenonT(30) DEF ShutdownBegin
<1>7. ~BootLoad
  BY ZenonT(30) DEF BootLoad
<1> QED
  BY ZenonT(30), <1>1, <1>2, <1>3, <1>4, <1>5, <1>6, <1>7, QueueKinds

\* A Publish that has looked up its queue and was not told that the runtime is
\* closed looks at a queue that is registered.
LookedUp ==
  \A m \in Msgs : pub[m].pc = "store" /\ ~pub[m].stale => queues[Head(pub[m].todo).queue] # "none"

\* DeleteQueue marks the calls that hold the runtime it closes.
LEMMA LookedUpStep ==
  ASSUME LookedUp, Typed, [Next]_vars
  PROVE  LookedUp'
<1> SUFFICES ASSUME NEW m \in Msgs, pub'[m].pc = "store", ~pub'[m].stale
             PROVE  queues'[Head(pub'[m].todo).queue] # "none"
  BY ZenonT(30) DEF LookedUp
<1>0. PubMove(m) /\ pub[m] \in Calls
  BY ZenonT(30), PubStep DEF Typed, PubSound
<1>1. CASE pub'[m] = pub[m] /\ ~Crash
  <2> DEFINE q == Head(pub[m].todo).queue
  <2>1. boot = "up" /\ q \in Queues /\ queues[q] # "none"
    BY ZenonT(30), <1>1, AtHand DEF LookedUp
  <2>2. ~DeleteBegin(q, TRUE)
    <3> SUFFICES ASSUME DeleteBegin(q, TRUE) PROVE FALSE
      BY ZenonT(30)
    <3>1. pub'[m] = [pub[m] EXCEPT !.stale = TRUE]
      BY ZenonT(30), <1>1 DEF DeleteBegin, Outdated
    <3> QED
      BY ZenonT(30), <1>0, <3>1 DEF Calls
  <2> QED
    BY ZenonT(30), <1>1, <2>1, <2>2, QueueStands
<1>2. CASE FindsQueue(m)
  BY ZenonT(30), <1>0, <1>2 DEF FindsQueue, Calls
<1>3. ~Fails(m) /\ ~GetsRouted(m)
  BY ZenonT(30) DEF Fails, GetsRouted
<1>4. ~GoesStale(m)
  BY ZenonT(30), <1>0 DEF GoesStale, Calls
<1>5. ~StoresCopy(m)
  BY ZenonT(30), <1>0 DEF StoresCopy, Calls
<1> QED
  BY ZenonT(30), <1>0, <1>1, <1>2, <1>3, <1>4, <1>5 DEF PubMove

\* NewBroker begins with Load, and ends with it if the log cannot be read.
LEMMA StaysDown ==
  ASSUME Typed, [Next]_vars, boot \in {"down", "unreadable"}, ~BootLoad
  PROVE  boot' \in {"down", "unreadable"}
<1>1. \/ UNCHANGED <<booting, deletion>> \/ BootUnreadable \/ Crash
      => boot' \in {"down", "unreadable"}
  BY ZenonT(30) DEF BootUnreadable, Crash
<1>2. ~BootRefused /\ \A ok : ~BootBind(ok) /\ ~BootReady(ok)
  BY ZenonT(30) DEF BootRefused, BootBind, BootReady
<1>3. \A e, q, ok : ~BootExchange(e, ok) /\ ~DeleteBegin(q, ok)
  BY ZenonT(30) DEF BootExchange, DeleteBegin, Free
<1>4. ASSUME NEW e, NEW ok, DeleteUnbind(e, ok) PROVE boot' = boot
  BY ZenonT(30), <1>4 DEF DeleteUnbind
<1> QED
  BY ZenonT(30), <1>1, <1>2, <1>3, <1>4, BootKinds

\* A copy is in the log and, once the log is loaded, in its queue.
Safe(x) ==
  /\ x[2] \in disk.pending[x[1]] /\ x[1] \in disk.queues
  /\ boot \notin {"down", "unreadable"} => x[2] \in pending[x[1]] /\ queues[x[1]] # "none"

\* A copy that a queue accepted and nobody consumed is in the log and, once the
\* log is loaded, in its queue, for any number of queues and of calls that publish,
\* delete, crash and restart in any order, and whichever appends fail.
THEOREM NoCopyLost == Spec => []CopiesKept
\* What the steps on queues do to the log and to memory, in one place.
<1>StoreEffect.
      ASSUME Typed, LookedUp, NEW m \in Msgs, NEW ok \in BOOLEAN, PublishStore(m, ok)
      PROVE  LET b == Head(pub[m].todo)
                 c == [msg |-> m, key |-> b.key]
             IN /\ b.queue \in Queues /\ c \in Copies /\ UNCHANGED <<queues, consumed, boot>>
                /\ \/ UNCHANGED <<pending, stored>> /\ SameQueues(disk')
                   \/ /\ UNCHANGED <<pending, stored>> /\ queues[b.queue] # "none"
                      /\ disk'.queues = disk.queues \cup {b.queue} /\ faults' = faults + 1
                      /\ disk'.pending = [disk.pending EXCEPT ![b.queue] = @ \cup {c}]
                   \/ /\ queues[b.queue] # "none" /\ faults' = faults
                      /\ disk'.queues = disk.queues \cup {b.queue}
                      /\ disk'.pending = [disk.pending EXCEPT ![b.queue] = @ \cup {c}]
                      /\ pending' = [pending EXCEPT ![b.queue] = @ \cup {c}]
                      /\ stored' = stored \cup {<<b.queue, c>>}
  <2> USE <1>StoreEffect
  <2> DEFINE b == Head(pub[m].todo)
             c == [msg |-> m, key |-> b.key]
  <2>1. b.queue \in Queues /\ c \in Copies /\ UNCHANGED <<queues, consumed, boot>> /\ disk \in Disks
    BY ZenonT(30), AtHand DEF PublishStore, Typed, LogType
  <2>2. CASE RuntimeClosed(m)
    BY ZenonT(30), <2>1, <2>2 DEF PublishStore, SameQueues
  <2>3. CASE ~RuntimeClosed(m)
    <3>1. queues[b.queue] # "none"
      BY ZenonT(30), <2>3 DEF RuntimeClosed, LookedUp, PublishStore
    <3>2. /\ Appended(Published(b.queue, c), ok)
          /\ ok => /\ pending' = [pending EXCEPT ![b.queue] = @ \cup {c}]
                   /\ stored' = stored \cup {<<b.queue, c>>}
          /\ ~ok => UNCHANGED <<pending, stored>>
      BY ZenonT(30), <2>3 DEF PublishStore
    <3>3. /\ Published(b.queue, c).queues = disk.queues \cup {b.queue}
          /\ Published(b.queue, c).pending = [disk.pending EXCEPT ![b.queue] = @ \cup {c}]
      BY ZenonT(30), <2>1, RecordValues
    <3> HIDE DEF b, c
    <3>4. \/ disk' = Published(b.queue, c) /\ faults' = faults /\ ok
          \/ disk' \in {disk, Published(b.queue, c)} /\ faults' = faults + 1 /\ ~ok
      BY ZenonT(30), <3>2 DEF Appended
    <3>5. UNCHANGED disk => SameQueues(disk')
      BY ZenonT(30) DEF SameQueues
    <3> QED
      BY ZenonT(30), <2>1, <3>1, <3>2, <3>3, <3>4, <3>5 DEF b, c
  <2> QED
    BY ZenonT(30), <2>2, <2>3
\* Only Publish stores copies, and what was consumed stays consumed.
<1>StoredBy.
      ASSUME [Next]_vars
      PROVE  /\ consumed \subseteq consumed'
             /\ stored' = stored \/ \E m \in Msgs, ok \in BOOLEAN : PublishStore(m, ok)
  <2> USE <1>StoredBy
  <2>1. ASSUME NEW m, NEW ok, PublishStore(m, ok) PROVE consumed' = consumed
    BY ZenonT(30), <2>1 DEF PublishStore
  <2>2. ASSUME NEW q, NEW c, NEW ok, Consume(q, c, ok) PROVE stored' = stored /\ consumed \subseteq consumed'
    BY ZenonT(30), <2>2 DEF Consume
  <2>3. ASSUME NEW q, NEW ok, DeleteBegin(q, ok) PROVE UNCHANGED <<stored, consumed>>
    BY ZenonT(30), <2>3 DEF DeleteBegin
  <2>4. ASSUME NEW e, NEW q, NEW key, NEW ok, BindQueue(e, q, key, ok) \/ UnbindQueue(e, q, key, ok)
        PROVE  UNCHANGED <<stored, consumed>>
    BY ZenonT(30), <2>4 DEF BindQueue, UnbindQueue
  <2>5. Crash \/ UNCHANGED hist \/ (\E e, ok : DeleteUnbind(e, ok)) => UNCHANGED <<stored, consumed>>
    BY ZenonT(30) DEF Crash, DeleteUnbind
  <2> QED
    BY ZenonT(30), <2>1, <2>2, <2>3, <2>4, <2>5, HistKinds
\* A copy that is safe stays so, unless somebody consumes it.
<1>StaysSafe.
      ASSUME Typed, LookedUp, [Next]_vars, NEW x \in Queues \X Copies, Safe(x), x \notin consumed'
      PROVE  Safe(x)'
  <2> USE <1>StaysSafe
  <2>0. /\ queues \in [Queues -> {"none", "open", "closed"}] /\ pending \in [Queues -> SUBSET Copies]
        /\ x[1] \in Queues /\ x[2] \in Copies /\ x = <<x[1], x[2]>> /\ disk \in Disks
        /\ disk.pending \in [Queues -> SUBSET Copies] /\ disk.queues \in SUBSET Queues
    BY DEF Typed, QueueType, LogType, Disks
  <2> DEFINE q == x[1]
             c == x[2]
  <2>1. ASSUME NEW p \in Queues, NEW ok \in BOOLEAN, CreateQueue(p, ok) PROVE Safe(x)'
    <3>1. boot = "up" /\ boot' = boot /\ queues[p] = "none" /\ p # q
      BY ZenonT(30), <2>1 DEF CreateQueue, Free, Safe
    <3>2. disk' \in {disk, QueueCreated(p)}
      BY ZenonT(30), <2>1, AppendFrame DEF CreateQueue
    <3>3. disk'.pending = disk.pending /\ disk.queues \subseteq disk'.queues
      <4>1. QueueCreated(p).queues = disk.queues \cup {p} /\ QueueCreated(p).pending = disk.pending
        BY ZenonT(30), <2>0, RecordValues
      <4> QED
        BY ZenonT(30), <3>2, <4>1
    <3>4. queues'[q] = queues[q] /\ pending'[q] = pending[q]
      BY ZenonT(30), <2>0, <2>1, <3>1 DEF CreateQueue
    <3> QED
      BY ZenonT(30), <3>1, <3>3, <3>4 DEF Safe
  <2>2. ASSUME NEW p \in Queues, NEW ok \in BOOLEAN, DeleteBegin(p, ok) PROVE Safe(x)'
    <3>1. boot = "up" /\ boot' = boot /\ pending[p] = {} /\ p # q /\ pending' = pending
      BY ZenonT(30), <2>2 DEF DeleteBegin, Free, Safe, Empty
    <3>2. disk' \in {disk, QueueDeleted(p)}
      BY ZenonT(30), <2>2, AppendFrame DEF DeleteBegin
    <3>3. /\ disk'.pending[q] = disk.pending[q] /\ (q \in disk.queues => q \in disk'.queues)
      <4>1. /\ QueueDeleted(p).queues = disk.queues \ {p}
            /\ QueueDeleted(p).pending = [disk.pending EXCEPT ![p] = {}]
        BY ZenonT(30), <2>0, RecordValues
      <4> QED
        BY ZenonT(30), <2>0, <3>1, <3>2, <4>1
    <3>4. queues'[q] = queues[q]
      BY ZenonT(30), <2>0, <2>2, <3>1 DEF DeleteBegin
    <3> QED
      BY ZenonT(30), <3>1, <3>3, <3>4 DEF Safe
  <2>3. ASSUME NEW m \in Msgs, NEW ok \in BOOLEAN, PublishStore(m, ok) PROVE Safe(x)'
    <3> DEFINE b == Head(pub[m].todo)
               d == [msg |-> m, key |-> b.key]
    <3>1. /\ UNCHANGED <<queues, boot>> /\ b.queue \in Queues
          /\ \/ pending' = pending
             \/ pending' = [pending EXCEPT ![b.queue] = @ \cup {d}]
          /\ \/ SameQueues(disk')
             \/ /\ disk'.queues = disk.queues \cup {b.queue}
                /\ disk'.pending = [disk.pending EXCEPT ![b.queue] = @ \cup {d}]
      BY ZenonT(30), <2>3, <1>StoreEffect
    <3> HIDE DEF b, d
    <3>2. pending[q] \subseteq pending'[q]
      BY <2>0, <3>1
    <3>3. disk.queues \subseteq disk'.queues /\ disk.pending[q] \subseteq disk'.pending[q]
      BY <2>0, <3>1 DEF SameQueues
    <3> QED
      BY ZenonT(30), <3>1, <3>2, <3>3 DEF Safe
  <2>4. ASSUME NEW p \in Queues, NEW ok \in BOOLEAN, NEW d \in pending[p], Consume(p, d, ok)
        PROVE  Safe(x)'
    <3>1. boot' = boot /\ queues' = queues /\ <<p, d>> \in consumed'
      BY ZenonT(30), <2>4 DEF Consume
    <3>2. ~(p = q /\ d = c)
      BY ZenonT(30), <2>0, <3>1
    <3>3. disk' \in {disk, Acknowledged(p, d)}
      BY ZenonT(30), <2>4, AppendFrame DEF Consume
    <3>4. disk.queues \subseteq disk'.queues /\ (c \in disk.pending[q] => c \in disk'.pending[q])
      <4>1. /\ Acknowledged(p, d).queues = disk.queues \cup {p}
            /\ Acknowledged(p, d).pending = [disk.pending EXCEPT ![p] = @ \ {d}]
        BY ZenonT(30), <2>0, RecordValues
      <4> QED
        BY <2>0, <3>2, <3>3, <4>1
    <3>5. c \in pending[q] => c \in pending'[q]
      BY ZenonT(30), <2>0, <2>4, <3>2 DEF Consume
    <3> QED
      BY ZenonT(30), <3>1, <3>4, <3>5 DEF Safe
  <2>5. CASE SameQueues(disk')
    <3>1. /\ disk'.queues = disk.queues /\ disk'.pending = disk.pending
          /\ c \in disk.pending[q] /\ q \in disk.queues
      BY ZenonT(30), <2>5 DEF SameQueues, Safe
    <3>2. CASE BootLoad
      BY ZenonT(30), <2>0, <3>1, <3>2 DEF BootLoad, Safe
    <3>3. CASE Crash
      BY ZenonT(30), <3>1, <3>3 DEF Crash, Safe
    <3>4. CASE ~BootLoad /\ ~Crash
      <4>1. boot' \notin {"down", "unreadable"} => boot \notin {"down", "unreadable"}
        BY ZenonT(30), <3>4, StaysDown
      <4>2. CASE UNCHANGED <<queues, pending, closed>>
        BY ZenonT(30), <3>1, <4>1, <4>2 DEF Safe
      <4>3. CASE ShutdownBegin
        BY ZenonT(30), <3>1, <4>1, <4>3 DEF ShutdownBegin, Safe
      <4>4. ASSUME NEW p \in Queues, ShutdownQueue(p) PROVE Safe(x)'
        BY ZenonT(30), <2>0, <3>1, <4>1, <4>4 DEF ShutdownQueue, Safe
      <4> QED
        BY ZenonT(30), <2>1, <2>2, <2>3, <2>4, <3>4, <4>2, <4>3, <4>4, QueueKinds
    <3> QED
      BY ZenonT(30), <3>2, <3>3, <3>4
  <2> QED
    BY ZenonT(30), <2>1, <2>2, <2>3, <2>4, <2>5, QueueRecords
<1> DEFINE Inv == LookedUp /\ \A x \in stored : x \notin consumed => Safe(x)
<1>1. Init => Inv
  <2>1. Init => LookedUp
    BY DEF Init, LookedUp, Idle
  <2> QED
    BY ZenonT(30), <2>1 DEF Init
<1>2. Inv /\ Typed /\ [Next]_vars => Inv'
  <2> SUFFICES ASSUME Inv, Typed, [Next]_vars PROVE Inv'
    BY ZenonT(30)
  <2>1. LookedUp'
    BY ZenonT(30), LookedUpStep
  <2>2. ASSUME NEW x \in stored', x \notin consumed' PROVE Safe(x)'
    <3>1. CASE x \in stored
      <4>1. x \in Queues \X Copies /\ x \notin consumed
        BY ZenonT(30), <2>2, <3>1, <1>StoredBy DEF Typed, HistType
      <4> QED
        BY ZenonT(30), <2>2, <3>1, <4>1, <1>StaysSafe
    <3>2. CASE x \notin stored
      <4>1. PICK m \in Msgs, ok \in BOOLEAN : PublishStore(m, ok)
        BY ZenonT(30), <2>2, <3>2, <1>StoredBy
      <4> DEFINE b == Head(pub[m].todo)
                 c == [msg |-> m, key |-> b.key]
      <4>2. /\ b.queue \in Queues /\ c \in Copies /\ queues' = queues
            /\ stored' = stored \/ /\ queues[b.queue] # "none"
                                   /\ disk'.queues = disk.queues \cup {b.queue}
                                   /\ disk'.pending = [disk.pending EXCEPT ![b.queue] = @ \cup {c}]
                                   /\ pending' = [pending EXCEPT ![b.queue] = @ \cup {c}]
                                   /\ stored' = stored \cup {<<b.queue, c>>}
        BY ZenonT(30), <4>1, <1>StoreEffect
      <4> HIDE DEF b, c
      <4>3. x = <<b.queue, c>>
        BY ZenonT(30), <2>2, <3>2, <4>2
      <4>4. disk.pending \in [Queues -> SUBSET Copies] /\ pending \in [Queues -> SUBSET Copies]
        BY ZenonT(30) DEF Typed, QueueType, LogType, Disks
      <4>5. /\ queues'[b.queue] # "none" /\ b.queue \in disk'.queues
            /\ c \in disk'.pending[b.queue] /\ c \in pending'[b.queue]
        BY <2>2, <3>2, <4>2, <4>4
      <4>6. x[1] = b.queue /\ x[2] = c
        BY ZenonT(30), <4>3
      <4> QED
        BY ZenonT(30), <4>5, <4>6 DEF Safe
    <3> QED
      BY ZenonT(30), <3>1, <3>2
  <2> QED
    BY ZenonT(30), <2>1, <2>2
<1>3. Inv /\ Typed => CopiesKept
  BY ZenonT(30) DEF CopiesKept, Safe, Existing, Typed, HistType
<1> QED
  BY <1>1, <1>2, <1>3, TypedInvariant, PTL DEF Spec
=============================================================================
