------------------------- MODULE RegistryLogProofs --------------------------
(***************************************************************************)
(* The log and the registry in memory describe each other through every    *)
(* mix of declarations, deletions, failed appends, crashes and restarts: a *)
(* restart refuses nothing that the log holds, the bindings name queues    *)
(* that exist, and an acknowledged Bind is still there.                    *)
(***************************************************************************)
EXTENDS RegistryProofs

USE DEF memory, booting, deletion, log, hist

\* A step that names no prover is given more time than the default.
USE SMTT(30), ZenonT(30)

-----------------------------------------------------------------------------
(* The shape of the log and of the tables, whatever fails. *)

\* A deleted queue has no messages in the log, an exchange that is not in the log
\* has no bindings there, and the default exchange is never logged.
DiskSound ==
  /\ \A q \in Queues : q \notin disk.queues => disk.pending[q] = {}
  /\ \A e \in Exchanges : disk.exchanges[e] = "none" => disk.bindings[e] = <<>>
  /\ disk.exchanges[DefaultExchange] = "none"

\* While NewBroker runs, the exchange whose bindings it restores exists, and an
\* exchange that is still to be created has no bindings yet.
BootSound ==
  /\ deleting # NoQueue => boot = "up"
  /\ boot = "down" => rest = <<>>
  /\ boot \in {"exchanges", "up"} => queues[DefaultQueue] # "none"
  /\ boot = "exchanges" =>
       /\ exchanges[DefaultExchange] # "none" /\ plan[DefaultExchange].type = "none"
       /\ rest # <<>> => exchanges[at] # "none" /\ at # DefaultExchange /\ plan[at].type = "none"
       /\ \A e \in Exchanges : IF plan[e].type = "none" THEN plan[e].list = <<>>
                                                        ELSE bindings[e] = <<>>

\* An exchange that does not exist has no bindings.
TableSound == \A e \in Exchanges : exchanges[e] = "none" => bindings[e] = <<>>

\* The log and the tables are well formed.
Sound == DiskSound /\ BootSound /\ TableSound

\* f with another value at e.
Changed(f, e, v) == [f EXCEPT ![e] = v]

\* Changed writes at e and nowhere else.
LEMMA ChangedAt ==
  ASSUME NEW f, NEW e \in DOMAIN f, NEW v
  PROVE  Changed(f, e, v)[e] = v /\ \A d \in DOMAIN f \ {e} : Changed(f, e, v)[d] = f[d]
  BY ZenonT(30) DEF Changed

\* What the records about an exchange say.
LEMMA ExchangeValues ==
  ASSUME disk \in Disks, NEW e \in Exchanges, NEW t
  PROVE  /\ ExchangeCreated(e, t).exchanges = Changed(disk.exchanges, e, t)
         /\ ExchangeCreated(e, t).bindings = Changed(disk.bindings, e, <<>>)
         /\ ExchangeDeleted(e).exchanges = Changed(disk.exchanges, e, "none")
         /\ ExchangeDeleted(e).bindings = Changed(disk.bindings, e, <<>>)
<1>1. /\ ExchangeCreated(e, t).exchanges = Changed(disk.exchanges, e, t)
      /\ ExchangeCreated(e, t).bindings = Changed(disk.bindings, e, <<>>)
  BY ZenonT(30) DEF ExchangeCreated, Disks, Changed
<1>2. /\ ExchangeDeleted(e).exchanges = Changed(disk.exchanges, e, "none")
      /\ ExchangeDeleted(e).bindings = Changed(disk.bindings, e, <<>>)
  BY ZenonT(30) DEF ExchangeDeleted, Disks, Changed
<1> QED
  BY ZenonT(30), <1>1, <1>2

\* What the records about a binding say.
LEMMA BindingValues ==
  ASSUME disk \in Disks, NEW e \in Exchanges, NEW key, NEW q
  PROVE  /\ QueueBinded(e, key, q).exchanges = disk.exchanges
         /\ disk.exchanges[e] = "none" => QueueBinded(e, key, q).bindings = disk.bindings
         /\ disk.exchanges[e] # "none" =>
              QueueBinded(e, key, q).bindings = Changed(disk.bindings, e, Bind(disk.bindings[e], key, q))
         /\ QueueUnbinded(e, key, q).exchanges = disk.exchanges
         /\ disk.exchanges[e] = "none" => QueueUnbinded(e, key, q).bindings = disk.bindings
         /\ disk.exchanges[e] # "none" =>
              QueueUnbinded(e, key, q).bindings = Changed(disk.bindings, e, Unbind(disk.bindings[e], key, q))
<1>1. /\ QueueBinded(e, key, q).exchanges = disk.exchanges
      /\ disk.exchanges[e] = "none" => QueueBinded(e, key, q).bindings = disk.bindings
      /\ disk.exchanges[e] # "none" =>
           QueueBinded(e, key, q).bindings = Changed(disk.bindings, e, Bind(disk.bindings[e], key, q))
  BY ZenonT(30) DEF QueueBinded, Disks, Changed
<1>2. /\ QueueUnbinded(e, key, q).exchanges = disk.exchanges
      /\ disk.exchanges[e] = "none" => QueueUnbinded(e, key, q).bindings = disk.bindings
      /\ disk.exchanges[e] # "none" =>
           QueueUnbinded(e, key, q).bindings = Changed(disk.bindings, e, Unbind(disk.bindings[e], key, q))
  BY ZenonT(30) DEF QueueUnbinded, Disks, Changed
<1> QED
  BY ZenonT(30), <1>1, <1>2

\* The first binding that NewBroker has still to restore.
LEMMA RestHead ==
  ASSUME Typed, rest # <<>>
  PROVE  /\ Head(rest) \in Binding /\ Head(rest).queue \in Queues /\ Head(rest).key \in Keys
         /\ Head(rest) = [queue |-> Head(rest).queue, key |-> Head(rest).key]
         /\ at \in Exchanges /\ rest \in Seq(Binding) /\ Tail(rest) \in Seq(Binding)
         /\ Members(rest) = {Head(rest)} \cup Members(Tail(rest))
         /\ Distinct(rest) => Distinct(Tail(rest)) /\ Head(rest) \notin Members(Tail(rest))
<1>1. rest \in Seq(Binding) /\ at \in Exchanges
  BY ZenonT(30) DEF Typed, BootType
<1>2. /\ Tail(rest) \in Seq(Binding) /\ Head(rest) \in Binding
      /\ Members(rest) = {Head(rest)} \cup Members(Tail(rest))
      /\ Distinct(rest) => Distinct(Tail(rest)) /\ Head(rest) \notin Members(Tail(rest))
  BY ZenonT(30), <1>1, MembersTail
<1>3. ASSUME NEW b \in Binding PROVE b.queue \in Queues /\ b.key \in Keys /\ b = [queue |-> b.queue, key |-> b.key]
  BY ZenonT(30) DEF Binding
<1> QED
  BY ZenonT(30), <1>1, <1>2, <1>3

\* The shape of an append of a record about exchange e.
TableMove(e) ==
  /\ \A d \in Exchanges \ {e} :
       disk'.exchanges[d] = disk.exchanges[d] /\ disk'.bindings[d] = disk.bindings[d]
  /\ \/ /\ disk'.exchanges[e] = disk.exchanges[e]
        /\ disk.exchanges[e] # "none" \/ disk'.bindings[e] = disk.bindings[e]
     \/ e # DefaultExchange /\ disk'.bindings[e] = <<>>

\* A list with a selected binding is not empty.
LEMMA NotEmpty ==
  ASSUME NEW bs \in Seq(Binding), NEW key, NEW q, HasBinding(bs, key, q)
  PROVE  bs # <<>>
  BY ZenonT(30), HasMember, MembersEmpty

\* NewBroker only moves forward, and a crash starts it again.
LEMMA BootFlow ==
  ASSUME [Next]_vars
  PROVE  \/ Crash \/ BootLoad \/ boot' = boot \/ (boot = "down" /\ boot' = "unreadable")
         \/ boot = "exchanges" /\ boot' \in {"up", "refused", "failed"}
<1>1. CASE UNCHANGED <<booting, deletion>>
  BY ZenonT(30), <1>1
<1>2. ASSUME NEW ok \in BOOLEAN, BootBind(ok) \/ BootReady(ok)
      PROVE  boot' = boot \/ (boot = "exchanges" /\ boot' \in {"up", "failed"})
  BY ZenonT(30), <1>2 DEF BootBind, BootReady
<1>3. ASSUME NEW e \in Exchanges, NEW ok \in BOOLEAN, BootExchange(e, ok) \/ DeleteUnbind(e, ok)
      PROVE  boot' = boot \/ (boot = "exchanges" /\ boot' \in {"up", "failed"})
  BY ZenonT(30), <1>3 DEF BootExchange, DeleteUnbind
<1>4. ASSUME NEW q \in Queues, NEW ok \in BOOLEAN, DeleteBegin(q, ok) PROVE boot' = boot
  BY ZenonT(30), <1>4 DEF DeleteBegin
<1>5. CASE BootUnreadable \/ BootRefused
  BY ZenonT(30), <1>5 DEF BootUnreadable, BootRefused
<1> QED
  BY ZenonT(30), <1>1, <1>2, <1>3, <1>4, <1>5, BootKinds

\* The steps after which NewBroker is still restoring exchanges.
LEMMA BootStep ==
  ASSUME BootSound, [Next]_vars, boot' = "exchanges"
  PROVE  \/ BootLoad
         \/ /\ boot = "exchanges"
            /\ \/ UNCHANGED <<exchanges, bindings, booting, deletion>>
               \/ BootBind(TRUE) \/ \E e \in Exchanges : BootExchange(e, TRUE)
<1>0. ~Crash
  BY ZenonT(30) DEF Crash
<1>1. boot = "exchanges" \/ BootLoad
  BY ZenonT(30), <1>0, BootFlow
<1>2. ASSUME boot = "exchanges", UNCHANGED <<booting, deletion>>
      PROVE  \/ UNCHANGED <<exchanges, bindings>> \/ BootBind(TRUE)
             \/ \E e \in Exchanges : BootExchange(e, TRUE)
  <2>1. deleting = NoQueue /\ ~Free
    BY ZenonT(30), <1>2 DEF BootSound, Free
  <2>2. ~BootLoad
    BY ZenonT(30), <1>2 DEF BootLoad
  <2>3. ASSUME NEW ok \in BOOLEAN, BootBind(ok) \/ BootReady(ok) PROVE BootBind(TRUE)
    BY ZenonT(30), <1>2, <2>3 DEF BootBind, BootReady
  <2>4. ASSUME NEW e \in Exchanges, NEW ok \in BOOLEAN, BootExchange(e, ok) PROVE BootExchange(e, TRUE)
    BY ZenonT(30), <1>2, <2>4 DEF BootExchange
  <2>5. ASSUME NEW e \in Exchanges, NEW ok \in BOOLEAN PROVE ~DeleteExchange(e, ok) /\ ~DeleteUnbind(e, ok)
    BY ZenonT(30), <2>1 DEF DeleteExchange, DeleteUnbind
  <2>6. ASSUME NEW e \in Exchanges, NEW ok \in BOOLEAN, NEW t, NEW q, NEW key
        PROVE  ~CreateExchange(e, t, ok) /\ ~BindQueue(e, q, key, ok) /\ ~UnbindQueue(e, q, key, ok)
    BY ZenonT(30), <2>1 DEF CreateExchange, BindQueue, UnbindQueue
  <2> QED
    BY ZenonT(30), <1>0, <2>2, <2>3, <2>4, <2>5, <2>6, TableKinds
<1>3. ASSUME NEW ok \in BOOLEAN, BootBind(ok) \/ BootReady(ok) PROVE BootBind(TRUE)
  BY ZenonT(30), <1>3 DEF BootBind, BootReady
<1>4. ASSUME NEW e \in Exchanges, NEW ok \in BOOLEAN, BootExchange(e, ok) PROVE BootExchange(e, TRUE)
  BY ZenonT(30), <1>4 DEF BootExchange
<1>5. ~BootUnreadable /\ ~BootRefused
  BY ZenonT(30) DEF BootUnreadable, BootRefused
<1>6. ASSUME NEW e \in Exchanges, NEW ok \in BOOLEAN, boot = "exchanges" PROVE ~DeleteUnbind(e, ok)
  BY ZenonT(30), <1>6 DEF BootSound, DeleteUnbind
<1>7. ASSUME NEW q \in Queues, NEW ok \in BOOLEAN, boot = "exchanges" PROVE ~DeleteBegin(q, ok)
  BY ZenonT(30), <1>7 DEF DeleteBegin, Free
<1> QED
  BY ZenonT(30), <1>0, <1>1, <1>2, <1>3, <1>4, <1>5, <1>6, <1>7, BootKinds

\* Log and tables are well formed in every state, also after a failed append.
LEMMA SoundInvariant == Spec => [](Sound /\ LookedUp)
\* Binding and unbinding records.
<1>BindMove.
      ASSUME disk \in Disks, NEW e \in Exchanges, NEW key, NEW q, NEW ok,
             Appended(QueueBinded(e, key, q), ok) \/ Appended(QueueUnbinded(e, key, q), ok)
      PROVE  TableMove(e)
  <2> USE <1>BindMove
  <2>0. DOMAIN disk.exchanges = Exchanges /\ DOMAIN disk.bindings = Exchanges
    BY ZenonT(30) DEF Disks
  <2>1. disk' \in {disk, QueueBinded(e, key, q), QueueUnbinded(e, key, q)}
    BY ZenonT(30), AppendFrame
  <2>2. CASE disk' = disk
    BY ZenonT(30), <2>2 DEF TableMove
  <2>4. CASE disk' = QueueBinded(e, key, q)
    <3>1. /\ disk'.exchanges = disk.exchanges
          /\ disk.exchanges[e] = "none" => disk'.bindings = disk.bindings
          /\ disk.exchanges[e] # "none" =>
               disk'.bindings = Changed(disk.bindings, e, Bind(disk.bindings[e], key, q))
      BY ZenonT(30), <2>4, BindingValues
    <3> QED
      BY <2>0, <3>1, ChangedAt DEF TableMove
  <2>5. CASE disk' = QueueUnbinded(e, key, q)
    <3>1. /\ disk'.exchanges = disk.exchanges
          /\ disk.exchanges[e] = "none" => disk'.bindings = disk.bindings
          /\ disk.exchanges[e] # "none" =>
               disk'.bindings = Changed(disk.bindings, e, Unbind(disk.bindings[e], key, q))
      BY ZenonT(30), <2>5, BindingValues
    <3> QED
      BY <2>0, <3>1, ChangedAt DEF TableMove
  <2> QED
    BY ZenonT(30), <2>1, <2>2, <2>4, <2>5
\* Records about the exchange itself.
<1>ExchangeMove.
      ASSUME disk \in Disks, NEW e \in Exchanges, e # DefaultExchange, NEW t, NEW ok,
             Appended(ExchangeCreated(e, t), ok) \/ Appended(ExchangeDeleted(e), ok)
      PROVE  TableMove(e)
  <2> USE <1>ExchangeMove
  <2>0. DOMAIN disk.exchanges = Exchanges /\ DOMAIN disk.bindings = Exchanges
    BY ZenonT(30) DEF Disks
  <2>1. disk' \in {disk, ExchangeCreated(e, t), ExchangeDeleted(e)}
    BY ZenonT(30), AppendFrame
  <2>2. CASE disk' = disk
    BY ZenonT(30), <2>2 DEF TableMove
  <2>4. CASE disk' = ExchangeCreated(e, t)
    <3>1. /\ disk'.exchanges = Changed(disk.exchanges, e, t)
          /\ disk'.bindings = Changed(disk.bindings, e, <<>>)
      BY ZenonT(30), <2>4, ExchangeValues
    <3> QED
      BY <2>0, <3>1, ChangedAt DEF TableMove
  <2>5. CASE disk' = ExchangeDeleted(e)
    <3>1. /\ disk'.exchanges = Changed(disk.exchanges, e, "none")
          /\ disk'.bindings = Changed(disk.bindings, e, <<>>)
      BY ZenonT(30), <2>5, ExchangeValues
    <3> QED
      BY <2>0, <3>1, ChangedAt DEF TableMove
  <2> QED
    BY ZenonT(30), <2>1, <2>2, <2>4, <2>5
\* Every step moves the tables of the log like that.
<1>DiskMoves.
      ASSUME Typed, BootSound, [Next]_vars
      PROVE  SameTables(disk') \/ \E e \in Exchanges : TableMove(e)
  <2> USE <1>DiskMoves
  <2>0. disk \in Disks /\ DefaultExchange \in Exchanges
    BY ZenonT(30), NameAssumption DEF Typed, LogType
  <2>1. ASSUME NEW ok \in BOOLEAN, BootBind(ok) PROVE \E e \in Exchanges : TableMove(e)
    <3>1. at \in Exchanges
      BY ZenonT(30) DEF Typed, BootType
    <3> QED
      BY ZenonT(30), <2>0, <2>1, <3>1, <1>BindMove DEF BootBind
  <2>2. ASSUME NEW ok \in BOOLEAN, BootReady(ok) PROVE \E e \in Exchanges : TableMove(e)
    BY ZenonT(30), <2>0, <2>2, <1>BindMove DEF BootReady
  <2>3. ASSUME NEW e \in Exchanges, NEW ok \in BOOLEAN, BootExchange(e, ok) PROVE TableMove(e)
    <3>1. e # DefaultExchange
      BY ZenonT(30), <2>3 DEF BootExchange, BootSound
    <3> QED
      BY ZenonT(30), <2>0, <2>3, <3>1, <1>ExchangeMove DEF BootExchange
  <2>4. ASSUME NEW e \in Exchanges, NEW ok \in BOOLEAN, DeleteExchange(e, ok) PROVE TableMove(e)
    BY ZenonT(30), <2>0, <2>4, <1>ExchangeMove DEF DeleteExchange, MayDeleteExchange
  <2>5. ASSUME NEW e \in Exchanges, NEW t, NEW ok \in BOOLEAN, CreateExchange(e, t, ok) PROVE TableMove(e)
    BY ZenonT(30), <2>0, <2>5, <1>ExchangeMove DEF CreateExchange
  <2>6. ASSUME NEW e \in Exchanges, NEW q, NEW key, NEW ok \in BOOLEAN,
               BindQueue(e, q, key, ok) \/ UnbindQueue(e, q, key, ok)
        PROVE  TableMove(e)
    BY ZenonT(30), <2>0, <2>6, <1>BindMove DEF BindQueue, UnbindQueue
  <2>7. ASSUME NEW e \in Exchanges, NEW ok \in BOOLEAN, DeleteUnbind(e, ok) PROVE TableMove(e)
    <3>1. disk' = disk \/ Appended(QueueUnbinded(e, NoKey, deleting), ok)
      BY ZenonT(30), <2>7 DEF DeleteUnbind
    <3>2. disk' = disk => TableMove(e)
      BY ZenonT(30) DEF TableMove
    <3> QED
      BY ZenonT(30), <2>0, <3>1, <3>2, <1>BindMove
  <2> QED
    BY ZenonT(30), <2>1, <2>2, <2>3, <2>4, <2>5, <2>6, <2>7, TableRecords
\* The two lists of the log that change when a record about queue q is appended.
<1>QueueMove.
      ASSUME disk \in Disks, NEW q \in Queues, NEW c,
             disk' \in {disk, QueueCreated(q), QueueDeleted(q), Published(q, c), Acknowledged(q, c)},
             NEW p \in Queues, p \notin disk.queues => disk.pending[p] = {}, p \notin disk'.queues
      PROVE  disk'.pending[p] = {}
  <2> USE <1>QueueMove
  <2>0. DOMAIN disk.pending = Queues
    BY ZenonT(30) DEF Disks
  <2>1. /\ QueueCreated(q).queues = disk.queues \cup {q} /\ QueueCreated(q).pending = disk.pending
        /\ QueueDeleted(q).queues = disk.queues \ {q}
        /\ QueueDeleted(q).pending = [disk.pending EXCEPT ![q] = {}]
        /\ Published(q, c).queues = disk.queues \cup {q}
        /\ Published(q, c).pending = [disk.pending EXCEPT ![q] = @ \cup {c}]
        /\ Acknowledged(q, c).queues = disk.queues \cup {q}
        /\ Acknowledged(q, c).pending = [disk.pending EXCEPT ![q] = @ \ {c}]
    BY ZenonT(30), RecordValues
  <2>2. CASE disk' = disk
    BY ZenonT(30), <2>2
  <2>3. CASE disk' = QueueCreated(q)
    BY ZenonT(30), <2>1, <2>3
  <2>4. CASE disk' = QueueDeleted(q)
    BY ZenonT(30), <2>0, <2>1, <2>4
  <2>5. CASE disk' = Published(q, c)
    BY ZenonT(30), <2>0, <2>1, <2>5
  <2>6. CASE disk' = Acknowledged(q, c)
    BY ZenonT(30), <2>0, <2>1, <2>6
  <2> QED
    BY ZenonT(30), <2>2, <2>3, <2>4, <2>5, <2>6
\* The shape of the log survives every step.
<1>DiskSoundStep.
      ASSUME Typed, DiskSound, BootSound, [Next]_vars
      PROVE  DiskSound'
  <2> USE <1>DiskSoundStep
  <2>0. disk \in Disks
    BY ZenonT(30) DEF Typed, LogType
  <2>1. ASSUME NEW p \in Queues, p \notin disk'.queues PROVE disk'.pending[p] = {}
    <3>0. p \notin disk.queues => disk.pending[p] = {}
      BY ZenonT(30) DEF DiskSound
    <3>1. CASE SameQueues(disk')
      BY ZenonT(30), <2>1, <3>0, <3>1 DEF SameQueues
    <3>2. ASSUME NEW q \in Queues, NEW ok \in BOOLEAN, CreateQueue(q, ok) \/ DeleteBegin(q, ok)
          PROVE  disk'.pending[p] = {}
      <4>1. disk' \in {disk, QueueCreated(q), QueueDeleted(q)}
        BY ZenonT(30), <3>2, AppendFrame DEF CreateQueue, DeleteBegin
      <4> QED
        BY ZenonT(30), <2>0, <2>1, <3>0, <4>1, <1>QueueMove
    <3>3. ASSUME NEW m \in Msgs, NEW ok \in BOOLEAN, PublishStore(m, ok) PROVE disk'.pending[p] = {}
      <4> DEFINE q == Head(pub[m].todo).queue
                 c == [msg |-> m, key |-> Head(pub[m].todo).key]
      <4>1. q \in Queues
        BY ZenonT(30), <3>3, AtHand DEF PublishStore
      <4>2. disk' \in {disk, Published(q, c)}
        BY ZenonT(30), <3>3, AppendFrame DEF PublishStore
      <4> HIDE DEF q, c
      <4> QED
        BY <2>0, <2>1, <3>0, <4>1, <4>2, <1>QueueMove
    <3>4. ASSUME NEW q \in Queues, NEW ok \in BOOLEAN, NEW c \in pending[q], Consume(q, c, ok)
          PROVE  disk'.pending[p] = {}
      <4>1. disk' \in {disk, Acknowledged(q, c)}
        BY ZenonT(30), <3>4, AppendFrame DEF Consume
      <4> QED
        BY <2>0, <2>1, <3>0, <4>1, <1>QueueMove
    <3> QED
      BY ZenonT(30), <3>1, <3>2, <3>3, <3>4, QueueRecords
  <2>2. /\ \A e \in Exchanges : disk'.exchanges[e] = "none" => disk'.bindings[e] = <<>>
        /\ disk'.exchanges[DefaultExchange] = "none"
    <3>0. DefaultExchange \in Exchanges
      BY ZenonT(30), NameAssumption
    <3>1. CASE SameTables(disk')
      BY ZenonT(30), <3>1 DEF SameTables, DiskSound
    <3>2. CASE \E e \in Exchanges : TableMove(e)
      BY ZenonT(30), <3>0, <3>2 DEF TableMove, DiskSound
    <3> QED
      BY ZenonT(30), <3>1, <3>2, <1>DiskMoves
  <2> QED
    BY ZenonT(30), <2>1, <2>2 DEF DiskSound
\* The tables of NewBroker keep their shape.
<1>BootSoundStep.
      ASSUME Typed, DiskSound, BootSound, [Next]_vars
      PROVE  BootSound'
  <2> USE <1>BootSoundStep
  <2>0. /\ DefaultExchange \in Exchanges /\ DefaultQueue \in Queues
        /\ DOMAIN plan = Exchanges /\ DOMAIN exchanges = Exchanges /\ DOMAIN bindings = Exchanges
        /\ at \in Exchanges
    BY ZenonT(30), NameAssumption DEF Typed, BootType, TableType
  <2>1. deleting' # NoQueue => boot' = "up"
    <3>1. CASE UNCHANGED <<booting, deletion>>
      BY ZenonT(30), <3>1 DEF BootSound
    <3>2. CASE BootLoad \/ BootUnreadable \/ BootRefused
      BY ZenonT(30), <3>2 DEF BootLoad, BootUnreadable, BootRefused, BootSound
    <3>3. CASE Crash
      BY ZenonT(30), <3>3 DEF Crash
    <3>4. ASSUME NEW ok \in BOOLEAN, BootBind(ok) \/ BootReady(ok) PROVE deleting' = NoQueue
      BY ZenonT(30), <3>4 DEF BootBind, BootReady, BootSound
    <3>5. ASSUME NEW e \in Exchanges, NEW ok \in BOOLEAN, BootExchange(e, ok) PROVE deleting' = NoQueue
      BY ZenonT(30), <3>5 DEF BootExchange, BootSound
    <3>6. ASSUME NEW e \in Exchanges, NEW ok \in BOOLEAN, DeleteUnbind(e, ok) PROVE boot' = "up"
      BY ZenonT(30), <3>6 DEF DeleteUnbind, BootSound
    <3>7. ASSUME NEW q \in Queues, NEW ok \in BOOLEAN, DeleteBegin(q, ok) PROVE boot' = "up"
      BY ZenonT(30), <3>7 DEF DeleteBegin, Free
    <3> QED
      BY ZenonT(30), <3>1, <3>2, <3>3, <3>4, <3>5, <3>6, <3>7, BootKinds
  <2>2. boot' = "down" => rest' = <<>>
    <3>1. CASE Crash
      BY ZenonT(30), <3>1 DEF Crash
    <3>2. ASSUME ~Crash, boot' = "down" PROVE boot = "down" /\ UNCHANGED rest
      <4>1. boot = "down"
        BY ZenonT(30), <3>2, BootFlow DEF BootLoad
      <4>2. ASSUME NEW ok \in BOOLEAN, NEW e \in Exchanges, NEW q \in Queues
            PROVE  ~BootBind(ok) /\ ~BootReady(ok) /\ ~BootExchange(e, ok) /\ ~BootRefused
        BY ZenonT(30), <4>1 DEF BootBind, BootReady, BootExchange, BootRefused
      <4>3. ASSUME NEW e \in Exchanges, NEW q \in Queues, NEW ok \in BOOLEAN
            PROVE  ~DeleteUnbind(e, ok) /\ ~DeleteBegin(q, ok) /\ ~BootLoad /\ ~BootUnreadable
        BY ZenonT(30), <3>2, <4>1 DEF DeleteUnbind, DeleteBegin, BootLoad, BootUnreadable, BootSound, Free
      <4> QED
        BY ZenonT(30), <2>0, <3>2, <4>1, <4>2, <4>3, BootKinds
    <3> QED
      BY ZenonT(30), <3>1, <3>2 DEF BootSound
  <2>3. ASSUME boot' \in {"exchanges", "up"} PROVE queues'[DefaultQueue] # "none"
    <3>1. CASE BootLoad
      BY ZenonT(30), <2>0, <3>1 DEF BootLoad
    <3>2. CASE ~BootLoad
      <4>1. ~Crash /\ boot \in {"exchanges", "up"}
        BY ZenonT(30), <2>3, <3>2, BootFlow DEF Crash
      <4>2. ~DeleteBegin(DefaultQueue, TRUE)
        BY ZenonT(30) DEF DeleteBegin
      <4>3. boot # "down" /\ queues[DefaultQueue] # "none"
        BY ZenonT(30), <4>1 DEF BootSound
      <4> QED
        BY ZenonT(30), <2>0, <4>1, <4>2, <4>3, QueueStands
    <3> QED
      BY ZenonT(30), <3>1, <3>2
  <2>4. ASSUME boot' = "exchanges"
        PROVE  /\ exchanges'[DefaultExchange] # "none" /\ plan'[DefaultExchange].type = "none"
               /\ rest' # <<>> => exchanges'[at'] # "none" /\ at' # DefaultExchange /\ plan'[at'].type = "none"
               /\ \A e \in Exchanges : IF plan'[e].type = "none" THEN plan'[e].list = <<>>
                                                                 ELSE bindings'[e] = <<>>
    <3>1. CASE BootLoad
      <4>1. rest' = <<>> /\ \A e \in Exchanges : bindings'[e] = <<>>
        BY ZenonT(30), <3>1 DEF BootLoad, BootSound, NoBindings
      <4>2. exchanges'[DefaultExchange] # "none"
        BY ZenonT(30), <2>0, <3>1 DEF BootLoad, OnlyDefault
      <4>3. \A e \in Exchanges : plan'[e].type = disk.exchanges[e] /\ plan'[e].list = disk.bindings[e]
        BY ZenonT(30), <3>1 DEF BootLoad
      <4> QED
        BY ZenonT(30), <2>0, <4>1, <4>2, <4>3 DEF DiskSound
    <3>2. CASE boot = "exchanges" /\ UNCHANGED <<exchanges, bindings, booting, deletion>>
      BY ZenonT(30), <3>2 DEF BootSound
    <3>3. CASE BootBind(TRUE)
      <4>1. boot = "exchanges" /\ rest # <<>> /\ UNCHANGED <<exchanges, plan, at>>
        BY ZenonT(30), <3>3 DEF BootBind
      <4>2. \A e \in Exchanges : e # at => bindings'[e] = bindings[e]
        BY ZenonT(30), <2>0, <3>3 DEF BootBind
      <4> QED
        BY ZenonT(30), <2>0, <4>1, <4>2 DEF BootSound
    <3>4. ASSUME NEW e \in Exchanges, BootExchange(e, TRUE)
          PROVE  <2>4!2
      <4>1. /\ boot = "exchanges" /\ plan[e].type # "none" /\ at' = e /\ bindings' = bindings
            /\ exchanges'[e] # "none" /\ plan'[e].type = "none" /\ plan'[e].list = <<>>
            /\ \A d \in Exchanges : d # e => exchanges'[d] = exchanges[d] /\ plan'[d] = plan[d]
        BY <2>0, <3>4 DEF BootExchange
      <4>2. e # DefaultExchange
        BY ZenonT(30), <4>1 DEF BootSound
      <4> QED
        BY ZenonT(30), <2>0, <4>1, <4>2 DEF BootSound
    <3> QED
      BY ZenonT(30), <2>4, <3>1, <3>2, <3>3, <3>4, BootStep
  <2> QED
    BY ZenonT(30), <2>1, <2>2, <2>3, <2>4 DEF BootSound
\* An exchange that does not exist never gets a binding.
<1>TableSoundStep.
      ASSUME Typed, BootSound, TableSound, [Next]_vars
      PROVE  TableSound'
  <2> USE <1>TableSoundStep
  <2>0. /\ DefaultExchange \in Exchanges /\ DOMAIN exchanges = Exchanges /\ DOMAIN bindings = Exchanges
        /\ at \in Exchanges /\ \A e \in Exchanges : bindings[e] \in Seq(Binding)
    BY ZenonT(30), NameAssumption DEF Typed, BootType, TableType
  <2>1. CASE UNCHANGED <<exchanges, bindings>>
    BY ZenonT(30), <2>1 DEF TableSound
  <2>2. CASE BootLoad \/ Crash
    BY ZenonT(30), <2>2 DEF BootLoad, Crash, NoBindings, TableSound
  <2>3. ASSUME NEW e \in Exchanges, exchanges' = exchanges, exchanges[e] # "none",
               \A d \in Exchanges \ {e} : bindings'[d] = bindings[d]
        PROVE  TableSound'
    BY ZenonT(30), <2>3 DEF TableSound
  <2>4. ASSUME NEW e \in Exchanges, \A d \in Exchanges \ {e} : exchanges'[d] = exchanges[d],
               exchanges'[e] # "none" \/ exchanges'[e] = exchanges[e], bindings' = bindings
        PROVE  TableSound'
    BY ZenonT(30), <2>4 DEF TableSound
  <2>5. ASSUME NEW ok \in BOOLEAN, BootBind(ok) PROVE TableSound'
    <3>1. exchanges' = exchanges /\ exchanges[at] # "none" /\ \A d \in Exchanges \ {at} : bindings'[d] = bindings[d]
      BY ZenonT(30), <2>0, <2>5 DEF BootBind, BootSound
    <3> QED
      BY ZenonT(30), <2>0, <2>3, <3>1
  <2>6. ASSUME NEW ok \in BOOLEAN, BootReady(ok) PROVE TableSound'
    <3>1. /\ exchanges' = exchanges /\ exchanges[DefaultExchange] # "none"
          /\ \A d \in Exchanges \ {DefaultExchange} : bindings'[d] = bindings[d]
      BY ZenonT(30), <2>0, <2>6 DEF BootReady, BootSound
    <3> QED
      BY ZenonT(30), <2>0, <2>3, <3>1
  <2>7. ASSUME NEW e \in Exchanges, NEW ok \in BOOLEAN, BootExchange(e, ok) PROVE TableSound'
    <3>1. /\ \A d \in Exchanges \ {e} : exchanges'[d] = exchanges[d]
          /\ exchanges'[e] # "none" \/ exchanges'[e] = exchanges[e]
          /\ bindings' = bindings
      BY ZenonT(30), <2>0, <2>7 DEF BootExchange
    <3> QED
      BY ZenonT(30), <2>4, <3>1
  <2>8. ASSUME NEW e \in Exchanges, NEW ok \in BOOLEAN, NEW t \in Kinds, CreateExchange(e, t, ok)
        PROVE  TableSound'
    <3>1. t # "none"
      BY ZenonT(30), NameAssumption DEF Types
    <3>2. /\ \A d \in Exchanges \ {e} : exchanges'[d] = exchanges[d]
          /\ exchanges'[e] # "none" \/ exchanges'[e] = exchanges[e]
          /\ bindings' = bindings
      BY ZenonT(30), <2>0, <2>8, <3>1 DEF CreateExchange
    <3> QED
      BY ZenonT(30), <2>4, <3>2
  <2>9. ASSUME NEW e \in Exchanges, NEW ok \in BOOLEAN, DeleteExchange(e, ok) PROVE TableSound'
    BY ZenonT(30), <2>0, <2>9 DEF DeleteExchange, MayDeleteExchange, TableSound
  <2>10. ASSUME NEW e \in Exchanges, NEW ok \in BOOLEAN, NEW q, NEW key,
                BindQueue(e, q, key, ok) \/ UnbindQueue(e, q, key, ok)
         PROVE  TableSound'
    <3>1. exchanges' = exchanges /\ exchanges[e] # "none" /\ \A d \in Exchanges \ {e} : bindings'[d] = bindings[d]
      BY ZenonT(30), <2>0, <2>10 DEF BindQueue, UnbindQueue
    <3> QED
      BY ZenonT(30), <2>3, <3>1
  <2>11. ASSUME NEW e \in Exchanges, NEW ok \in BOOLEAN, DeleteUnbind(e, ok) PROVE TableSound'
    <3>1. CASE bindings' = bindings
      BY ZenonT(30), <2>11, <3>1 DEF DeleteUnbind, TableSound
    <3>2. CASE HasBinding(bindings[e], NoKey, deleting)
      <4>1. exchanges[e] # "none"
        BY ZenonT(30), <2>0, <3>2, NotEmpty DEF TableSound
      <4>2. exchanges' = exchanges /\ \A d \in Exchanges \ {e} : bindings'[d] = bindings[d]
        BY ZenonT(30), <2>0, <2>11, <3>2 DEF DeleteUnbind
      <4> QED
        BY ZenonT(30), <2>3, <4>1, <4>2
    <3> QED
      BY ZenonT(30), <2>11, <3>1, <3>2 DEF DeleteUnbind
  <2> QED
    BY ZenonT(30), <2>1, <2>2, <2>5, <2>6, <2>7, <2>8, <2>9, <2>10, <2>11, TableKinds
<1>1. Init => Sound /\ LookedUp
  <2> SUFFICES ASSUME Init PROVE DiskSound /\ BootSound /\ TableSound /\ LookedUp
    BY ZenonT(30) DEF Sound
  <2>1. DiskSound
    BY ZenonT(30), NameAssumption DEF Init, DiskSound, NoExchanges, NoBindings
  <2>2. BootSound
    BY ZenonT(30) DEF Init, BootSound
  <2>3. TableSound
    BY ZenonT(30) DEF Init, TableSound, NoBindings
  <2>4. LookedUp
    BY ZenonT(30) DEF Init, LookedUp, Idle
  <2> QED
    BY ZenonT(30), <2>1, <2>2, <2>3, <2>4
<1>2. Sound /\ LookedUp /\ Typed /\ [Next]_vars => (Sound /\ LookedUp)'
  BY ZenonT(30), <1>DiskSoundStep, <1>BootSoundStep, <1>TableSoundStep, LookedUpStep DEF Sound
<1> QED
  BY <1>1, <1>2, TypedInvariant, PTL DEF Spec

-----------------------------------------------------------------------------
(* Runs without a failed append. *)

\* With no failed append the record of a step is in the log.
LEMMA AppendDone ==
  ASSUME Typed, NEW after, NEW ok \in BOOLEAN, Appended(after, ok), faults' = 0
  PROVE  ok /\ disk' = after /\ faults = 0
BY DEF Typed, LogType, Appended

\* A torn record stays, the number of failed appends never falls, and without a
\* failed append only a crash tears a record.
Worsens == (torn => torn') /\ (faults' = 0 => faults = 0 /\ (torn' = torn \/ Crash))

\* Every append is like that.
LEMMA AppendWorsens ==
  ASSUME Typed, NEW after, NEW ok \in BOOLEAN, Appended(after, ok)
  PROVE  Worsens
<1>1. faults' = 0 => ok
  BY ZenonT(30), AppendDone
<1>2. CASE ok
  BY ZenonT(30), <1>2 DEF Appended, Worsens
<1>3. CASE ~ok
  BY ZenonT(30), <1>1, <1>3 DEF Appended, Worsens
<1> QED
  BY ZenonT(30), <1>2, <1>3

\* So is every step.
LEMMA LogWorsens ==
  ASSUME Typed, [Next]_vars
  PROVE  Worsens
<1>9. UNCHANGED log => Worsens
  BY DEF Worsens
<1>1. CASE Silent
  BY ZenonT(30), <1>1, <1>9, SilentFrame
<1>2. CASE Crash
  BY ZenonT(30), <1>2 DEF Crash, Worsens
<1>3. ASSUME NEW ok \in BOOLEAN, BootBind(ok) \/ BootReady(ok) PROVE Worsens
  BY ZenonT(30), <1>3, AppendWorsens DEF BootBind, BootReady
<1>4. ASSUME NEW ok \in BOOLEAN, NEW e \in Exchanges, BootExchange(e, ok) PROVE Worsens
  BY ZenonT(30), <1>4, AppendWorsens DEF BootExchange
<1>5. ASSUME NEW ok \in BOOLEAN, NEW q \in Queues, CreateQueue(q, ok) \/ DeleteBegin(q, ok) PROVE Worsens
  BY ZenonT(30), <1>5, AppendWorsens DEF CreateQueue, DeleteBegin
<1>6. ASSUME NEW ok \in BOOLEAN, NEW e \in Exchanges, NEW t, CreateExchange(e, t, ok) PROVE Worsens
  BY ZenonT(30), <1>6, AppendWorsens DEF CreateExchange
<1>7. ASSUME NEW ok \in BOOLEAN, NEW e \in Exchanges, DeleteExchange(e, ok) PROVE Worsens
  BY ZenonT(30), <1>7, AppendWorsens DEF DeleteExchange
<1>8. ASSUME NEW ok \in BOOLEAN, NEW e \in Exchanges, NEW q \in Queues, NEW key,
             BindQueue(e, q, key, ok) \/ UnbindQueue(e, q, key, ok)
      PROVE  Worsens
  BY ZenonT(30), <1>8, AppendWorsens DEF BindQueue, UnbindQueue
<1>10. ASSUME NEW ok \in BOOLEAN, NEW e \in Exchanges, DeleteUnbind(e, ok) PROVE Worsens
  <2>1. UNCHANGED log \/ Appended(QueueUnbinded(e, NoKey, deleting), ok)
    BY ZenonT(30), <1>10 DEF DeleteUnbind
  <2> QED
    BY ZenonT(30), <1>9, <2>1, AppendWorsens
<1>11. ASSUME NEW ok \in BOOLEAN, NEW m \in Msgs, PublishStore(m, ok) PROVE Worsens
  <2>1. UNCHANGED log \/ \E q, c : Appended(Published(q, c), ok)
    BY ZenonT(30), <1>11 DEF PublishStore
  <2> QED
    BY ZenonT(30), <1>9, <2>1, AppendWorsens
<1>12. ASSUME NEW ok \in BOOLEAN, NEW q \in Queues, NEW c, Consume(q, c, ok) PROVE Worsens
  BY ZenonT(30), <1>12, AppendWorsens DEF Consume
<1> QED
  BY ZenonT(30), <1>1, <1>2, <1>3, <1>4, <1>5, <1>6, <1>7, <1>8, <1>10, <1>11, <1>12
     DEF Next, Boot, Declare, Traffic, Silent

\* NewBroker has still to create exchange e.
Planned(e) == boot = "exchanges" /\ plan[e].type # "none"

\* What is planned for the exchanges of S stays planned, and nothing else is.
SamePlan(S) ==
  \A d \in S : (Planned(d)' <=> Planned(d)) /\ (Planned(d) => plan'[d] = plan[d])

\* What a step without a failed append does to the tables, in memory and in the
\* log alike: nothing, one binding more, bindings less, or one exchange more or less.
Keeps == UNCHANGED <<exchanges, bindings>> /\ SameTables(disk') /\ SamePlan(Exchanges)

\* One binding more: BindQueue, and NewBroker restoring one.
Adds(e, key, q) ==
  /\ exchanges' = exchanges /\ exchanges[e] # "none" /\ queues[q] # "none"
  /\ ~Planned(e) /\ SamePlan(Exchanges)
  /\ bindings' = Changed(bindings, e, Bind(bindings[e], key, q))
  /\ disk' = QueueBinded(e, key, q)

\* Bindings less: UnbindQueue, and DeleteQueue at one exchange.
Drops(e, key, q) ==
  /\ exchanges' = exchanges /\ exchanges[e] # "none"
  /\ ~Planned(e) /\ SamePlan(Exchanges)
  /\ bindings' = Changed(bindings, e, Unbind(bindings[e], key, q))
  /\ disk' = QueueUnbinded(e, key, q)

\* One exchange more or less.
Sets(e, t) ==
  /\ e # DefaultExchange /\ bindings[e] = <<>> /\ bindings' = bindings
  /\ ~Planned(e)' /\ SamePlan(Exchanges \ {e})
  /\ exchanges' = Changed(exchanges, e, t)
  /\ disk'.exchanges = Changed(disk.exchanges, e, t)
  /\ disk'.bindings = Changed(disk.bindings, e, <<>>)

\* Any of these.
CleanMove ==
  \/ Keeps
  \/ \E e \in Exchanges :
       \/ \E key \in Keys, q \in Queues : Adds(e, key, q)
       \/ \E key, q : Drops(e, key, q)
       \/ \E t \in Types \cup {"none"} : Sets(e, t)

\* The plan is only touched by NewBroker.
LEMMA PlanKept == boot' = boot /\ plan' = plan => SamePlan(Exchanges)
BY ZenonT(30) DEF SamePlan, Planned

\* While the broker restores its tables or is up, every step is such a move.
LEMMA CleanStep ==
  ASSUME Typed, Sound, [Next]_vars, faults' = 0,
         boot \in {"exchanges", "up"}, boot' \in {"exchanges", "up"}
  PROVE  CleanMove
<1>0. /\ DefaultExchange \in Exchanges /\ DefaultKey \in Keys /\ DefaultQueue \in Queues
      /\ disk \in Disks /\ at \in Exchanges
      /\ \A e \in Exchanges : bindings[e] \in Seq(Binding) /\ exchanges[e] \in Types \cup {"none"}
      /\ DOMAIN bindings = Exchanges
  BY ZenonT(30), NameAssumption DEF Typed, LogType, BootType, TableType
<1>1. ~Crash /\ ~BootLoad /\ ~BootUnreadable /\ ~BootRefused
  BY ZenonT(30) DEF Crash, BootLoad, BootUnreadable, BootRefused
<1>2. ASSUME NEW ok \in BOOLEAN, BootBind(ok) PROVE CleanMove
  <2> DEFINE b == Head(rest)
  <2>1. /\ ok /\ disk' = QueueBinded(at, b.key, b.queue) /\ exchanges' = exchanges
        /\ UNCHANGED <<boot, plan>> /\ boot = "exchanges" /\ rest # <<>>
        /\ queues[b.queue] # "none" /\ ~HasBinding(bindings[at], b.key, b.queue)
        /\ bindings' = Changed(bindings, at, Bind(bindings[at], b.key, b.queue))
    BY ZenonT(30), <1>2, AppendDone DEF BootBind, Changed
  <2>2. b.queue \in Queues /\ b.key \in Keys
    BY ZenonT(30), <2>1, RestHead
  <2>3. exchanges[at] # "none" /\ ~Planned(at)
    BY ZenonT(30), <2>1 DEF Sound, BootSound, Planned
  <2> HIDE DEF b
  <2>4. Adds(at, b.key, b.queue)
    BY ZenonT(30), <2>1, <2>3, PlanKept DEF Adds
  <2> QED
    BY ZenonT(30), <1>0, <2>2, <2>4 DEF CleanMove
<1>3. ASSUME NEW ok \in BOOLEAN, BootReady(ok) PROVE CleanMove
  <2>1. /\ disk' = QueueBinded(DefaultExchange, DefaultKey, DefaultQueue)
        /\ exchanges' = exchanges /\ boot = "exchanges" /\ boot' = "up"
        /\ \A e \in Exchanges : plan[e].type = "none"
        /\ bindings' = Changed(bindings, DefaultExchange, Bind(bindings[DefaultExchange], DefaultKey, DefaultQueue))
    BY ZenonT(30), <1>3, AppendDone DEF BootReady, Changed
  <2>2. SamePlan(Exchanges) /\ ~Planned(DefaultExchange)
    BY ZenonT(30), <1>0, <2>1 DEF SamePlan, Planned
  <2>3. exchanges[DefaultExchange] # "none" /\ queues[DefaultQueue] # "none"
    BY ZenonT(30), <2>1 DEF Sound, BootSound
  <2>4. Adds(DefaultExchange, DefaultKey, DefaultQueue)
    BY ZenonT(30), <2>1, <2>2, <2>3 DEF Adds
  <2> QED
    BY ZenonT(30), <1>0, <2>4 DEF CleanMove
<1>4. ASSUME NEW e \in Exchanges, NEW ok \in BOOLEAN, BootExchange(e, ok) PROVE CleanMove
  <2> DEFINE t == plan[e].type
  <2>1. /\ ok /\ disk' = ExchangeCreated(e, t) /\ boot = "exchanges" /\ boot' = "exchanges"
        /\ t # "none" /\ exchanges' = Changed(exchanges, e, t) /\ bindings' = bindings
        /\ plan' = [plan EXCEPT ![e] = [type |-> "none", list |-> <<>>]]
    BY ZenonT(30), <1>4, AppendDone DEF BootExchange, Changed
  <2>2. t \in Types \cup {"none"} /\ DOMAIN plan = Exchanges
    BY ZenonT(30) DEF Typed, BootType
  <2>3. bindings[e] = <<>> /\ e # DefaultExchange
    BY ZenonT(30), <2>1 DEF Sound, BootSound
  <2>4. ~Planned(e)' /\ SamePlan(Exchanges \ {e})
    BY ZenonT(30), <2>1, <2>2 DEF SamePlan, Planned
  <2> HIDE DEF t
  <2>5. disk'.exchanges = Changed(disk.exchanges, e, t) /\ disk'.bindings = Changed(disk.bindings, e, <<>>)
    BY ZenonT(30), <1>0, <2>1, ExchangeValues
  <2>6. Sets(e, t)
    BY ZenonT(30), <2>1, <2>3, <2>4, <2>5 DEF Sets
  <2> QED
    BY ZenonT(30), <2>2, <2>6 DEF CleanMove
<1>5. ASSUME NEW e \in Exchanges, NEW t \in Types \cup {"none"}, Free, booting' = booting,
             disk'.exchanges = Changed(disk.exchanges, e, t),
             disk'.bindings = Changed(disk.bindings, e, <<>>), bindings[e] = <<>>,
             exchanges' = Changed(exchanges, e, t), bindings' = bindings, e # DefaultExchange
      PROVE  CleanMove
  <2>1. boot' = boot /\ plan' = plan /\ boot = "up"
    BY ZenonT(30), <1>5 DEF Free
  <2>2. SamePlan(Exchanges \ {e}) /\ ~Planned(e)'
    BY ZenonT(30), <2>1 DEF SamePlan, Planned
  <2>3. Sets(e, t)
    BY ZenonT(30), <1>5, <2>2 DEF Sets
  <2> QED
    BY ZenonT(30), <2>3 DEF CleanMove
<1>6. ASSUME NEW e \in Exchanges, NEW ok \in BOOLEAN, NEW t \in Kinds, CreateExchange(e, t, ok)
      PROVE  CleanMove
  <2>1. /\ Free /\ disk' = ExchangeCreated(e, t) /\ booting' = booting /\ bindings' = bindings
        /\ exchanges' = Changed(exchanges, e, t) /\ e # DefaultExchange /\ exchanges[e] = "none"
    BY ZenonT(30), <1>6, AppendDone DEF CreateExchange, Changed
  <2>2. disk'.exchanges = Changed(disk.exchanges, e, t) /\ disk'.bindings = Changed(disk.bindings, e, <<>>)
    BY ZenonT(30), <1>0, <2>1, ExchangeValues
  <2>3. bindings[e] = <<>> /\ t \in Types \cup {"none"}
    BY ZenonT(30), <2>1, NameAssumption DEF Sound, TableSound
  <2> QED
    BY ZenonT(30), <1>5, <2>1, <2>2, <2>3
<1>7. ASSUME NEW e \in Exchanges, NEW ok \in BOOLEAN, DeleteExchange(e, ok) PROVE CleanMove
  <2>1. /\ Free /\ disk' = ExchangeDeleted(e) /\ booting' = booting
        /\ bindings' = [bindings EXCEPT ![e] = <<>>] /\ bindings[e] = <<>>
        /\ exchanges' = Changed(exchanges, e, "none") /\ e # DefaultExchange
    BY ZenonT(30), <1>7, AppendDone DEF DeleteExchange, MayDeleteExchange, Changed
  <2>2. disk'.exchanges = Changed(disk.exchanges, e, "none") /\ disk'.bindings = Changed(disk.bindings, e, <<>>)
    BY ZenonT(30), <1>0, <2>1, ExchangeValues
  <2>3. bindings' = bindings
    BY ZenonT(30), <2>1 DEF Typed, TableType
  <2>4. "none" \in Types \cup {"none"}
    BY ZenonT(30)
  <2> QED
    BY ZenonT(30), <1>5, <2>1, <2>2, <2>3, <2>4
<1>8. ASSUME NEW e \in Exchanges, NEW q \in Queues, NEW key \in Keys, NEW ok \in BOOLEAN,
             BindQueue(e, q, key, ok)
      PROVE  CleanMove
  <2>1. /\ Free /\ disk' = QueueBinded(e, key, q) /\ booting' = booting /\ exchanges' = exchanges
        /\ bindings' = Changed(bindings, e, Bind(bindings[e], key, q))
        /\ exchanges[e] # "none" /\ queues[q] # "none" /\ ~HasBinding(bindings[e], key, q)
    BY ZenonT(30), <1>8, AppendDone DEF BindQueue, Changed
  <2>2. boot' = boot /\ plan' = plan /\ ~Planned(e)
    BY ZenonT(30), <2>1 DEF Free, Planned
  <2>3. Adds(e, key, q)
    BY ZenonT(30), <2>1, <2>2, PlanKept DEF Adds
  <2> QED
    BY ZenonT(30), <2>3 DEF CleanMove
<1>9. ASSUME NEW e \in Exchanges, NEW q, NEW key, boot = "up", booting' = booting, exchanges' = exchanges,
             exchanges[e] # "none", bindings' = Changed(bindings, e, Unbind(bindings[e], key, q)),
             disk' = QueueUnbinded(e, key, q)
      PROVE  CleanMove
  <2>1. boot' = boot /\ plan' = plan /\ ~Planned(e)
    BY ZenonT(30), <1>9 DEF Planned
  <2>2. Drops(e, key, q)
    BY ZenonT(30), <1>9, <2>1, PlanKept DEF Drops
  <2> QED
    BY ZenonT(30), <2>2 DEF CleanMove
<1>10. ASSUME NEW e \in Exchanges, NEW q \in Queues, NEW key \in Keys \cup {NoKey}, NEW ok \in BOOLEAN,
              UnbindQueue(e, q, key, ok)
       PROVE  CleanMove
  <2>1. /\ Free /\ disk' = QueueUnbinded(e, key, q) /\ booting' = booting /\ exchanges' = exchanges
        /\ bindings' = Changed(bindings, e, Unbind(bindings[e], key, q)) /\ exchanges[e] # "none"
    BY ZenonT(30), <1>10, AppendDone DEF UnbindQueue, Changed
  <2> QED
    BY ZenonT(30), <1>9, <2>1 DEF Free
<1>11. ASSUME NEW e \in Exchanges, NEW ok \in BOOLEAN, DeleteUnbind(e, ok) PROVE CleanMove
  <2>0. boot = "up" /\ booting' = booting /\ exchanges' = exchanges
    BY ZenonT(30), <1>11 DEF DeleteUnbind, Sound, BootSound
  <2>1. CASE HasBinding(bindings[e], NoKey, deleting)
    <3>1. /\ disk' = QueueUnbinded(e, NoKey, deleting)
          /\ bindings' = Changed(bindings, e, Unbind(bindings[e], NoKey, deleting))
      BY ZenonT(30), <1>11, <2>1, AppendDone DEF DeleteUnbind, Changed
    <3>2. exchanges[e] # "none"
      BY ZenonT(30), <1>0, <2>1, NotEmpty DEF Sound, TableSound
    <3> QED
      BY ZenonT(30), <1>9, <2>0, <3>1, <3>2
  <2>2. CASE ~HasBinding(bindings[e], NoKey, deleting)
    <3>1. disk' = disk /\ bindings' = bindings
      BY ZenonT(30), <1>11, <2>2 DEF DeleteUnbind
    <3>2. Keeps
      BY ZenonT(30), <2>0, <3>1, PlanKept DEF Keeps, SameTables
    <3> QED
      BY ZenonT(30), <3>2 DEF CleanMove
  <2> QED
    BY ZenonT(30), <2>1, <2>2
<1>12. ASSUME UNCHANGED <<exchanges, bindings>>, SameTables(disk'),
              \A ok \in BOOLEAN : ~BootBind(ok) /\ ~BootReady(ok),
              \A e \in Exchanges, ok \in BOOLEAN : ~BootExchange(e, ok)
       PROVE  CleanMove
  <2>1. ASSUME NEW e \in Exchanges, NEW ok \in BOOLEAN, DeleteUnbind(e, ok) PROVE UNCHANGED booting
    BY ZenonT(30), <2>1 DEF DeleteUnbind
  <2>2. ASSUME NEW q \in Queues, NEW ok \in BOOLEAN, DeleteBegin(q, ok) PROVE UNCHANGED booting
    BY ZenonT(30), <2>2 DEF DeleteBegin
  <2>3. UNCHANGED booting
    BY ZenonT(30), <1>1, <1>12, <2>1, <2>2, BootKinds
  <2>4. Keeps
    BY ZenonT(30), <1>12, <2>3, PlanKept DEF Keeps
  <2> QED
    BY ZenonT(30), <2>4 DEF CleanMove
<1> QED
  BY ZenonT(30), <1>1, <1>2, <1>3, <1>4, <1>6, <1>7, <1>8, <1>10, <1>11, <1>12, TableKinds, TableRecords

-----------------------------------------------------------------------------
(* The log and the tables agree. *)

\* The broker has loaded the log, no append has failed.
Loaded == faults = 0 /\ boot \in {"exchanges", "up"}

\* The log has exchange e as NewBroker is still to create it, or as it is.
MatchedAt(e) ==
  IF Planned(e) THEN disk.exchanges[e] = plan[e].type /\ disk.bindings[e] = plan[e].list
  ELSE disk.exchanges[e] = exchanges[e] /\ disk.bindings[e] = bindings[e]

\* The log has the exchanges and their binding lists as memory has them.
TableMatch == Loaded => \A e \in Exchanges \ {DefaultExchange} : MatchedAt(e)

\* The log has the queues and the messages as memory has them.
QueuesAgree == disk.queues \cup {DefaultQueue} = Existing /\ disk.pending = pending

\* It does so once it is loaded.
QueueMatch == Loaded => QueuesAgree

\* A step after which the registry is loaded is BootLoad or starts loaded.
LEMMA LoadedStep ==
  ASSUME Typed, [Next]_vars, Loaded'
  PROVE  /\ ~Crash /\ (BootLoad \/ Loaded)
         /\ faults' = 0 /\ faults = 0 /\ boot' \in {"exchanges", "up"}
<1>1. ~Crash
  BY ZenonT(30) DEF Loaded, Crash
<1>2. faults' = 0 /\ faults = 0 /\ boot' \in {"exchanges", "up"}
  BY ZenonT(30), LogWorsens DEF Loaded, Worsens
<1> QED
  BY ZenonT(30), <1>1, <1>2, BootFlow DEF Loaded

\* Every step that appends a record makes the change it describes in memory too.
LEMMA MatchInvariant == Spec => [](TableMatch /\ QueueMatch)
\* What a binding or unbinding record does to an exchange that the log knows.
<1>BindingAt.
      ASSUME disk \in Disks, NEW e \in Exchanges, NEW key, NEW q,
             disk' = QueueBinded(e, key, q) \/ disk' = QueueUnbinded(e, key, q)
      PROVE  /\ disk'.exchanges = disk.exchanges
             /\ \A d \in Exchanges \ {e} : disk'.bindings[d] = disk.bindings[d]
             /\ disk.exchanges[e] # "none" /\ disk' = QueueBinded(e, key, q) =>
                  disk'.bindings[e] = Bind(disk.bindings[e], key, q)
             /\ disk.exchanges[e] # "none" /\ disk' = QueueUnbinded(e, key, q) =>
                  disk'.bindings[e] = Unbind(disk.bindings[e], key, q)
  <2> USE <1>BindingAt
  <2>0. DOMAIN disk.bindings = Exchanges
    BY ZenonT(30) DEF Disks
  <2> DEFINE d1 == QueueBinded(e, key, q)
             d2 == QueueUnbinded(e, key, q)
             l1 == Bind(disk.bindings[e], key, q)
             l2 == Unbind(disk.bindings[e], key, q)
  <2>1. /\ d1.exchanges = disk.exchanges /\ d2.exchanges = disk.exchanges
        /\ disk.exchanges[e] = "none" => d1.bindings = disk.bindings /\ d2.bindings = disk.bindings
        /\ disk.exchanges[e] # "none" => /\ d1.bindings = Changed(disk.bindings, e, l1)
                                         /\ d2.bindings = Changed(disk.bindings, e, l2)
    BY ZenonT(30), BindingValues
  <2>2. /\ Changed(disk.bindings, e, l1)[e] = l1 /\ Changed(disk.bindings, e, l2)[e] = l2
        /\ \A d \in Exchanges \ {e} : /\ Changed(disk.bindings, e, l1)[d] = disk.bindings[d]
                                      /\ Changed(disk.bindings, e, l2)[d] = disk.bindings[d]
    BY <2>0, ChangedAt
  <2> HIDE DEF l1, l2, d1, d2
  <2>3. disk' = d1 \/ disk' = d2
    BY ZenonT(30) DEF d1, d2
  <2>4. /\ disk'.exchanges = disk.exchanges
        /\ \A d \in Exchanges \ {e} : disk'.bindings[d] = disk.bindings[d]
        /\ disk.exchanges[e] # "none" /\ disk' = d1 => disk'.bindings[e] = l1
        /\ disk.exchanges[e] # "none" /\ disk' = d2 => disk'.bindings[e] = l2
    BY ZenonT(30), <2>1, <2>2, <2>3
  <2> QED
    BY ZenonT(30), <2>4 DEF d1, d2, l1, l2
<1>TableMatchStep.
      ASSUME Typed, Sound, TableMatch, [Next]_vars
      PROVE  TableMatch'
  <2> USE <1>TableMatchStep
  <2> SUFFICES ASSUME Loaded', NEW d \in Exchanges \ {DefaultExchange} PROVE MatchedAt(d)'
    BY ZenonT(30) DEF TableMatch
  <2>0. /\ disk \in Disks /\ d \in Exchanges /\ DOMAIN bindings = Exchanges /\ DOMAIN exchanges = Exchanges
        /\ DOMAIN disk.bindings = Exchanges /\ DOMAIN disk.exchanges = Exchanges
    BY ZenonT(30) DEF Typed, LogType, TableType, Disks
  <2>1. CASE BootLoad
    <3>1. /\ disk' = disk /\ boot' = "exchanges" /\ exchanges'[d] = "none" /\ bindings'[d] = <<>>
          /\ plan'[d].type = disk.exchanges[d] /\ plan'[d].list = disk.bindings[d]
      BY ZenonT(30), <2>1 DEF BootLoad, OnlyDefault, NoBindings
    <3>2. disk.exchanges[d] = "none" => disk.bindings[d] = <<>>
      BY ZenonT(30) DEF Sound, DiskSound
    <3> QED
      BY ZenonT(30), <3>1, <3>2 DEF MatchedAt, Planned
  <2>2. CASE Loaded
    <3>0. MatchedAt(d) /\ faults' = 0 /\ boot \in {"exchanges", "up"} /\ boot' \in {"exchanges", "up"}
      BY ZenonT(30), <2>2, LoadedStep DEF TableMatch, Loaded
    <3>1. ASSUME SamePlan({d}), disk'.exchanges[d] = disk.exchanges[d], disk'.bindings[d] = disk.bindings[d],
                 exchanges'[d] = exchanges[d], bindings'[d] = bindings[d]
          PROVE  MatchedAt(d)'
      BY ZenonT(30), <3>0, <3>1 DEF MatchedAt, SamePlan
    <3>2. CASE Keeps
      BY ZenonT(30), <3>1, <3>2 DEF Keeps, SameTables, SamePlan
    <3>3. ASSUME NEW e \in Exchanges, NEW key, NEW q, Adds(e, key, q) \/ Drops(e, key, q)
          PROVE  MatchedAt(d)'
      <4> DEFINE l1 == Bind(bindings[e], key, q)
                 l2 == Unbind(bindings[e], key, q)
      <4>1. /\ disk'.exchanges = disk.exchanges /\ exchanges' = exchanges /\ exchanges[e] # "none"
            /\ ~Planned(e) /\ SamePlan({d})
            /\ \A c \in Exchanges \ {e} : disk'.bindings[c] = disk.bindings[c]
        BY <2>0, <3>3, <1>BindingAt DEF Adds, Drops, SamePlan
      <4>2. CASE d # e
        <5>1. bindings'[d] = bindings[d]
          BY <2>0, <3>3, <4>2, ChangedAt DEF Adds, Drops
        <5> QED
          BY ZenonT(30), <3>1, <4>1, <4>2, <5>1
      <4>3. CASE d = e
        <5>1. ~Planned(d)' /\ disk.exchanges[e] # "none" /\ disk.bindings[e] = bindings[e]
              /\ disk.exchanges[e] = exchanges[e]
          BY ZenonT(30), <3>0, <4>1, <4>3 DEF MatchedAt, SamePlan
        <5>2. CASE Adds(e, key, q)
          <6>0. disk' = QueueBinded(e, key, q)
            BY ZenonT(30), <5>2 DEF Adds
          <6>1. disk'.bindings[e] = Bind(disk.bindings[e], key, q)
            BY <2>0, <5>1, <6>0, <1>BindingAt
          <6>2. bindings'[e] = Bind(bindings[e], key, q)
            BY <2>0, <5>2, ChangedAt DEF Adds
          <6> QED
            BY ZenonT(30), <4>1, <4>3, <5>1, <6>1, <6>2 DEF MatchedAt
        <5>3. CASE Drops(e, key, q)
          <6>0. disk' = QueueUnbinded(e, key, q)
            BY ZenonT(30), <5>3 DEF Drops
          <6>1. disk'.bindings[e] = Unbind(disk.bindings[e], key, q)
            BY <2>0, <5>1, <6>0, <1>BindingAt
          <6>2. bindings'[e] = Unbind(bindings[e], key, q)
            BY <2>0, <5>3, ChangedAt DEF Drops
          <6> QED
            BY ZenonT(30), <4>1, <4>3, <5>1, <6>1, <6>2 DEF MatchedAt
        <5> QED
          BY ZenonT(30), <3>3, <5>2, <5>3
      <4> QED
        BY ZenonT(30), <4>2, <4>3
    <3>4. ASSUME NEW e \in Exchanges, NEW t, Sets(e, t) PROVE MatchedAt(d)'
      <4>1. CASE d # e
        <5>1. /\ disk'.exchanges[d] = disk.exchanges[d] /\ disk'.bindings[d] = disk.bindings[d]
              /\ exchanges'[d] = exchanges[d] /\ bindings'[d] = bindings[d]
          BY <2>0, <3>4, <4>1, ChangedAt DEF Sets
        <5>2. SamePlan({d})
          BY ZenonT(30), <3>4, <4>1 DEF Sets, SamePlan
        <5> QED
          BY ZenonT(30), <3>1, <5>1, <5>2
      <4>2. CASE d = e
        <5>1. disk'.exchanges[e] = t /\ disk'.bindings[e] = <<>> /\ exchanges'[e] = t /\ bindings'[e] = <<>>
          BY <2>0, <3>4, ChangedAt DEF Sets
        <5> QED
          BY ZenonT(30), <3>4, <4>2, <5>1 DEF Sets, MatchedAt
      <4> QED
        BY ZenonT(30), <4>1, <4>2
    <3> QED
      BY ZenonT(30), <3>0, <3>2, <3>3, <3>4, CleanStep DEF CleanMove
  <2> QED
    BY ZenonT(30), <2>1, <2>2, LoadedStep
\* What one record about a queue does to both sides.
<1>QueueMatchStep.
      ASSUME Typed, Sound, LookedUp, QueueMatch, [Next]_vars
      PROVE  QueueMatch'
  <2> USE <1>QueueMatchStep
  <2> SUFFICES ASSUME Loaded' PROVE QueuesAgree'
    BY ZenonT(30) DEF QueueMatch
  <2>0. /\ disk \in Disks /\ disk.queues \subseteq Queues /\ DefaultQueue \in Queues
        /\ disk.pending \in [Queues -> SUBSET Copies] /\ pending \in [Queues -> SUBSET Copies]
        /\ queues \in [Queues -> {"none", "open", "closed"}]
    BY ZenonT(30), NameAssumption DEF Typed, LogType, QueueType, Disks
  <2>1. CASE BootLoad
    <3>1. disk' = disk /\ pending' = disk.pending
      BY ZenonT(30), <2>1 DEF BootLoad
    <3>2. Existing' = disk.queues \cup {DefaultQueue}
      BY ZenonT(30), <2>0, <2>1 DEF BootLoad, Existing
    <3> QED
      BY ZenonT(30), <3>1, <3>2 DEF QueuesAgree
  <2>2. CASE Loaded
    <3>0. /\ disk.queues \cup {DefaultQueue} = Existing /\ disk.pending = pending /\ faults' = 0
          /\ ~Crash /\ ~BootLoad
      BY ZenonT(30), <2>2, LoadedStep DEF QueueMatch, QueuesAgree, Loaded, BootLoad
    <3>1. ASSUME SameQueues(disk'), pending' = pending, Existing' = Existing PROVE QueuesAgree'
      BY ZenonT(30), <3>0, <3>1 DEF SameQueues, QueuesAgree
    <3>2. ASSUME NEW q \in Queues, NEW ok \in BOOLEAN, CreateQueue(q, ok) PROVE QueuesAgree'
      <4>1. /\ disk' = QueueCreated(q) /\ queues' = [queues EXCEPT ![q] = "open"]
            /\ pending' = [pending EXCEPT ![q] = {}] /\ queues[q] = "none"
        BY ZenonT(30), <3>2, <3>0, AppendDone DEF CreateQueue
      <4>2. disk'.queues = disk.queues \cup {q} /\ disk'.pending = disk.pending
        BY ZenonT(30), <2>0, <4>1 DEF QueueCreated, Disks
      <4>3. Existing' = Existing \cup {q}
        BY ZenonT(30), <2>0, <4>1 DEF Existing
      <4>4. q \notin disk.queues
        BY ZenonT(30), <3>0, <4>1 DEF Existing
      <4>5. pending[q] = {}
        BY ZenonT(30), <3>0, <4>4 DEF Sound, DiskSound
      <4>6. pending' = pending
        BY ZenonT(30), <2>0, <4>1, <4>5
      <4> QED
        BY ZenonT(30), <3>0, <4>2, <4>3, <4>6 DEF QueuesAgree
    <3>3. ASSUME NEW q \in Queues, NEW ok \in BOOLEAN, DeleteBegin(q, ok) PROVE QueuesAgree'
      <4>1. /\ disk' = QueueDeleted(q) /\ queues' = [queues EXCEPT ![q] = "none"]
            /\ pending' = pending /\ pending[q] = {} /\ q # DefaultQueue
        BY ZenonT(30), <3>3, <3>0, AppendDone DEF DeleteBegin, Empty
      <4>2. disk'.queues = disk.queues \ {q} /\ disk'.pending = [disk.pending EXCEPT ![q] = {}]
        BY ZenonT(30), <2>0, <4>1 DEF QueueDeleted, Disks
      <4>3. Existing' = Existing \ {q}
        BY ZenonT(30), <2>0, <4>1 DEF Existing
      <4>4. [disk.pending EXCEPT ![q] = {}] = pending
        BY ZenonT(30), <2>0, <3>0, <4>1
      <4> QED
        BY ZenonT(30), <3>0, <4>1, <4>2, <4>3, <4>4 DEF QueuesAgree
    <3>4. ASSUME NEW q \in Queues PROVE ShutdownQueue(q) => Existing' = Existing /\ pending' = pending
      BY ZenonT(30), <2>0 DEF ShutdownQueue, Existing
    <3>5. ASSUME NEW m \in Msgs, NEW ok \in BOOLEAN, PublishStore(m, ok) PROVE QueuesAgree'
      <4> DEFINE q == Head(pub[m].todo).queue
                 c == [msg |-> m, key |-> Head(pub[m].todo).key]
      <4>1. q \in Queues
        BY ZenonT(30), <3>5, AtHand DEF PublishStore
      <4>2. queues' = queues /\ Existing' = Existing
        BY ZenonT(30), <3>5 DEF PublishStore, Existing
      <4>3. CASE RuntimeClosed(m)
        <5>1. disk' = disk /\ pending' = pending
          BY ZenonT(30), <3>5, <4>3 DEF PublishStore
        <5> QED
          BY ZenonT(30), <3>0, <4>2, <5>1 DEF QueuesAgree
      <4>4. CASE ~RuntimeClosed(m)
        <5>1. Appended(Published(q, c), ok) /\ pub[m].pc = "store"
          BY ZenonT(30), <3>5, <4>4 DEF PublishStore
        <5>2. ok /\ disk' = Published(q, c)
          BY ZenonT(30), <3>0, <5>1, AppendDone
        <5>3. pending' = [pending EXCEPT ![q] = @ \cup {c}]
          BY ZenonT(30), <3>5, <4>4, <5>2 DEF PublishStore
        <5>4. queues[q] # "none"
          BY ZenonT(30), <4>4, <5>1 DEF RuntimeClosed, LookedUp
        <5> HIDE DEF q, c
        <5>5. disk'.queues = disk.queues \cup {q} /\ disk'.pending = [disk.pending EXCEPT ![q] = @ \cup {c}]
          BY ZenonT(30), <2>0, <4>1, <5>2 DEF Published, Disks
        <5>6. q \in Existing
          BY ZenonT(30), <4>1, <5>4 DEF Existing
        <5> QED
          BY ZenonT(30), <3>0, <4>2, <5>3, <5>5, <5>6 DEF QueuesAgree
      <4> QED
        BY ZenonT(30), <4>3, <4>4
    <3>6. ASSUME NEW q \in Queues, NEW ok \in BOOLEAN, NEW c \in pending[q], Consume(q, c, ok) PROVE QueuesAgree'
      <4>1. /\ disk' = Acknowledged(q, c) /\ queues' = queues /\ queues[q] # "none"
            /\ pending' = [pending EXCEPT ![q] = @ \ {c}]
        BY ZenonT(30), <3>0, <3>6, AppendDone DEF Consume
      <4>2. disk'.queues = disk.queues \cup {q} /\ disk'.pending = [disk.pending EXCEPT ![q] = @ \ {c}]
        BY ZenonT(30), <2>0, <4>1 DEF Acknowledged, Disks
      <4>3. Existing' = Existing /\ q \in Existing
        BY ZenonT(30), <4>1 DEF Existing
      <4> QED
        BY ZenonT(30), <3>0, <4>1, <4>2, <4>3 DEF QueuesAgree
    <3>7. UNCHANGED <<queues, pending, closed>> => Existing' = Existing /\ pending' = pending
      BY ZenonT(30) DEF Existing
    <3>8. ShutdownBegin => Existing' = Existing /\ pending' = pending
      BY ZenonT(30) DEF ShutdownBegin, Existing
    <3> QED
      BY ZenonT(30), <3>0, <3>1, <3>2, <3>3, <3>4, <3>5, <3>6, <3>7, <3>8, QueueKinds, QueueRecords
  <2> QED
    BY ZenonT(30), <2>1, <2>2, LoadedStep
<1>1. Init => TableMatch /\ QueueMatch
  BY ZenonT(30) DEF Init, TableMatch, QueueMatch, Loaded
<1>2. Typed /\ Sound /\ LookedUp /\ TableMatch /\ QueueMatch /\ [Next]_vars => (TableMatch /\ QueueMatch)'
  BY ZenonT(30), <1>TableMatchStep, <1>QueueMatchStep
<1> QED
  BY <1>1, <1>2, TypedInvariant, SoundInvariant, PTL DEF Spec

\* After any mix of creations, deletions, bindings, publications and restarts in
\* which every append succeeded, Load would return the registry in memory, the
\* order of every binding list included.
THEOREM LogIsRegistry == Spec => []LogMatchesRegistry
<1> DEFINE Whole == Loaded => ~torn
<1>1. Init => Whole
  BY ZenonT(30) DEF Init, Loaded
<1>2. Typed /\ Whole /\ [Next]_vars => Whole'
  <2> SUFFICES ASSUME Typed, Whole, [Next]_vars, Loaded' PROVE ~torn'
    BY ZenonT(30)
  <2>1. ~Crash /\ (BootLoad \/ Loaded) /\ faults' = 0
    BY ZenonT(30), LoadedStep
  <2>2. torn' = torn
    BY ZenonT(30), <2>1, LogWorsens DEF Worsens
  <2>3. BootLoad => ~torn
    BY ZenonT(30) DEF BootLoad
  <2> QED
    BY ZenonT(30), <2>1, <2>2, <2>3
<1>3. Whole /\ Sound /\ TableMatch /\ QueueMatch => LogMatchesRegistry
  BY ZenonT(30) DEF LogMatchesRegistry, Settled, Free, Sound, DiskSound, TableMatch, QueueMatch, QueuesAgree,
         Loaded, MatchedAt, Planned
<1> QED
  BY <1>1, <1>2, <1>3, TypedInvariant, SoundInvariant, MatchInvariant, PTL DEF Spec

-----------------------------------------------------------------------------
(* Bindings name queues. *)

\* The bindings of e name existing queues, or the one that DeleteQueue is removing
\* while e is still on its list.
NamesQueues(e) ==
  \A b \in Members(bindings[e]) : b.queue \in Existing \/ (e \in unbinding /\ b.queue = deleting)

\* No binding names a queue that is gone.
Dangle == Loaded => \A e \in Exchanges : NamesQueues(e)

\* A new binding names an existing queue.
LEMMA MembersMove ==
  ASSUME Typed, CleanMove, NEW e \in Exchanges
  PROVE  /\ bindings'[e] \in Seq(Binding)
         /\ \A b \in Members(bindings'[e]) : b \in Members(bindings[e]) \/ b.queue \in Existing
<1> DEFINE Moved == /\ bindings'[e] \in Seq(Binding)
                    /\ \A b \in Members(bindings'[e]) : b \in Members(bindings[e]) \/ b.queue \in Existing
<1>0. DOMAIN bindings = Exchanges /\ bindings[e] \in Seq(Binding)
  BY ZenonT(30) DEF Typed, TableType
<1>1. bindings'[e] = bindings[e] => Moved
  BY ZenonT(30), <1>0
<1>2. ASSUME NEW d \in Exchanges, NEW key \in Keys, NEW q \in Queues, Adds(d, key, q) PROVE Moved
  <2>1. CASE d # e
    <3>1. bindings'[e] = bindings[e]
      BY <1>0, <1>2, <2>1, ChangedAt DEF Adds
    <3> QED
      BY ZenonT(30), <1>1, <3>1
  <2>2. CASE d = e
    <3> DEFINE b == [queue |-> q, key |-> key]
    <3>1. bindings'[e] = Bind(bindings[e], key, q)
      BY <1>0, <1>2, <2>2, ChangedAt DEF Adds
    <3>2. /\ Bind(bindings[e], key, q) \in Seq(Binding)
          /\ Members(Bind(bindings[e], key, q)) = Members(bindings[e]) \cup {b}
      BY ZenonT(30), <1>0, BindList
    <3>3. b.queue \in Existing
      BY ZenonT(30), <1>2 DEF Adds, Existing
    <3> HIDE DEF b
    <3> QED
      BY ZenonT(30), <3>1, <3>2, <3>3
  <2> QED
    BY ZenonT(30), <2>1, <2>2
<1>3. ASSUME NEW d \in Exchanges, NEW key, NEW q, Drops(d, key, q) PROVE Moved
  <2>1. CASE d # e
    <3>1. bindings'[e] = bindings[e]
      BY <1>0, <1>3, <2>1, ChangedAt DEF Drops
    <3> QED
      BY ZenonT(30), <1>1, <3>1
  <2>2. CASE d = e
    <3>1. bindings'[e] = Unbind(bindings[e], key, q)
      BY <1>0, <1>3, <2>2, ChangedAt DEF Drops
    <3> QED
      BY <1>0, <3>1, UnbindList
  <2> QED
    BY ZenonT(30), <2>1, <2>2
<1>4. ASSUME NEW d \in Exchanges, NEW t, Sets(d, t) PROVE Moved
  BY ZenonT(30), <1>1, <1>4 DEF Sets
<1>5. Keeps => Moved
  BY ZenonT(30), <1>1 DEF Keeps
<1> HIDE DEF Moved
<1>6. Moved
  BY ZenonT(30), <1>2, <1>3, <1>4, <1>5 DEF CleanMove
<1> QED
  BY ZenonT(30), <1>6 DEF Moved

\* DeleteQueue and NewBroker leave no such binding behind.
LEMMA DangleInvariant == Spec => []Dangle
\* Existing queues stay, except the one that DeleteQueue takes out.
<1>DangleStep.
      ASSUME Typed, Sound, Dangle, [Next]_vars
      PROVE  Dangle'
  <2> USE <1>DangleStep
  <2> SUFFICES ASSUME Loaded', NEW e \in Exchanges PROVE NamesQueues(e)'
    BY ZenonT(30) DEF Dangle
  <2>0. /\ ~Crash /\ bindings[e] \in Seq(Binding) /\ deleting \in Queues \cup {NoQueue}
        /\ queues \in [Queues -> {"none", "open", "closed"}]
        /\ \A b \in Members(bindings[e]) : b.queue \in Queues
    <3>1. bindings[e] \in Seq(Binding) /\ Members(bindings[e]) \subseteq Binding
      BY ZenonT(30), MembersEmpty DEF Typed, TableType
    <3> QED
      BY ZenonT(30), <3>1, LoadedStep DEF Typed, BootType, QueueType, Binding
  <2>1. CASE BootLoad
    <3>1. bindings'[e] = <<>>
      BY ZenonT(30), <2>1 DEF BootLoad, NoBindings
    <3> QED
      BY ZenonT(30), <2>0, <3>1, MembersEmpty DEF NamesQueues
  <2>2. CASE Loaded
    <3>0. /\ NamesQueues(e) /\ faults' = 0 /\ boot # "down"
          /\ boot \in {"exchanges", "up"} /\ boot' \in {"exchanges", "up"}
      BY ZenonT(30), <2>2, LoadedStep DEF Dangle, Loaded
    <3>1. ASSUME NEW q \in Queues, NEW ok \in BOOLEAN, DeleteBegin(q, ok) PROVE NamesQueues(e)'
      <4>1. /\ Free /\ queues' = [queues EXCEPT ![q] = "none"] /\ bindings' = bindings
            /\ deleting' = q /\ unbinding' = {d \in Exchanges : exchanges[d] # "none"}
        BY ZenonT(30), <3>0, <3>1, AppendDone DEF DeleteBegin
      <4>2. Existing' = Existing \ {q} /\ deleting = NoQueue /\ NoQueue \notin Queues
        BY ZenonT(30), <2>0, <4>1, NameAssumption DEF Existing, Free
      <4>3. exchanges[e] = "none" => Members(bindings[e]) = {}
        BY ZenonT(30), <2>0, MembersEmpty DEF Sound, TableSound
      <4> QED
        BY ZenonT(30), <2>0, <3>0, <4>1, <4>2, <4>3 DEF NamesQueues
    <3>2. ASSUME NEW d \in Exchanges, NEW ok \in BOOLEAN, DeleteUnbind(d, ok) PROVE NamesQueues(e)'
      <4>1. /\ ok /\ queues' = queues /\ d \in unbinding /\ unbinding' = unbinding \ {d}
            /\ deleting' = IF unbinding' = {} THEN NoQueue ELSE deleting
        BY ZenonT(30), <3>0, <3>2, AppendDone DEF DeleteUnbind
      <4>2. Existing' = Existing
        BY ZenonT(30), <4>1 DEF Existing
      <4>3. CASE e # d
        <5>1. bindings'[e] = bindings[e]
          BY ZenonT(30), <2>0, <3>2, <4>3 DEF DeleteUnbind, Typed, TableType
        <5>2. e \in unbinding => e \in unbinding' /\ deleting' = deleting
          BY ZenonT(30), <4>1, <4>3
        <5> QED
          BY ZenonT(30), <3>0, <4>2, <5>1, <5>2 DEF NamesQueues
      <4>4. CASE e = d
        <5>1. \A b \in Members(bindings[e]) : ~Selected(b, NoKey, deleting) => b.queue # deleting
          BY ZenonT(30) DEF Selected
        <5>2. CASE HasBinding(bindings[e], NoKey, deleting)
          <6>1. bindings'[e] = Unbind(bindings[e], NoKey, deleting)
            BY ZenonT(30), <2>0, <3>2, <4>4, <5>2 DEF DeleteUnbind, Typed, TableType
          <6>2. Members(bindings'[e]) = {b \in Members(bindings[e]) : ~Selected(b, NoKey, deleting)}
            BY <2>0, <6>1, UnbindList
          <6> QED
            BY ZenonT(30), <3>0, <4>2, <5>1, <6>2 DEF NamesQueues
        <5>3. CASE ~HasBinding(bindings[e], NoKey, deleting)
          <6>1. bindings'[e] = bindings[e]
            BY ZenonT(30), <3>2, <4>4, <5>3 DEF DeleteUnbind
          <6>2. \A b \in Members(bindings[e]) : ~Selected(b, NoKey, deleting)
            BY ZenonT(30), <2>0, <5>3, HasMember
          <6> QED
            BY ZenonT(30), <3>0, <4>2, <5>1, <6>1, <6>2 DEF NamesQueues
        <5> QED
          BY ZenonT(30), <5>2, <5>3
      <4> QED
        BY ZenonT(30), <4>3, <4>4
    <3>3. ASSUME \A q \in Queues, ok \in BOOLEAN : ~DeleteBegin(q, ok),
                 \A d \in Exchanges, ok \in BOOLEAN : ~DeleteUnbind(d, ok)
          PROVE  NamesQueues(e)'
      <4>1. ASSUME NEW q \in Existing PROVE q \in Existing'
        BY ZenonT(30), <2>0, <3>0, <3>3, <4>1, QueueStands DEF Existing
      <4>2. UNCHANGED deletion
        <5>1. ASSUME NEW ok \in BOOLEAN, BootBind(ok) \/ BootReady(ok) PROVE UNCHANGED deletion
          BY ZenonT(30), <5>1 DEF BootBind, BootReady
        <5>2. ASSUME NEW d \in Exchanges, NEW ok \in BOOLEAN, BootExchange(d, ok) PROVE UNCHANGED deletion
          BY ZenonT(30), <5>2 DEF BootExchange
        <5>3. BootLoad \/ BootUnreadable \/ BootRefused => UNCHANGED deletion
          BY ZenonT(30) DEF BootLoad, BootUnreadable, BootRefused
        <5> QED
          BY ZenonT(30), <2>0, <3>3, <5>1, <5>2, <5>3, BootKinds
      <4>3. \A b \in Members(bindings'[e]) : b \in Members(bindings[e]) \/ b.queue \in Existing
        BY ZenonT(30), <3>0, CleanStep, MembersMove
      <4> QED
        BY ZenonT(30), <3>0, <4>1, <4>2, <4>3 DEF NamesQueues
    <3> QED
      BY ZenonT(30), <3>1, <3>2, <3>3
  <2> QED
    BY ZenonT(30), <2>1, <2>2, LoadedStep
<1>1. Init => Dangle
  BY ZenonT(30) DEF Init, Dangle, Loaded
<1>2. Typed /\ Sound /\ Dangle /\ [Next]_vars => Dangle'
  BY ZenonT(30), <1>DangleStep
<1> QED
  BY <1>1, <1>2, TypedInvariant, SoundInvariant, PTL DEF Spec

\* Between two operations every binding names a queue that exists: the loop of
\* DeleteQueue over the exchanges, and NewBroker's over the logged bindings, leave
\* none behind, as long as every append succeeded.
THEOREM BindingsNameQueues == Spec => []NoDanglingBinding
<1>1. ASSUME Typed, Dangle PROVE NoDanglingBinding
  <2> SUFFICES ASSUME Settled, NEW e \in Exchanges, NEW i \in 1 .. Len(bindings[e])
               PROVE  bindings[e][i].queue \in Existing
    BY ZenonT(30) DEF NoDanglingBinding
  <2>1. bindings[e] \in Seq(Binding) /\ Members(bindings[e]) \subseteq Binding
    BY ZenonT(30), <1>1, MembersEmpty DEF Typed, TableType
  <2>2. bindings[e][i] \in Members(bindings[e])
    BY ZenonT(30) DEF Members
  <2>3. bindings[e][i].queue \in Queues /\ deleting = NoQueue /\ NoQueue \notin Queues
    BY ZenonT(30), <2>1, <2>2, NameAssumption DEF Binding, Settled, Free
  <2>4. NamesQueues(e)
    BY ZenonT(30), <1>1 DEF Dangle, Loaded, Settled, Free
  <2> QED
    BY ZenonT(30), <2>2, <2>3, <2>4 DEF NamesQueues
<1> QED
  BY <1>1, TypedInvariant, DangleInvariant, PTL

-----------------------------------------------------------------------------
(* Restarts. *)

\* A list that NewBroker can restore: no binding twice, every queue there.
Restorable(bs, Q) == Distinct(bs) /\ \A b \in Members(bs) : b.queue \in Q

\* DeleteQueue and UnbindQueue have never been cut short.  Other appends may have
\* failed, and records may be torn.
Orderly == cutShort \cap {"delete", "unbind"} = {}

\* NewBroker has loaded the log, and has not given up.
Running == boot \in {"exchanges", "up"}

\* The queues that NewBroker would have after loading the log.
LogQueues == disk.queues \cup {DefaultQueue}

\* The bindings that the log has for e name queues of the log, or the one that
\* DeleteQueue is removing while e is still on its list.
LogNames(e) ==
  \A b \in Members(disk.bindings[e]) : b.queue \in LogQueues \/ (e \in unbinding /\ b.queue = deleting)

\* Memory has the bindings that the log has for e, unless e is still to be created.
\* It may have more: a binding whose append failed stays in memory.
LogWithin(e) == Planned(e) \/ Members(disk.bindings[e]) \subseteq Members(bindings[e])

\* What NewBroker still has to restore it can restore.
PlanGood ==
  /\ \A e \in Exchanges : Restorable(plan[e].list, Existing)
  /\ Restorable(rest, Existing) /\ Members(rest) \cap Members(bindings[at]) = {}

\* The log can be restored in every state: its bindings are distinct and name its
\* queues, because what it has of queues is more than memory has, and what it has
\* of bindings is less.
LogGood ==
  /\ boot # "refused"
  /\ \A e \in Exchanges : Distinct(disk.bindings[e]) /\ LogNames(e)
  /\ Running => Existing \subseteq LogQueues /\ \A e \in Exchanges : LogWithin(e)
  /\ boot = "exchanges" => PlanGood

\* What was cut short is not forgotten.
LEMMA CutShortGrows ==
  ASSUME [Next]_vars
  PROVE  cutShort \subseteq cutShort'
<1>1. UNCHANGED hist => cutShort \subseteq cutShort'
  BY ZenonT(30)
<1>2. Crash => cutShort \subseteq cutShort'
  BY ZenonT(30) DEF Crash
<1>3. ASSUME NEW m \in Msgs, NEW ok \in BOOLEAN, PublishStore(m, ok) PROVE cutShort' = cutShort
  BY ZenonT(30), <1>3 DEF PublishStore
<1>4. ASSUME NEW q \in Queues, NEW ok \in BOOLEAN, NEW c, Consume(q, c, ok) PROVE cutShort' = cutShort
  BY ZenonT(30), <1>4 DEF Consume
<1>5. ASSUME NEW q \in Queues, NEW ok \in BOOLEAN, DeleteBegin(q, ok) PROVE cutShort \subseteq cutShort'
  BY ZenonT(30), <1>5 DEF DeleteBegin, CutShort
<1>6. ASSUME NEW e \in Exchanges, NEW q \in Queues, NEW key, NEW ok \in BOOLEAN,
             BindQueue(e, q, key, ok) \/ UnbindQueue(e, q, key, ok)
      PROVE  cutShort \subseteq cutShort'
  BY ZenonT(30), <1>6 DEF BindQueue, UnbindQueue, CutShort
<1>7. ASSUME NEW e \in Exchanges, NEW ok \in BOOLEAN, DeleteUnbind(e, ok) PROVE cutShort \subseteq cutShort'
  BY ZenonT(30), <1>7 DEF DeleteUnbind, CutShort
<1> QED
  BY ZenonT(30), <1>1, <1>2, <1>3, <1>4, <1>5, <1>6, <1>7, HistKinds

\* In an orderly run the appends of DeleteQueue and UnbindQueue succeed.
LEMMA OrderlyAppends ==
  ASSUME Orderly', NEW ok \in BOOLEAN, CutShort("delete", ok) \/ CutShort("unbind", ok)
  PROVE  ok = TRUE
<1>1. ASSUME ~ok PROVE FALSE
  <2>1. "delete" \in cutShort' \/ "unbind" \in cutShort'
    BY ZenonT(30), <1>1 DEF CutShort
  <2> QED
    BY ZenonT(30), <2>1 DEF Orderly
<1> QED
  BY ZenonT(30), <1>1

\* NewBroker returns an error of an append only if one failed.
LEMMA NeverFails ==
  ASSUME Typed, boot # "failed", [Next]_vars, faults' = 0
  PROVE  boot' # "failed"
<1>1. CASE UNCHANGED <<booting, deletion>>
  BY ZenonT(30), <1>1
<1>2. CASE BootLoad \/ BootUnreadable \/ BootRefused \/ Crash
  BY ZenonT(30), <1>2 DEF BootLoad, BootUnreadable, BootRefused, Crash
<1>4. ASSUME NEW ok \in BOOLEAN, BootBind(ok) \/ BootReady(ok) PROVE boot' # "failed"
  BY ZenonT(30), <1>4, AppendDone DEF BootBind, BootReady
<1>5. ASSUME NEW e \in Exchanges, NEW ok \in BOOLEAN, BootExchange(e, ok) PROVE boot' # "failed"
  BY ZenonT(30), <1>5, AppendDone DEF BootExchange
<1>6. ASSUME NEW e \in Exchanges, NEW ok \in BOOLEAN, DeleteUnbind(e, ok) PROVE boot' # "failed"
  BY ZenonT(30), <1>6 DEF DeleteUnbind
<1>7. ASSUME NEW q \in Queues, NEW ok \in BOOLEAN, DeleteBegin(q, ok) PROVE boot' # "failed"
  BY ZenonT(30), <1>7 DEF DeleteBegin
<1> QED
  BY ZenonT(30), <1>1, <1>2, <1>4, <1>5, <1>6, <1>7, BootKinds

\* The other two ways NewBroker gives up have the cause they should have.
ErrorsCaused == (boot = "unreadable" => torn) /\ (boot = "failed" => faults # 0)

\* A torn record and a failed append are not forgotten.
LEMMA ErrorsInvariant == Spec => []ErrorsCaused
<1>1. Init => ErrorsCaused
  BY ZenonT(30) DEF Init, ErrorsCaused
<1>2. ASSUME Typed, ErrorsCaused, [Next]_vars PROVE ErrorsCaused'
  <2>0. Worsens
    BY ZenonT(30), <1>2, LogWorsens
  <2>1. ASSUME boot' = "failed", faults' = 0 PROVE FALSE
    <3>1. boot # "failed"
      BY ZenonT(30), <1>2, <2>0, <2>1 DEF Worsens, ErrorsCaused
    <3> QED
      BY ZenonT(30), <1>2, <2>1, <3>1, NeverFails
  <2>2. ASSUME boot' = "unreadable" PROVE torn'
    <3>1. CASE boot = "unreadable"
      BY ZenonT(30), <1>2, <2>0, <3>1 DEF Worsens, ErrorsCaused
    <3>2. CASE boot # "unreadable"
      <4>1. boot = "down" /\ ~BootLoad
        BY ZenonT(30), <1>2, <2>2, <3>2, BootFlow DEF Crash, BootLoad
      <4>2. \A e, q, ok : ~BootExchange(e, ok) /\ ~DeleteBegin(q, ok) /\ ~BootBind(ok) /\ ~BootReady(ok)
        <5>1. \A e, ok : ~BootExchange(e, ok)
          BY ZenonT(30), <4>1 DEF BootExchange
        <5>2. \A q, ok : ~DeleteBegin(q, ok)
          BY ZenonT(30), <4>1 DEF DeleteBegin, Free
        <5>3. \A ok : ~BootBind(ok) /\ ~BootReady(ok)
          BY ZenonT(30), <4>1 DEF BootBind, BootReady
        <5> QED
          BY ZenonT(30), <5>1, <5>2, <5>3
      <4>3. \A e, ok : DeleteUnbind(e, ok) => boot' = boot
        BY ZenonT(30) DEF DeleteUnbind
      <4>4. BootUnreadable
        BY ZenonT(30), <1>2, <2>2, <4>1, <4>2, <4>3, BootKinds DEF Crash, BootRefused
      <4> QED
        BY ZenonT(30), <4>4 DEF BootUnreadable
    <3> QED
      BY ZenonT(30), <3>1, <3>2
  <2> QED
    BY ZenonT(30), <2>1, <2>2 DEF ErrorsCaused
<1> QED
  BY <1>1, <1>2, TypedInvariant, PTL DEF Spec

\* An orderly run has been orderly.
LEMMA OrderlyStep ==
  ASSUME [Next]_vars, Orderly'
  PROVE  Orderly
BY ZenonT(30), CutShortGrows DEF Orderly

\* The binding at hand can be restored.
LEMMA HeadGood ==
  ASSUME Typed, PlanGood, rest # <<>>
  PROVE  LET b == Head(rest)
         IN /\ queues[b.queue] # "none" /\ ~HasBinding(bindings[at], b.key, b.queue)
            /\ Distinct(Tail(rest)) /\ b \notin Members(Tail(rest))
            /\ Members(Tail(rest)) \subseteq Members(rest)
<1> DEFINE b == Head(rest)
<1>1. /\ b.key \in Keys /\ b.queue \in Queues /\ b = [queue |-> b.queue, key |-> b.key]
      /\ at \in Exchanges /\ Members(rest) = {b} \cup Members(Tail(rest))
      /\ Distinct(rest) => Distinct(Tail(rest)) /\ b \notin Members(Tail(rest))
  BY ZenonT(30), RestHead
<1>2. Restorable(rest, Existing) /\ Members(rest) \cap Members(bindings[at]) = {}
  BY ZenonT(30) DEF PlanGood
<1> HIDE DEF b
<1>3. b.queue \in Existing /\ Distinct(rest)
  BY ZenonT(30), <1>1, <1>2 DEF Restorable
<1>4. ~HasBinding(bindings[at], b.key, b.queue)
  <2>1. b \notin Members(bindings[at]) /\ bindings[at] \in Seq(Binding)
    BY ZenonT(30), <1>1, <1>2 DEF Typed, TableType
  <2> QED
    BY ZenonT(30), <1>1, <2>1, HasMember
<1>5. /\ queues[b.queue] # "none" /\ ~HasBinding(bindings[at], b.key, b.queue)
      /\ Distinct(Tail(rest)) /\ b \notin Members(Tail(rest))
      /\ Members(Tail(rest)) \subseteq Members(rest)
  BY ZenonT(30), <1>1, <1>3, <1>4 DEF Existing
<1> QED
  BY ZenonT(30), <1>5 DEF b

\* A log that can be restored is not refused.
LEMMA NeverRefused ==
  ASSUME Typed, LogGood, [Next]_vars
  PROVE  boot' # "refused"
<1>0. boot # "refused"
  BY ZenonT(30) DEF LogGood
<1>1. CASE UNCHANGED <<booting, deletion>>
  BY ZenonT(30), <1>0, <1>1
<1>2. CASE BootLoad \/ BootUnreadable \/ Crash
  BY ZenonT(30), <1>2 DEF BootLoad, BootUnreadable, Crash
<1>3. ~BootRefused
  BY ZenonT(30), HeadGood DEF BootRefused, LogGood
<1>4. ASSUME NEW ok \in BOOLEAN, BootBind(ok) \/ BootReady(ok) PROVE boot' # "refused"
  BY ZenonT(30), <1>0, <1>4 DEF BootBind, BootReady
<1>5. ASSUME NEW e \in Exchanges, NEW ok \in BOOLEAN, BootExchange(e, ok) \/ DeleteUnbind(e, ok)
      PROVE  boot' # "refused"
  BY ZenonT(30), <1>0, <1>5 DEF BootExchange, DeleteUnbind
<1>6. ASSUME NEW q \in Queues, NEW ok \in BOOLEAN, DeleteBegin(q, ok) PROVE boot' # "refused"
  BY ZenonT(30), <1>0, <1>6 DEF DeleteBegin
<1> QED
  BY ZenonT(30), <1>1, <1>2, <1>3, <1>4, <1>5, <1>6, BootKinds

\* Only DeleteQueue takes a queue out of the log, and a new queue is in the log.
LEMMA QueueMove ==
  ASSUME Typed, [Next]_vars, ~Crash, ~BootLoad
  PROVE  \/ disk.queues \subseteq disk'.queues /\ Existing' \subseteq Existing \cup disk'.queues
         \/ \E q \in Queues, ok \in BOOLEAN : DeleteBegin(q, ok)
<1> DEFINE Logged == disk.queues \subseteq disk'.queues
           Known == Existing' \subseteq Existing \cup disk'.queues
<1>0. disk \in Disks /\ queues \in [Queues -> {"none", "open", "closed"}]
  BY ZenonT(30) DEF Typed, LogType, QueueType
<1>1. SameQueues(disk') => Logged
  BY ZenonT(30) DEF SameQueues
<1>2. queues' = queues => Known
  BY ZenonT(30) DEF Existing
<1>3. ASSUME NEW after, NEW ok, Appended(after, ok), disk.queues \subseteq after.queues PROVE Logged
  BY ZenonT(30), <1>3, AppendFrame
<1>4. ASSUME NEW q \in Queues, NEW ok \in BOOLEAN, CreateQueue(q, ok) PROVE Logged /\ Known
  <2>1. Appended(QueueCreated(q), ok) /\ QueueCreated(q).queues = disk.queues \cup {q}
    BY ZenonT(30), <1>0, <1>4, RecordValues DEF CreateQueue
  <2>2. Logged
    BY ZenonT(30), <1>3, <2>1
  <2>3. CASE ok
    <3>1. queues' = [queues EXCEPT ![q] = "open"]
      BY ZenonT(30), <1>4, <2>3 DEF CreateQueue
    <3>2. q \in disk'.queues
      <4>1. disk' = QueueCreated(q)
        BY ZenonT(30), <2>1, <2>3, AppendFrame
      <4> QED
        BY ZenonT(30), <2>1, <4>1
    <3>3. \A p \in Queues : p # q => queues'[p] = queues[p]
      BY ZenonT(30), <1>0, <3>1
    <3>4. Known
      BY ZenonT(30), <3>2, <3>3 DEF Existing
    <3> QED
      BY ZenonT(30), <2>2, <3>4
  <2>4. CASE ~ok
    BY ZenonT(30), <1>2, <1>4, <2>2, <2>4 DEF CreateQueue
  <2> QED
    BY ZenonT(30), <2>3, <2>4
<1>5. ASSUME NEW m \in Msgs, NEW ok \in BOOLEAN, PublishStore(m, ok) PROVE Logged /\ Known
  <2>1. queues' = queues /\ (disk' = disk \/ \E q \in Queues : \E c : Appended(Published(q, c), ok))
    <3>1. pub[m].pc = "store" => Head(pub[m].todo).queue \in Queues
      BY ZenonT(30), AtHand
    <3> QED
      BY ZenonT(30), <1>5, <3>1 DEF PublishStore
  <2>2. ASSUME NEW q \in Queues, NEW c, Appended(Published(q, c), ok) PROVE Logged
    <3>1. Published(q, c).queues = disk.queues \cup {q}
      BY ZenonT(30), <1>0, RecordValues
    <3> QED
      BY ZenonT(30), <1>3, <2>2, <3>1
  <2> QED
    BY ZenonT(30), <1>2, <2>1, <2>2
<1>6. ASSUME NEW q \in Queues, NEW ok \in BOOLEAN, NEW c, Consume(q, c, ok) PROVE Logged /\ Known
  <2>1. Acknowledged(q, c).queues = disk.queues \cup {q}
    BY ZenonT(30), <1>0, RecordValues
  <2>2. queues' = queues /\ Appended(Acknowledged(q, c), ok)
    BY ZenonT(30), <1>6 DEF Consume
  <2> QED
    BY ZenonT(30), <1>2, <1>3, <2>1, <2>2
<1>7. ASSUME NEW q \in Queues, ShutdownQueue(q) PROVE Known
  BY ZenonT(30), <1>0, <1>7 DEF ShutdownQueue, Existing
<1>8. ShutdownBegin => Known
  BY ZenonT(30), <1>2 DEF ShutdownBegin
<1> HIDE DEF Logged, Known
<1>9. \/ Logged /\ Known
      \/ \E q \in Queues, ok \in BOOLEAN : DeleteBegin(q, ok)
  <2>1. Logged \/ \E q \in Queues, ok \in BOOLEAN : DeleteBegin(q, ok)
    BY ZenonT(30), <1>1, <1>4, <1>5, <1>6, QueueRecords
  <2>2. Known \/ \E q \in Queues, ok \in BOOLEAN : DeleteBegin(q, ok)
    BY ZenonT(30), <1>2, <1>4, <1>5, <1>6, <1>7, <1>8, QueueKinds
  <2> QED
    BY ZenonT(30), <2>1, <2>2
<1> QED
  BY ZenonT(30), <1>9 DEF Logged, Known

\* The log keeps its list of e, and memory what it has of e.
ListStays(e) ==
  /\ disk'.bindings[e] = disk.bindings[e]
  /\ Running' => /\ Running /\ Members(bindings[e]) \subseteq Members(bindings'[e])
                 /\ Planned(e) => Planned(e)'

\* The list of e gets one binding more, or loses some, in the log and in memory.
ListAdds(e, key, q) ==
  /\ Running /\ ~Planned(e) /\ queues[q] # "none" /\ ~HasBinding(bindings[e], key, q)
  /\ disk'.bindings[e] = Bind(disk.bindings[e], key, q)
  /\ bindings'[e] = Bind(bindings[e], key, q)
ListDrops(e, key, q) ==
  /\ Running /\ ~Planned(e)
  /\ disk'.bindings[e] = Unbind(disk.bindings[e], key, q)
  /\ bindings'[e] = Unbind(bindings[e], key, q)

\* What a step does to the list of e in the log.
ListMove(e) ==
  \/ ListStays(e) \/ disk'.bindings[e] = <<>>
  \/ \E key \in Keys, q \in Queues : ListAdds(e, key, q)
  \/ \E key, q : ListDrops(e, key, q)

\* Every step does one of these, if the appends of DeleteQueue and UnbindQueue
\* succeed; those of the other operations may fail.
LEMMA ListStep ==
  ASSUME Typed, Sound, [Next]_vars, ~Crash, ~BootLoad, Orderly', NEW e \in Exchanges
  PROVE  ListMove(e)
<1>0. /\ disk \in Disks /\ at \in Exchanges /\ DefaultExchange \in Exchanges
      /\ DOMAIN disk.bindings = Exchanges /\ DOMAIN bindings = Exchanges
      /\ \A d \in Exchanges : disk.exchanges[d] = "none" => disk.bindings[d] = <<>>
      /\ disk.exchanges[DefaultExchange] = "none"
  BY ZenonT(30), NameAssumption DEF Typed, LogType, BootType, TableType, Disks, Sound, DiskSound
<1>10. ASSUME NEW d \in Exchanges, NEW v
       PROVE  /\ Changed(disk.bindings, d, v)[d] = v /\ Changed(bindings, d, v)[d] = v
              /\ d # e => Changed(disk.bindings, d, v)[e] = disk.bindings[e] /\ Changed(bindings, d, v)[e] = bindings[e]
  BY ZenonT(30), <1>0 DEF Changed
<1>1. Running' => Running
  BY ZenonT(30), BootFlow DEF Running
<1>2. ASSUME disk'.bindings[e] = disk.bindings[e], UNCHANGED <<boot, plan>>,
             Members(bindings[e]) \subseteq Members(bindings'[e])
      PROVE  ListMove(e)
  BY ZenonT(30), <1>1, <1>2 DEF ListMove, ListStays, Planned
<1>3. ASSUME NEW d \in Exchanges \ {e}, disk'.bindings = disk.bindings \/ \E v : disk'.bindings = Changed(disk.bindings, d, v)
      PROVE  disk'.bindings[e] = disk.bindings[e]
  <2>1. ASSUME NEW v, disk'.bindings = Changed(disk.bindings, d, v) PROVE disk'.bindings[e] = disk.bindings[e]
    BY <1>10, <2>1
  <2> QED
    BY ZenonT(30), <1>3, <2>1
\* A binding more: BindQueue, and NewBroker restoring one.
<1>4. ASSUME NEW d \in Exchanges, NEW key \in Keys, NEW q \in Queues, NEW ok \in BOOLEAN, UNCHANGED plan,
             Running, ~Planned(d), queues[q] # "none", ~HasBinding(bindings[d], key, q),
             boot' = boot \/ boot' = "failed",
             bindings' = Changed(bindings, d, Bind(bindings[d], key, q)), Appended(QueueBinded(d, key, q), ok)
      PROVE  ListMove(e)
  <2>1. \/ disk'.bindings = disk.bindings
        \/ disk'.bindings = Changed(disk.bindings, d, Bind(disk.bindings[d], key, q))
    <3>1. disk' = disk \/ disk' = QueueBinded(d, key, q)
      BY ZenonT(30), <1>4, AppendFrame
    <3> QED
      BY <1>0, <3>1, BindingValues
  <2>2. \A c \in Exchanges : bindings[c] \in Seq(Binding)
    BY ZenonT(30) DEF Typed, TableType
  <2>3. CASE d # e
    <3>1. bindings'[e] = bindings[e]
      BY ZenonT(30), <1>4, <1>10, <2>3
    <3>2. disk'.bindings[e] = disk.bindings[e]
      BY ZenonT(30), <1>3, <2>1, <2>3
    <3> QED
      BY ZenonT(30), <1>1, <1>4, <3>1, <3>2 DEF ListMove, ListStays, Planned, Running
  <2>4. CASE d = e
    <3>1. bindings'[e] = Bind(bindings[e], key, q)
      BY ZenonT(30), <1>4, <1>10, <2>4
    <3>2. Members(bindings[e]) \subseteq Members(bindings'[e])
      <4>1. Members(Bind(bindings[e], key, q)) = Members(bindings[e]) \cup {[queue |-> q, key |-> key]}
        BY ZenonT(30), <1>4, <2>2, BindList
      <4> QED
        BY ZenonT(30), <3>1, <4>1
    <3>3. disk'.bindings[e] = disk.bindings[e] \/ disk'.bindings[e] = Bind(disk.bindings[e], key, q)
      BY <1>10, <2>1, <2>4
    <3>4. CASE disk'.bindings[e] = disk.bindings[e]
      BY ZenonT(30), <1>1, <1>4, <3>2, <3>4, <2>4 DEF ListMove, ListStays
    <3>5. CASE disk'.bindings[e] = Bind(disk.bindings[e], key, q)
      BY ZenonT(30), <1>4, <2>4, <3>1, <3>5 DEF ListMove, ListAdds
    <3> QED
      BY ZenonT(30), <3>3, <3>4, <3>5
  <2> QED
    BY ZenonT(30), <2>3, <2>4
\* Bindings less: UnbindQueue, and DeleteQueue at one exchange.
<1>5. ASSUME NEW d \in Exchanges, NEW key, NEW q, UNCHANGED <<boot, plan>>, boot = "up",
             bindings' = Changed(bindings, d, Unbind(bindings[d], key, q)), disk' = QueueUnbinded(d, key, q)
      PROVE  ListMove(e)
  <2>1. \/ disk.exchanges[d] = "none" /\ disk'.bindings = disk.bindings
        \/ disk'.bindings = Changed(disk.bindings, d, Unbind(disk.bindings[d], key, q))
    BY <1>0, <1>5, BindingValues
  <2>2. CASE d # e
    <3>1. bindings'[e] = bindings[e]
      BY ZenonT(30), <1>5, <1>10, <2>2
    <3>2. disk'.bindings[e] = disk.bindings[e]
      BY ZenonT(30), <1>3, <2>1, <2>2
    <3> QED
      BY ZenonT(30), <1>2, <1>5, <3>1, <3>2
  <2>3. CASE d = e
    <3>1. bindings'[e] = Unbind(bindings[e], key, q)
      BY ZenonT(30), <1>5, <1>10, <2>3
    <3>2. disk'.bindings[e] = <<>> \/ disk'.bindings[e] = Unbind(disk.bindings[e], key, q)
      BY <1>0, <1>10, <2>1, <2>3
    <3>3. Running /\ ~Planned(e)
      BY ZenonT(30), <1>5 DEF Running, Planned
    <3> QED
      BY ZenonT(30), <3>1, <3>2, <3>3 DEF ListMove, ListDrops
  <2> QED
    BY ZenonT(30), <2>2, <2>3
\* The list of an exchange that is created or deleted.
<1>6. ASSUME NEW d \in Exchanges, NEW t, NEW ok \in BOOLEAN,
             Appended(ExchangeCreated(d, t), ok) \/ Appended(ExchangeDeleted(d), ok)
      PROVE  disk'.bindings[e] = disk.bindings[e] \/ (e = d /\ disk'.bindings[e] = <<>>)
  <2>1. disk' = disk \/ disk' = ExchangeCreated(d, t) \/ disk' = ExchangeDeleted(d)
    BY ZenonT(30), <1>6, AppendFrame
  <2>2. disk'.bindings = disk.bindings \/ disk'.bindings = Changed(disk.bindings, d, <<>>)
    BY ZenonT(30), <1>0, <2>1, ExchangeValues
  <2>3. CASE d # e
    BY ZenonT(30), <1>3, <2>2, <2>3
  <2>4. CASE d = e
    BY <1>10, <2>2, <2>4
  <2> QED
    BY ZenonT(30), <2>3, <2>4
<1>7. ASSUME NEW ok \in BOOLEAN, BootBind(ok) PROVE ListMove(e)
  <2> DEFINE h == Head(rest)
  <2>1. /\ rest # <<>> /\ boot = "exchanges" /\ queues[h.queue] # "none" /\ plan' = plan
        /\ ~HasBinding(bindings[at], h.key, h.queue) /\ Appended(QueueBinded(at, h.key, h.queue), ok)
        /\ bindings' = Changed(bindings, at, Bind(bindings[at], h.key, h.queue))
        /\ boot' = boot \/ boot' = "failed"
    BY ZenonT(30), <1>7 DEF BootBind, Changed
  <2>2. h.key \in Keys /\ h.queue \in Queues
    BY ZenonT(30), <2>1, RestHead
  <2>3. Running /\ ~Planned(at)
    BY ZenonT(30), <2>1 DEF Sound, BootSound, Running, Planned
  <2> HIDE DEF h
  <2> QED
    BY ZenonT(30), <1>0, <1>4, <2>1, <2>2, <2>3
<1>8. ASSUME NEW ok \in BOOLEAN, BootReady(ok) PROVE ListMove(e)
  <2>0. DefaultKey \in Keys /\ DefaultQueue \in Queues
    BY ZenonT(30), NameAssumption
  <2>1. /\ bindings' = Changed(bindings, DefaultExchange, Bind(bindings[DefaultExchange], DefaultKey, DefaultQueue))
        /\ Appended(QueueBinded(DefaultExchange, DefaultKey, DefaultQueue), ok)
        /\ boot = "exchanges" /\ plan[e].type = "none"
    BY ZenonT(30), <1>8 DEF BootReady, Changed
  <2>2. QueueBinded(DefaultExchange, DefaultKey, DefaultQueue) = disk
    BY ZenonT(30), <1>0 DEF QueueBinded
  <2>3. disk' = disk
    BY ZenonT(30), <2>1, <2>2, AppendFrame
  <2>4. Members(bindings[e]) \subseteq Members(bindings'[e])
    <3>1. CASE e # DefaultExchange
      BY ZenonT(30), <1>0, <1>10, <2>1, <3>1
    <3>2. CASE e = DefaultExchange
      <4>1. bindings[e] \in Seq(Binding)
        BY ZenonT(30) DEF Typed, TableType
      <4>2. Members(Bind(bindings[e], DefaultKey, DefaultQueue)) =
              Members(bindings[e]) \cup {[queue |-> DefaultQueue, key |-> DefaultKey]}
        BY ZenonT(30), <2>0, <4>1, BindList
      <4>3. bindings'[e] = Bind(bindings[e], DefaultKey, DefaultQueue)
        BY ZenonT(30), <1>0, <1>10, <2>1, <3>2
      <4> QED
        BY ZenonT(30), <4>2, <4>3
    <3> QED
      BY ZenonT(30), <3>1, <3>2
  <2> QED
    BY ZenonT(30), <1>1, <2>1, <2>3, <2>4 DEF ListMove, ListStays, Planned
<1>9. ASSUME NEW d \in Exchanges, NEW ok \in BOOLEAN, BootExchange(d, ok) PROVE ListMove(e)
  <2>1. /\ Appended(ExchangeCreated(d, plan[d].type), ok) /\ bindings' = bindings
        /\ DOMAIN plan = Exchanges /\ boot = "exchanges"
    BY ZenonT(30), <1>9 DEF BootExchange, Typed, BootType
  <2>2. disk'.bindings[e] = disk.bindings[e] \/ (e = d /\ disk'.bindings[e] = <<>>)
    BY ZenonT(30), <1>6, <2>1
  <2>3. CASE e # d /\ ok
    <3>1. boot' = boot /\ plan'[e] = plan[e]
      BY ZenonT(30), <1>9, <2>1, <2>3 DEF BootExchange
    <3> QED
      BY ZenonT(30), <1>1, <2>1, <2>2, <2>3, <3>1 DEF ListMove, ListStays, Planned
  <2>4. CASE e = d /\ ok
    <3>1. disk' = ExchangeCreated(d, plan[d].type)
      BY ZenonT(30), <2>1, <2>4, AppendFrame
    <3>2. disk'.bindings = Changed(disk.bindings, d, <<>>)
      BY ZenonT(30), <1>0, <3>1, ExchangeValues
    <3>3. disk'.bindings[e] = <<>>
      BY <1>10, <2>4, <3>2
    <3> QED
      BY ZenonT(30), <3>3 DEF ListMove
  <2>5. CASE ~ok
    <3>1. ~Running'
      BY ZenonT(30), <1>9, <2>5 DEF BootExchange, Running
    <3> QED
      BY ZenonT(30), <2>2, <3>1 DEF ListMove, ListStays
  <2> QED
    BY ZenonT(30), <2>3, <2>4, <2>5
<1>11. ASSUME NEW d \in Exchanges, NEW ok \in BOOLEAN, NEW t, CreateExchange(d, t, ok) PROVE ListMove(e)
  <2>1. Appended(ExchangeCreated(d, t), ok) /\ bindings' = bindings /\ UNCHANGED <<boot, plan>>
    BY ZenonT(30), <1>11 DEF CreateExchange
  <2>2. disk'.bindings[e] = disk.bindings[e] \/ disk'.bindings[e] = <<>>
    BY ZenonT(30), <1>6, <2>1
  <2> QED
    BY ZenonT(30), <1>2, <2>1, <2>2 DEF ListMove
<1>12. ASSUME NEW d \in Exchanges, NEW ok \in BOOLEAN, DeleteExchange(d, ok) PROVE ListMove(e)
  <2>1. Appended(ExchangeDeleted(d), ok) /\ bindings'[e] = bindings[e] /\ UNCHANGED <<boot, plan>>
    BY ZenonT(30), <1>0, <1>12 DEF DeleteExchange, MayDeleteExchange
  <2>2. disk'.bindings[e] = disk.bindings[e] \/ disk'.bindings[e] = <<>>
    BY ZenonT(30), <1>6, <2>1
  <2> QED
    BY ZenonT(30), <1>2, <2>1, <2>2 DEF ListMove
<1>13. ASSUME NEW d \in Exchanges, NEW q \in Queues, NEW key \in Keys, NEW ok \in BOOLEAN, BindQueue(d, q, key, ok)
       PROVE  ListMove(e)
  <2>1. /\ boot = "up" /\ queues[q] # "none" /\ ~HasBinding(bindings[d], key, q) /\ UNCHANGED <<boot, plan>>
        /\ bindings' = Changed(bindings, d, Bind(bindings[d], key, q)) /\ Appended(QueueBinded(d, key, q), ok)
    BY ZenonT(30), <1>13 DEF BindQueue, Free, Changed
  <2>2. Running /\ ~Planned(d)
    BY ZenonT(30), <2>1 DEF Running, Planned
  <2> QED
    BY ZenonT(30), <1>4, <2>1, <2>2
<1>14. ASSUME NEW d \in Exchanges, NEW q \in Queues, NEW key, NEW ok \in BOOLEAN, UnbindQueue(d, q, key, ok)
       PROVE  ListMove(e)
  <2>1. /\ boot = "up" /\ UNCHANGED <<boot, plan>> /\ Appended(QueueUnbinded(d, key, q), ok)
        /\ bindings' = Changed(bindings, d, Unbind(bindings[d], key, q)) /\ ok = TRUE
    BY ZenonT(30), <1>14, OrderlyAppends DEF UnbindQueue, Free, Changed
  <2>2. disk' = QueueUnbinded(d, key, q)
    BY ZenonT(30), <2>1, AppendFrame
  <2> QED
    BY ZenonT(30), <1>5, <2>1, <2>2
<1>15. ASSUME NEW d \in Exchanges, NEW ok \in BOOLEAN, DeleteUnbind(d, ok) PROVE ListMove(e)
  <2>1. boot = "up" /\ UNCHANGED <<boot, plan>> /\ ok = TRUE
    BY ZenonT(30), <1>15, OrderlyAppends DEF DeleteUnbind, Sound, BootSound
  <2>2. CASE HasBinding(bindings[d], NoKey, deleting)
    <3>1. /\ Appended(QueueUnbinded(d, NoKey, deleting), ok)
          /\ bindings' = Changed(bindings, d, Unbind(bindings[d], NoKey, deleting))
      BY ZenonT(30), <1>15, <2>2 DEF DeleteUnbind, Changed
    <3>2. disk' = QueueUnbinded(d, NoKey, deleting)
      BY ZenonT(30), <2>1, <3>1, AppendFrame
    <3> QED
      BY ZenonT(30), <1>5, <2>1, <3>1, <3>2
  <2>3. CASE ~HasBinding(bindings[d], NoKey, deleting)
    BY ZenonT(30), <1>2, <1>15, <2>1, <2>3 DEF DeleteUnbind
  <2> QED
    BY ZenonT(30), <2>2, <2>3
<1>16. ASSUME SameTables(disk'), UNCHANGED <<exchanges, bindings>>,
              \A ok \in BOOLEAN : ~BootBind(ok) /\ ~BootReady(ok),
              \A d \in Exchanges, ok \in BOOLEAN : ~BootExchange(d, ok) /\ ~DeleteUnbind(d, ok)
       PROVE  ListMove(e)
  <2>1. (boot' = boot /\ plan' = plan) \/ ~Running'
    <3>1. BootUnreadable \/ BootRefused => ~Running'
      BY ZenonT(30) DEF BootUnreadable, BootRefused, Running
    <3>2. ASSUME NEW q \in Queues, NEW ok \in BOOLEAN, DeleteBegin(q, ok) PROVE boot' = boot /\ plan' = plan
      BY ZenonT(30), <3>2 DEF DeleteBegin
    <3> QED
      BY ZenonT(30), <1>16, <3>1, <3>2, BootKinds
  <2> QED
    BY ZenonT(30), <1>2, <1>16, <2>1 DEF SameTables, ListMove, ListStays
<1> QED
  <2>1. \/ SameTables(disk') /\ UNCHANGED <<exchanges, bindings>>
        \/ \E ok \in BOOLEAN : BootBind(ok) \/ BootReady(ok)
        \/ \E d \in Exchanges, ok \in BOOLEAN :
             \/ BootExchange(d, ok) \/ DeleteExchange(d, ok) \/ DeleteUnbind(d, ok)
             \/ \E t \in Kinds : CreateExchange(d, t, ok)
             \/ \E q \in Queues, key \in Keys : BindQueue(d, q, key, ok)
             \/ \E q \in Queues, key \in Keys \cup {NoKey} : UnbindQueue(d, q, key, ok)
    BY ZenonT(30), TableKinds, TableRecords
  <2> QED
    BY ZenonT(30), <1>7, <1>8, <1>9, <1>11, <1>12, <1>13, <1>14, <1>15, <1>16, <2>1

\* Before NewBroker has loaded the log nothing is written to it.
LEMMA LogQuiet ==
  ASSUME Typed, Sound, [Next]_vars, boot \in {"down", "unreadable"}
  PROVE  SameQueues(disk') /\ SameTables(disk')
<1>1. ~Free /\ deleting = NoQueue
  BY ZenonT(30) DEF Free, Sound, BootSound
<1>2. SameQueues(disk')
  <2>1. \A q \in Queues, ok \in BOOLEAN : ~CreateQueue(q, ok) /\ ~DeleteBegin(q, ok)
    BY ZenonT(30), <1>1 DEF CreateQueue, DeleteBegin
  <2>2. \A m \in Msgs, ok \in BOOLEAN : ~PublishStore(m, ok)
    BY ZenonT(30) DEF PublishStore
  <2>3. \A q \in Queues, ok \in BOOLEAN : \A c \in pending[q] : ~Consume(q, c, ok)
    BY ZenonT(30) DEF Consume
  <2> QED
    BY ZenonT(30), <2>1, <2>2, <2>3, QueueRecords
<1>3. SameTables(disk')
  <2>1. \A ok \in BOOLEAN : ~BootBind(ok) /\ ~BootReady(ok)
    BY ZenonT(30) DEF BootBind, BootReady
  <2>2. \A e \in Exchanges, ok \in BOOLEAN : ~BootExchange(e, ok) /\ ~DeleteExchange(e, ok) /\ ~DeleteUnbind(e, ok)
    BY ZenonT(30), <1>1 DEF BootExchange, DeleteExchange, DeleteUnbind
  <2>3. \A e, t, q, key, ok : ~CreateExchange(e, t, ok) /\ ~BindQueue(e, q, key, ok) /\ ~UnbindQueue(e, q, key, ok)
    BY <1>1 DEF CreateExchange, BindQueue, UnbindQueue
  <2> QED
    BY ZenonT(30), <2>1, <2>2, <2>3, TableRecords
<1> QED
  BY ZenonT(30), <1>2, <1>3

\* The log can be restored in every state, also in the middle of NewBroker and
\* after failed appends.
LEMMA LogGoodInvariant == Spec => [](Orderly => LogGood)
\* The lists of the log stay distinct and within those of memory.
<1>ListGood.
      ASSUME Typed, Sound, LogGood, [Next]_vars, ~Crash, ~BootLoad, Orderly', NEW e \in Exchanges
      PROVE  /\ Distinct(disk'.bindings[e]) /\ (Running' => LogWithin(e)')
             /\ \A b \in Members(disk'.bindings[e]) : b \in Members(disk.bindings[e]) \/ b.queue \in LogQueues
  <2> USE <1>ListGood
  <2> DEFINE Goal == /\ Distinct(disk'.bindings[e]) /\ (Running' => LogWithin(e)')
                     /\ \A b \in Members(disk'.bindings[e]) : b \in Members(disk.bindings[e]) \/ b.queue \in LogQueues
  <2>0. /\ Distinct(disk.bindings[e]) /\ (Running => Existing \subseteq LogQueues /\ LogWithin(e))
        /\ disk.bindings[e] \in Seq(Binding) /\ bindings[e] \in Seq(Binding)
    BY ZenonT(30) DEF LogGood, Typed, LogType, Disks, TableType
  <2>1. CASE ListStays(e)
    BY ZenonT(30), <2>0, <2>1 DEF ListStays, LogWithin
  <2>2. CASE disk'.bindings[e] = <<>>
    BY ZenonT(30), <2>0, <2>2, MembersEmpty DEF LogWithin
  <2>3. ASSUME NEW key \in Keys, NEW q \in Queues, ListAdds(e, key, q) PROVE Goal
    <3> DEFINE b == [queue |-> q, key |-> key]
    <3>1. /\ Running /\ ~Planned(e) /\ q \in Existing /\ ~HasBinding(bindings[e], key, q)
          /\ disk'.bindings[e] = Bind(disk.bindings[e], key, q) /\ bindings'[e] = Bind(bindings[e], key, q)
      BY ZenonT(30), <2>3 DEF ListAdds, Existing
    <3>2. b.queue \in LogQueues
      BY ZenonT(30), <2>0, <3>1
    <3>3. b \notin Members(bindings[e]) /\ Members(disk.bindings[e]) \subseteq Members(bindings[e])
      BY ZenonT(30), <2>0, <3>1, HasMember DEF LogWithin
    <3>4. /\ Members(Bind(disk.bindings[e], key, q)) = Members(disk.bindings[e]) \cup {b}
          /\ Distinct(disk.bindings[e]) /\ b \notin Members(disk.bindings[e]) => Distinct(Bind(disk.bindings[e], key, q))
          /\ Members(Bind(bindings[e], key, q)) = Members(bindings[e]) \cup {b}
      <4>1. disk.bindings[e] \in Seq(Binding) /\ bindings[e] \in Seq(Binding)
        BY ZenonT(30), <2>0
      <4> HIDE <1>ListGood
      <4> QED
        BY ZenonT(30), <4>1, BindList
    <3> HIDE DEF b
    <3> QED
      BY ZenonT(30), <2>0, <3>1, <3>2, <3>3, <3>4 DEF LogWithin
  <2>4. ASSUME NEW key, NEW q, ListDrops(e, key, q) PROVE Goal
    <3>1. /\ Running /\ ~Planned(e) /\ disk'.bindings[e] = Unbind(disk.bindings[e], key, q)
          /\ bindings'[e] = Unbind(bindings[e], key, q)
      BY ZenonT(30), <2>4 DEF ListDrops
    <3>2. /\ Members(Unbind(disk.bindings[e], key, q)) = {b \in Members(disk.bindings[e]) : ~Selected(b, key, q)}
          /\ Distinct(disk.bindings[e]) => Distinct(Unbind(disk.bindings[e], key, q))
          /\ Members(Unbind(bindings[e], key, q)) = {b \in Members(bindings[e]) : ~Selected(b, key, q)}
      <4>1. disk.bindings[e] \in Seq(Binding)
        BY ZenonT(30), <2>0
      <4>2. bindings[e] \in Seq(Binding)
        BY ZenonT(30), <2>0
      <4> HIDE <1>ListGood
      <4>3. Members(Unbind(disk.bindings[e], key, q)) = {b \in Members(disk.bindings[e]) : ~Selected(b, key, q)}
        BY ZenonT(30), <4>1, UnbindList
      <4>4. Distinct(disk.bindings[e]) => Distinct(Unbind(disk.bindings[e], key, q))
        BY ZenonT(30), <4>1, UnbindList
      <4>5. Members(Unbind(bindings[e], key, q)) = {b \in Members(bindings[e]) : ~Selected(b, key, q)}
        BY ZenonT(30), <4>2, UnbindList
      <4> QED
        BY ZenonT(30), <4>3, <4>4, <4>5
    <3>3. Members(disk.bindings[e]) \subseteq Members(bindings[e])
      BY ZenonT(30), <2>0, <3>1 DEF LogWithin
    <3> QED
      BY ZenonT(30), <2>0, <3>1, <3>2, <3>3 DEF LogWithin
  <2> HIDE DEF Goal
  <2>5. Goal
    BY ZenonT(30), <2>1, <2>2, <2>3, <2>4, ListStep DEF ListMove, Goal
  <2> QED
    BY ZenonT(30), <2>5 DEF Goal
\* DeleteQueue begins: bindings of its queue are those of exchanges on its list.
<1>BeginGood.
      ASSUME Typed, Sound, LogGood, NEW q \in Queues, DeleteBegin(q, TRUE)
      PROVE  /\ \A e \in Exchanges : LogNames(e)'
             /\ Existing' \subseteq LogQueues'
  <2> USE <1>BeginGood
  <2>0. /\ disk \in Disks /\ queues \in [Queues -> {"none", "open", "closed"}] /\ NoQueue \notin Queues
        /\ \A e \in Exchanges : bindings[e] \in Seq(Binding) /\ disk.bindings[e] \in Seq(Binding)
    BY ZenonT(30), NameAssumption DEF Typed, LogType, QueueType, TableType, Disks
  <2>1. /\ boot = "up" /\ deleting = NoQueue /\ q # DefaultQueue
        /\ deleting' = q /\ unbinding' = {e \in Exchanges : exchanges[e] # "none"}
        /\ queues' = [queues EXCEPT ![q] = "none"] /\ Appended(QueueDeleted(q), TRUE)
    BY ZenonT(30) DEF DeleteBegin, Free
  <2>2. disk' = QueueDeleted(q)
    BY ZenonT(30), <2>1, AppendFrame
  <2>3. disk'.queues = disk.queues \ {q} /\ disk'.bindings = disk.bindings
    BY ZenonT(30), <2>0, <2>2, RecordValues, RecordFrames DEF SameTables
  <2>4. LogQueues' = LogQueues \ {q}
    BY ZenonT(30), <2>1, <2>3 DEF LogQueues
  <2>5. Existing' \subseteq LogQueues'
    <3>1. Existing \subseteq LogQueues
      BY ZenonT(30), <2>1 DEF LogGood, Running
    <3>2. Existing' = Existing \ {q}
      BY ZenonT(30), <2>0, <2>1 DEF Existing
    <3> QED
      BY ZenonT(30), <2>4, <3>1, <3>2
  <2>6. ASSUME NEW e \in Exchanges PROVE LogNames(e)'
    <3>1. Members(disk.bindings[e]) \subseteq Members(bindings[e]) /\ LogNames(e)
      BY ZenonT(30), <2>1 DEF LogGood, Running, LogWithin, Planned
    <3>2. exchanges[e] = "none" => Members(bindings[e]) = {}
      BY ZenonT(30), <2>0, MembersEmpty DEF Sound, TableSound
    <3>3. \A b \in Members(disk.bindings[e]) : b.queue \in Queues
      <4>1. Members(disk.bindings[e]) \subseteq Binding
        BY ZenonT(30), <2>0, MembersEmpty
      <4> QED
        BY ZenonT(30), <4>1 DEF Binding
    <3> QED
      BY ZenonT(30), <2>0, <2>1, <2>3, <2>4, <3>1, <3>2, <3>3 DEF LogNames
  <2> QED
    BY ZenonT(30), <2>5, <2>6
\* DeleteQueue at one exchange: no binding of its queue is left there.
<1>UnbindGood.
      ASSUME Typed, Sound, LogGood, NEW d \in Exchanges, DeleteUnbind(d, TRUE)
      PROVE  /\ \A e \in Exchanges : LogNames(e)'
             /\ Existing' \subseteq LogQueues'
  <2> USE <1>UnbindGood
  <2>0. /\ disk \in Disks /\ DOMAIN disk.bindings = Exchanges
        /\ \A e \in Exchanges : bindings[e] \in Seq(Binding) /\ disk.bindings[e] \in Seq(Binding)
    BY ZenonT(30) DEF Typed, LogType, TableType, Disks
  <2>1. /\ boot = "up" /\ d \in unbinding /\ unbinding' = unbinding \ {d} /\ queues' = queues
        /\ deleting' = IF unbinding' = {} THEN NoQueue ELSE deleting
    BY ZenonT(30) DEF DeleteUnbind, Sound, BootSound
  <2>2. disk' = disk \/ disk' = QueueUnbinded(d, NoKey, deleting)
    BY ZenonT(30), AppendFrame DEF DeleteUnbind
  <2>3. disk'.queues = disk.queues
    BY ZenonT(30), <2>0, <2>2, RecordFrames DEF SameQueues
  <2>4. Existing' = Existing /\ LogQueues' = LogQueues
    BY ZenonT(30), <2>1, <2>3 DEF Existing, LogQueues
  <2>5. Existing \subseteq LogQueues /\ \A e \in Exchanges : Members(disk.bindings[e]) \subseteq Members(bindings[e]) /\ LogNames(e)
    BY ZenonT(30), <2>1 DEF LogGood, Running, LogWithin, Planned
  <2>6. ASSUME NEW e \in Exchanges, e # d PROVE LogNames(e)'
    <3>1. disk'.bindings[e] = disk.bindings[e]
      <4>1. disk'.bindings = disk.bindings \/ \E v : disk'.bindings = Changed(disk.bindings, d, v)
        BY <2>0, <2>2, BindingValues
      <4> QED
        BY ZenonT(30), <2>0, <2>6, <4>1 DEF Changed
    <3>2. e \in unbinding => e \in unbinding' /\ deleting' = deleting
      BY ZenonT(30), <2>1, <2>6
    <3> QED
      BY ZenonT(30), <2>4, <2>5, <3>1, <3>2 DEF LogNames
  <2>7. LogNames(d)'
    <3>0. \A b \in Members(disk.bindings[d]) : ~Selected(b, NoKey, deleting) => b.queue # deleting
      BY ZenonT(30) DEF Selected
    <3>1. ASSUME NEW b \in Members(disk'.bindings[d])
          PROVE  b \in Members(disk.bindings[d]) /\ ~Selected(b, NoKey, deleting)
      <4>1. CASE HasBinding(bindings[d], NoKey, deleting)
        <5>1. disk' = QueueUnbinded(d, NoKey, deleting)
          BY ZenonT(30), <4>1, AppendFrame DEF DeleteUnbind
        <5>2. disk'.bindings[d] = <<>> \/ disk'.bindings[d] = Unbind(disk.bindings[d], NoKey, deleting)
          <6>1. CASE disk.exchanges[d] = "none"
            <7>1. disk'.bindings = disk.bindings /\ disk.bindings[d] = <<>>
              BY <2>0, <5>1, <6>1, BindingValues DEF Sound, DiskSound
            <7> QED
              BY ZenonT(30), <7>1
          <6>2. CASE disk.exchanges[d] # "none"
            <7>1. disk'.bindings = Changed(disk.bindings, d, Unbind(disk.bindings[d], NoKey, deleting))
              BY <2>0, <5>1, <6>2, BindingValues
            <7> QED
              BY <2>0, <7>1 DEF Changed
          <6> QED
            BY ZenonT(30), <6>1, <6>2
        <5>3. disk'.bindings[d] # <<>>
          BY ZenonT(30), <2>0, <3>1, MembersEmpty
        <5>4. Members(Unbind(disk.bindings[d], NoKey, deleting)) = {a \in Members(disk.bindings[d]) : ~Selected(a, NoKey, deleting)}
          BY ZenonT(30), <2>0, UnbindList
        <5> QED
          BY ZenonT(30), <3>1, <5>2, <5>3, <5>4
      <4>2. CASE ~HasBinding(bindings[d], NoKey, deleting)
        <5>1. disk' = disk
          BY ZenonT(30), <4>2 DEF DeleteUnbind
        <5>2. \A a \in Members(bindings[d]) : ~Selected(a, NoKey, deleting)
          BY ZenonT(30), <2>0, <4>2, HasMember
        <5> QED
          BY ZenonT(30), <2>5, <3>1, <5>1, <5>2
      <4> QED
        BY ZenonT(30), <4>1, <4>2
    <3> QED
      BY ZenonT(30), <2>4, <2>5, <3>0, <3>1 DEF LogNames
  <2> QED
    BY ZenonT(30), <2>4, <2>5, <2>6, <2>7
\* One step of the loops of NewBroker.
<1>RestGood.
      ASSUME Typed, Sound, PlanGood, [Next]_vars, boot = "exchanges", boot' = "exchanges"
      PROVE  PlanGood'
  <2> USE <1>RestGood
  <2>0. /\ \A e \in Exchanges : Restorable(plan[e].list, Existing)
        /\ Restorable(rest, Existing) /\ Members(rest) \cap Members(bindings[at]) = {}
        /\ at \in Exchanges /\ rest \in Seq(Binding) /\ DOMAIN plan = Exchanges
        /\ DOMAIN bindings = Exchanges /\ bindings[at] \in Seq(Binding)
    BY ZenonT(30) DEF PlanGood, Typed, BootType, TableType
  <2>1. Existing \subseteq Existing'
    <3>1. ~Crash /\ \A q \in Queues : ~DeleteBegin(q, TRUE)
      BY ZenonT(30) DEF Crash, DeleteBegin, Free
    <3>2. ASSUME NEW q \in Existing PROVE q \in Existing'
      BY ZenonT(30), <3>1, <3>2, QueueStands DEF Existing
    <3> QED
      BY ZenonT(30), <3>2
  <2>2. ASSUME NEW bs, Restorable(bs, Existing) PROVE Restorable(bs, Existing')
    BY ZenonT(30), <2>1, <2>2 DEF Restorable
  <2>3. Members(<<>>) = {} /\ Distinct(<<>>) /\ <<>> \in Seq(Binding)
    BY ZenonT(30), <2>0, MembersEmpty
  <2>4. CASE UNCHANGED <<exchanges, bindings, booting, deletion>>
    BY ZenonT(30), <2>0, <2>2, <2>4 DEF PlanGood
  <2>5. CASE BootBind(TRUE)
    <3> DEFINE b == Head(rest)
               bs == bindings[at]
    <3>1. /\ rest # <<>> /\ plan' = plan /\ at' = at /\ rest' = Tail(rest)
          /\ bindings' = Changed(bindings, at, Bind(bs, b.key, b.queue))
      BY ZenonT(30), <2>5 DEF BootBind, Changed
    <3>2. /\ Distinct(Tail(rest)) /\ b \notin Members(Tail(rest))
          /\ Members(Tail(rest)) \subseteq Members(rest)
      BY ZenonT(30), <3>1, HeadGood
    <3>3. b.queue \in Queues /\ b.key \in Keys /\ b = [queue |-> b.queue, key |-> b.key]
      BY ZenonT(30), <3>1, RestHead
    <3> HIDE DEF b, bs
    <3>4. bindings'[at] = Bind(bs, b.key, b.queue)
      BY <2>0, <3>1, ChangedAt
    <3>5. Members(Bind(bs, b.key, b.queue)) = Members(bs) \cup {b}
      BY ZenonT(30), <2>0, <3>3, BindList DEF bs
    <3>6. Restorable(rest', Existing)
      BY ZenonT(30), <2>0, <3>1, <3>2 DEF Restorable
    <3>7. Members(rest') \cap Members(bindings'[at']) = {}
      BY ZenonT(30), <2>0, <3>1, <3>2, <3>4, <3>5 DEF bs
    <3> QED
      BY ZenonT(30), <2>0, <2>2, <3>1, <3>6, <3>7 DEF PlanGood
  <2>6. ASSUME NEW e \in Exchanges, BootExchange(e, TRUE) PROVE PlanGood'
    <3>1. /\ at' = e /\ rest' = plan[e].list /\ bindings' = bindings /\ plan[e].type # "none"
          /\ plan'[e].list = <<>> /\ \A d \in Exchanges \ {e} : plan'[d] = plan[d]
      BY <2>0, <2>6 DEF BootExchange
    <3>2. bindings[e] = <<>>
      BY ZenonT(30), <3>1 DEF Sound, BootSound
    <3>3. Restorable(<<>>, Existing)
      BY ZenonT(30), <2>3 DEF Restorable
    <3> QED
      BY ZenonT(30), <2>0, <2>2, <2>3, <3>1, <3>2, <3>3 DEF PlanGood
  <2> QED
    BY ZenonT(30), <2>4, <2>5, <2>6, BootStep DEF Sound, BootLoad
\* Load has everything that NewBroker will look for.
<1>LoadGood.
      ASSUME Typed, Sound, LogGood, BootLoad
      PROVE  LogGood'
  <2> USE <1>LoadGood
  <2>0. Members(<<>>) = {} /\ Distinct(<<>>)
    <3>1. <<>> \in Seq(Binding)
      OBVIOUS
    <3> QED
      BY ZenonT(30), <3>1, MembersEmpty
  <2>1. /\ boot = "down" /\ boot' = "exchanges" /\ rest' = rest /\ \A e \in Exchanges : bindings'[e] = <<>>
        /\ at' = at /\ at \in Exchanges /\ UNCHANGED <<disk, deletion>>
        /\ \A e \in Exchanges : plan'[e].list = disk.bindings[e] /\ plan'[e].type = disk.exchanges[e]
    BY ZenonT(30) DEF BootLoad, NoBindings, Typed, BootType
  <2>2. Existing' = LogQueues /\ LogQueues' = LogQueues
    BY ZenonT(30), <2>1, NameAssumption DEF BootLoad, Existing, LogQueues, Typed, LogType, Disks
  <2>3. rest' = <<>> /\ deleting = NoQueue /\ NoQueue \notin Queues
    BY ZenonT(30), <2>1, NameAssumption DEF Sound, BootSound
  <2>4. ASSUME NEW e \in Exchanges PROVE Restorable(disk.bindings[e], LogQueues) /\ LogNames(e)' /\ LogWithin(e)'
    <3>1. Distinct(disk.bindings[e]) /\ LogNames(e)
      BY ZenonT(30) DEF LogGood
    <3>2. \A b \in Members(disk.bindings[e]) : b.queue \in Queues
      <4>1. Members(disk.bindings[e]) \subseteq Binding
        BY ZenonT(30), MembersEmpty DEF Typed, LogType, Disks
      <4> QED
        BY ZenonT(30), <4>1 DEF Binding
    <3>3. Restorable(disk.bindings[e], LogQueues)
      BY ZenonT(30), <2>3, <3>1, <3>2 DEF Restorable, LogNames
    <3>4. LogNames(e)'
      BY ZenonT(30), <2>1, <2>2, <3>1 DEF LogNames
    <3>5. CASE disk.exchanges[e] = "none"
      <4>1. disk'.bindings[e] = <<>>
        BY ZenonT(30), <2>1, <3>5 DEF Sound, DiskSound
      <4> QED
        BY ZenonT(30), <2>0, <3>3, <3>4, <4>1 DEF LogWithin
    <3>6. CASE disk.exchanges[e] # "none"
      BY ZenonT(30), <2>1, <3>3, <3>4, <3>6 DEF LogWithin, Planned
    <3> QED
      BY ZenonT(30), <3>5, <3>6
  <2>5. PlanGood'
    BY ZenonT(30), <2>0, <2>1, <2>2, <2>3, <2>4 DEF PlanGood, Restorable
  <2>6. \A e \in Exchanges : Distinct(disk'.bindings[e])
    BY ZenonT(30), <2>1 DEF LogGood
  <2> QED
    BY ZenonT(30), <2>1, <2>2, <2>4, <2>5, <2>6 DEF LogGood
\* A crash outside DeleteQueue leaves the log as it is.
<1>CrashGood.
      ASSUME Typed, LogGood, Crash, Orderly'
      PROVE  LogGood'
  <2> USE <1>CrashGood
  <2>1. /\ boot' = "down" /\ disk' = disk /\ NoQueue \notin Queues /\ deleting = NoQueue /\ unbinding' = {}
    BY ZenonT(30), NameAssumption DEF Crash, Orderly
  <2>2. ASSUME NEW e \in Exchanges PROVE Distinct(disk'.bindings[e]) /\ LogNames(e)'
    <3>1. Distinct(disk.bindings[e]) /\ LogNames(e)
      BY ZenonT(30) DEF LogGood
    <3>2. \A b \in Members(disk.bindings[e]) : b.queue \in Queues
      <4>1. Members(disk.bindings[e]) \subseteq Binding
        BY ZenonT(30), MembersEmpty DEF Typed, LogType, Disks
      <4> QED
        BY ZenonT(30), <4>1 DEF Binding
    <3> QED
      BY ZenonT(30), <2>1, <3>1, <3>2 DEF LogNames, LogQueues
  <2> QED
    BY ZenonT(30), <2>1, <2>2 DEF LogGood, Running
<1>LogGoodStep.
      ASSUME Typed, Sound, Orderly => LogGood, [Next]_vars, Orderly'
      PROVE  LogGood'
  <2> USE <1>LogGoodStep
  <2>0. LogGood
    BY ZenonT(30), OrderlyStep
  <2>1. CASE Crash
    BY ZenonT(30), <2>0, <2>1, <1>CrashGood
  <2>2. CASE BootLoad
    BY ZenonT(30), <2>0, <2>2, <1>LoadGood
  <2>3. CASE ~Crash /\ ~BootLoad
    <3>1. boot' # "refused"
      BY ZenonT(30), <2>0, NeverRefused
    <3>2. ASSUME NEW e \in Exchanges
          PROVE  /\ Distinct(disk'.bindings[e]) /\ (Running' => LogWithin(e)')
                 /\ \A b \in Members(disk'.bindings[e]) : b \in Members(disk.bindings[e]) \/ b.queue \in LogQueues
      BY ZenonT(30), <2>0, <2>3, <1>ListGood
    <3>3. boot' = "exchanges" => PlanGood'
      <4>1. boot' = "exchanges" => boot = "exchanges"
        BY ZenonT(30), <2>3, BootFlow
      <4> QED
        BY ZenonT(30), <2>0, <4>1, <1>RestGood DEF LogGood
    <3>4. /\ \A e \in Exchanges : LogNames(e)'
          /\ Running' => Existing' \subseteq LogQueues'
      <4>1. ASSUME NEW q \in Queues, NEW ok \in BOOLEAN, DeleteBegin(q, ok)
            PROVE  (\A e \in Exchanges : LogNames(e)') /\ Existing' \subseteq LogQueues'
        <5>1. ok = TRUE
          BY ZenonT(30), <4>1, OrderlyAppends DEF DeleteBegin
        <5> QED
          BY ZenonT(30), <2>0, <4>1, <5>1, <1>BeginGood
      <4>2. ASSUME NEW d \in Exchanges, NEW ok \in BOOLEAN, DeleteUnbind(d, ok)
            PROVE  (\A e \in Exchanges : LogNames(e)') /\ Existing' \subseteq LogQueues'
        <5>1. ok = TRUE
          BY ZenonT(30), <4>2, OrderlyAppends DEF DeleteUnbind
        <5> QED
          BY ZenonT(30), <2>0, <4>2, <5>1, <1>UnbindGood
      <4>3. ASSUME \A q \in Queues, ok \in BOOLEAN : ~DeleteBegin(q, ok),
                   \A d \in Exchanges, ok \in BOOLEAN : ~DeleteUnbind(d, ok)
            PROVE  (\A e \in Exchanges : LogNames(e)') /\ (Running' => Existing' \subseteq LogQueues')
        <5>1. disk.queues \subseteq disk'.queues /\ Existing' \subseteq Existing \cup disk'.queues
          BY ZenonT(30), <2>3, <4>3, QueueMove
        <5>2. LogQueues \subseteq LogQueues' /\ Existing' \subseteq Existing \cup LogQueues'
          BY ZenonT(30), <5>1 DEF LogQueues
        <5>3. Running' => Running
          BY ZenonT(30), <2>3, BootFlow DEF Running
        <5>4. UNCHANGED deletion
          <6>1. ASSUME NEW ok \in BOOLEAN, BootBind(ok) \/ BootReady(ok) PROVE UNCHANGED deletion
            BY ZenonT(30), <6>1 DEF BootBind, BootReady
          <6>2. ASSUME NEW d \in Exchanges, NEW ok \in BOOLEAN, BootExchange(d, ok) PROVE UNCHANGED deletion
            BY ZenonT(30), <6>2 DEF BootExchange
          <6>3. BootUnreadable \/ BootRefused => UNCHANGED deletion
            BY ZenonT(30) DEF BootUnreadable, BootRefused
          <6> QED
            BY ZenonT(30), <2>3, <4>3, <6>1, <6>2, <6>3, BootKinds
        <5>5. ASSUME NEW e \in Exchanges PROVE LogNames(e)'
          <6>1. LogNames(e)
            BY ZenonT(30), <2>0 DEF LogGood
          <6> QED
            BY ZenonT(30), <3>2, <5>2, <5>4, <6>1 DEF LogNames
        <5>6. Running => Existing \subseteq LogQueues
          BY ZenonT(30), <2>0 DEF LogGood
        <5> QED
          BY ZenonT(30), <5>2, <5>3, <5>5, <5>6
      <4> QED
        BY ZenonT(30), <4>1, <4>2, <4>3
    <3> QED
      BY ZenonT(30), <3>1, <3>2, <3>3, <3>4 DEF LogGood
  <2> QED
    BY ZenonT(30), <2>1, <2>2, <2>3
<1>1. Init => LogGood
  <2> SUFFICES ASSUME Init PROVE LogGood
    BY ZenonT(30)
  <2>1. Members(<<>>) = {} /\ Distinct(<<>>)
    <3>1. <<>> \in Seq(Binding)
      OBVIOUS
    <3> QED
      BY ZenonT(30), <3>1, MembersEmpty
  <2>2. boot = "down" /\ \A e \in Exchanges : disk.bindings[e] = <<>>
    BY ZenonT(30) DEF Init, NoBindings
  <2> QED
    BY ZenonT(30), <2>1, <2>2 DEF LogGood, LogNames, Running
<1>2. Typed /\ Sound /\ (Orderly => LogGood) /\ [Next]_vars => (Orderly => LogGood)'
  BY ZenonT(30), <1>LogGoodStep
<1> QED
  BY <1>1, <1>2, TypedInvariant, SoundInvariant, PTL DEF Spec

\* NewBroker refuses nothing that Load returns, however many crashes fall into
\* whatever the broker was doing, NewBroker included, and whichever appends fail,
\* unless DeleteQueue or UnbindQueue was once cut short: ErrQueueNotFound and
\* ErrBindingAlreadyExist cannot happen.  Its other errors are those of Load on a
\* torn record and of an append.
THEOREM RestartsSucceed == Spec => []BootsCleanly
<1>1. Typed /\ ErrorsCaused /\ (Orderly => LogGood) => BootsCleanly
  <2>1. Typed /\ faults # 0 => faults > 0
    BY DEF Typed, LogType
  <2>2. (Orderly => LogGood) => (boot = "refused" => cutShort \cap {"delete", "unbind"} # {})
    BY ZenonT(30) DEF LogGood, Orderly
  <2> QED
    BY ZenonT(30), <2>1, <2>2 DEF BootsCleanly, ErrorsCaused
<1> QED
  BY <1>1, TypedInvariant, ErrorsInvariant, LogGoodInvariant, PTL

-----------------------------------------------------------------------------
(* Bindings survive restarts. *)

\* Where the bindings of e are: in the log, on their way through NewBroker, or in
\* the table.
Where(e) ==
  IF boot \in {"down", "unreadable"} THEN Members(disk.bindings[e])
  ELSE IF boot = "exchanges"
  THEN Members(plan[e].list) \cup Members(bindings[e]) \cup (IF e = at THEN Members(rest) ELSE {})
  ELSE Members(bindings[e])

\* The binding that a confirmed call of BindQueue made.
BindingOf(x) == [queue |-> x[3], key |-> x[2]]

\* No append has failed and no crash has cut anything short.
Calm == faults = 0 /\ cutShort = {}

\* Every confirmed binding of a named exchange is somewhere.
NamedKept == Calm => \A x \in bound : x[1] # DefaultExchange => BindingOf(x) \in Where(x[1])

\* No binding that still counts is one of the queue that DeleteQueue is removing.
BoundKept == \A x \in bound : x[3] # deleting

\* A binding that BindQueue confirmed, to an exchange other than the default one,
\* is found by Publish after any number of restarts, unless UnbindQueue or
\* DeleteQueue took it away, an append failed, or a crash fell into NewBroker or
\* into DeleteQueue.
THEOREM NamedBindingsSurvive == Spec => []NamedBindingsKept
\* What a confirmed binding is, and how one becomes confirmed.
<1>BoundBy.
      ASSUME Typed, [Next]_vars, NEW x \in bound'
      PROVE  /\ x[1] \in Exchanges /\ x[2] \in Keys /\ x[3] \in Queues
             /\ x \in bound \/ BindQueue(x[1], x[3], x[2], TRUE)
  <2> USE <1>BoundBy
  <2>1. CASE bound' \subseteq bound
    BY ZenonT(30), <2>1 DEF Typed, HistType
  <2>2. ASSUME NEW e \in Exchanges, NEW q \in Queues, NEW key \in Keys, NEW ok \in BOOLEAN, BindQueue(e, q, key, ok)
        PROVE  /\ x[1] \in Exchanges /\ x[2] \in Keys /\ x[3] \in Queues
               /\ x \in bound \/ BindQueue(x[1], x[3], x[2], TRUE)
    <3>1. bound' = bound \/ (ok = TRUE /\ bound' = bound \cup {<<e, key, q>>})
      BY ZenonT(30), <2>2 DEF BindQueue
    <3>2. CASE x \in bound
      BY ZenonT(30), <3>2 DEF Typed, HistType
    <3>3. CASE x \notin bound
      <4>1. ok = TRUE /\ x = <<e, key, q>>
        BY ZenonT(30), <3>1, <3>3
      <4> QED
        BY ZenonT(30), <2>2, <4>1
    <3> QED
      BY ZenonT(30), <3>2, <3>3
  <2>3. ASSUME NEW e \in Exchanges, NEW q \in Queues, NEW key, NEW ok \in BOOLEAN, UnbindQueue(e, q, key, ok)
        PROVE  bound' \subseteq bound
    BY ZenonT(30), <2>3 DEF UnbindQueue
  <2>4. ASSUME NEW q \in Queues, NEW ok \in BOOLEAN, DeleteBegin(q, ok) PROVE bound' \subseteq bound
    BY ZenonT(30), <2>4 DEF DeleteBegin
  <2>5. ASSUME NEW m \in Msgs, NEW ok \in BOOLEAN, PublishStore(m, ok) PROVE bound' \subseteq bound
    BY ZenonT(30), <2>5 DEF PublishStore
  <2>6. ASSUME NEW q \in Queues, NEW ok \in BOOLEAN, NEW c \in pending[q], Consume(q, c, ok)
        PROVE  bound' \subseteq bound
    BY ZenonT(30), <2>6 DEF Consume
  <2>7. Crash \/ UNCHANGED hist => bound' \subseteq bound
    BY ZenonT(30) DEF Crash
  <2>8. ASSUME NEW e \in Exchanges, NEW ok \in BOOLEAN, DeleteUnbind(e, ok) PROVE bound' \subseteq bound
    BY ZenonT(30), <2>8 DEF DeleteUnbind
  <2> QED
    BY ZenonT(30), <2>1, <2>2, <2>3, <2>4, <2>5, <2>6, <2>7, <2>8, HistKinds
<1>BoundKeptStep.
      ASSUME Typed, BoundKept, [Next]_vars
      PROVE  BoundKept'
  <2> USE <1>BoundKeptStep
  <2> SUFFICES ASSUME NEW x \in bound' PROVE x[3] # deleting'
    BY ZenonT(30) DEF BoundKept
  <2>0. x[3] \in Queues /\ NoQueue \notin Queues
    BY ZenonT(30), <1>BoundBy, NameAssumption
  <2>1. CASE x \notin bound
    <3>1. BindQueue(x[1], x[3], x[2], TRUE)
      BY ZenonT(30), <2>1, <1>BoundBy
    <3>2. deleting' = NoQueue
      BY ZenonT(30), <3>1 DEF BindQueue, Free
    <3> QED
      BY ZenonT(30), <2>0, <3>2
  <2>2. CASE x \in bound
    <3>0. x[3] # deleting
      BY ZenonT(30), <2>2 DEF BoundKept
    <3>1. ASSUME NEW q \in Queues, NEW ok \in BOOLEAN, DeleteBegin(q, ok) PROVE x[3] # deleting'
      BY ZenonT(30), <2>0, <3>1 DEF DeleteBegin
    <3>2. ASSUME NEW e \in Exchanges, NEW ok \in BOOLEAN, DeleteUnbind(e, ok) PROVE deleting' \in {deleting, NoQueue}
      BY ZenonT(30), <3>2 DEF DeleteUnbind
    <3>3. ASSUME NEW e \in Exchanges, NEW ok \in BOOLEAN, BootExchange(e, ok) PROVE deleting' = deleting
      BY ZenonT(30), <3>3 DEF BootExchange
    <3>4. ASSUME NEW ok \in BOOLEAN, BootBind(ok) \/ BootReady(ok) PROVE deleting' = deleting
      BY ZenonT(30), <3>4 DEF BootBind, BootReady
    <3>5. BootLoad \/ BootUnreadable \/ BootRefused => deleting' = deleting
      BY ZenonT(30) DEF BootLoad, BootUnreadable, BootRefused
    <3>6. Crash => deleting' = NoQueue
      BY ZenonT(30) DEF Crash
    <3> QED
      BY ZenonT(30), <2>0, <3>0, <3>1, <3>2, <3>3, <3>4, <3>5, <3>6, BootKinds
  <2> QED
    BY ZenonT(30), <2>1, <2>2
\* A binding leaves a table in UnbindQueue or in DeleteQueue, which it names.
<1>GoneBy.
      ASSUME Typed, Sound, [Next]_vars, boot = "up", boot' = "up", NEW e \in Exchanges,
             NEW b \in Members(bindings[e]), b \notin Members(bindings'[e])
      PROVE  \/ \E q \in Queues, key \in Keys \cup {NoKey}, ok \in BOOLEAN :
                  UnbindQueue(e, q, key, ok) /\ Selected(b, key, q)
             \/ \E ok \in BOOLEAN : DeleteUnbind(e, ok) /\ b.queue = deleting
  <2> USE <1>GoneBy
  <2>0. DOMAIN bindings = Exchanges /\ bindings[e] \in Seq(Binding) /\ bindings'[e] # bindings[e]
    BY ZenonT(30) DEF Typed, TableType
  <2>1. ~BootLoad /\ ~Crash /\ \A ok : ~BootBind(ok) /\ ~BootReady(ok)
    BY ZenonT(30) DEF BootLoad, Crash, BootBind, BootReady
  <2>2. ASSUME NEW d \in Exchanges, NEW ok \in BOOLEAN PROVE ~BootExchange(d, ok) /\ ~DeleteExchange(d, ok)
    <3>1. ASSUME DeleteExchange(d, ok) PROVE bindings'[e] = bindings[e]
      BY ZenonT(30), <2>0, <3>1 DEF DeleteExchange, MayDeleteExchange
    <3> QED
      BY ZenonT(30), <2>0, <3>1 DEF BootExchange
  <2>3. ASSUME NEW d \in Exchanges, NEW ok \in BOOLEAN, NEW t PROVE ~CreateExchange(d, t, ok)
    BY ZenonT(30), <2>0 DEF CreateExchange
  <2>4. ASSUME NEW d \in Exchanges, NEW ok \in BOOLEAN, NEW q \in Queues, NEW key \in Keys
        PROVE  ~BindQueue(d, q, key, ok)
    <3> SUFFICES ASSUME BindQueue(d, q, key, ok) PROVE FALSE
      BY ZenonT(30)
    <3>1. bindings' = [bindings EXCEPT ![d] = Bind(@, key, q)]
      BY ZenonT(30) DEF BindQueue
    <3>2. d = e /\ bindings'[e] = Bind(bindings[e], key, q)
      BY ZenonT(30), <2>0, <3>1
    <3>3. Members(Bind(bindings[e], key, q)) = Members(bindings[e]) \cup {[queue |-> q, key |-> key]}
      BY ZenonT(30), <2>0, BindList
    <3>4. Members(bindings[e]) \subseteq Members(bindings'[e])
      BY ZenonT(30), <3>2, <3>3
    <3> QED
      BY ZenonT(30), <3>4
  <2>5. ASSUME NEW d \in Exchanges, NEW ok \in BOOLEAN, NEW q \in Queues, NEW key \in Keys \cup {NoKey},
               UnbindQueue(d, q, key, ok)
        PROVE  d = e /\ Selected(b, key, q)
    <3>1. bindings' = [bindings EXCEPT ![d] = Unbind(@, key, q)]
      BY ZenonT(30), <2>5 DEF UnbindQueue
    <3>2. d = e /\ bindings'[e] = Unbind(bindings[e], key, q)
      BY ZenonT(30), <2>0, <3>1
    <3>3. Members(Unbind(bindings[e], key, q)) = {a \in Members(bindings[e]) : ~Selected(a, key, q)}
      BY ZenonT(30), <2>0, UnbindList
    <3> QED
      BY ZenonT(30), <3>2, <3>3
  <2>6. ASSUME NEW d \in Exchanges, NEW ok \in BOOLEAN, DeleteUnbind(d, ok)
        PROVE  d = e /\ b.queue = deleting
    <3>1. bindings' = [bindings EXCEPT ![d] = Unbind(@, NoKey, deleting)]
      BY ZenonT(30), <2>0, <2>6 DEF DeleteUnbind
    <3>2. d = e /\ bindings'[e] = Unbind(bindings[e], NoKey, deleting)
      BY ZenonT(30), <2>0, <3>1
    <3>3. Selected(b, NoKey, deleting)
      BY <2>0, <3>2, UnbindList
    <3> QED
      BY ZenonT(30), <3>2, <3>3 DEF Selected
  <2> QED
    BY ZenonT(30), <2>0, <2>1, <2>2, <2>3, <2>4, <2>5, <2>6, TableKinds
\* NewBroker ends with BootReady.
<1>ReadyStep.
      ASSUME [Next]_vars, boot = "exchanges", boot' = "up"
      PROVE  \E ok \in BOOLEAN : BootReady(ok)
  <2> USE <1>ReadyStep
  <2>1. ~UNCHANGED <<booting, deletion>> /\ ~BootLoad /\ ~BootUnreadable /\ ~BootRefused /\ ~Crash
    BY ZenonT(30) DEF BootLoad, BootUnreadable, BootRefused, Crash
  <2>2. \A e \in Exchanges, ok \in BOOLEAN : ~BootExchange(e, ok) /\ ~DeleteUnbind(e, ok)
    BY ZenonT(30) DEF BootExchange, DeleteUnbind
  <2>3. \A q \in Queues, ok \in BOOLEAN : ~DeleteBegin(q, ok)
    BY ZenonT(30) DEF DeleteBegin
  <2>4. \A ok \in BOOLEAN : ~BootBind(ok)
    BY ZenonT(30) DEF BootBind
  <2> QED
    BY ZenonT(30), <2>1, <2>2, <2>3, <2>4, BootKinds
\* A confirmed binding of a named exchange stays where NewBroker or Publish finds it.
<1>NamedKeptStep.
      ASSUME Typed, Sound, TableMatch, Orderly => LogGood, ErrorsCaused, BoundKept, NamedKept, [Next]_vars
      PROVE  NamedKept'
  <2> USE <1>NamedKeptStep
  <2> SUFFICES ASSUME Calm', NEW x \in bound', x[1] # DefaultExchange PROVE BindingOf(x) \in Where(x[1])'
    BY ZenonT(30) DEF NamedKept
  <2> DEFINE e == x[1]
             b == BindingOf(x)
  <2>0. /\ e \in Exchanges /\ x[2] \in Keys /\ x[3] \in Queues
        /\ bindings \in [Exchanges -> Seq(Binding)] /\ DOMAIN plan = Exchanges
    BY ZenonT(30), <1>BoundBy DEF Typed, TableType, BootType
  <2>1. Calm /\ faults' = 0 /\ LogGood /\ boot \in {"down", "unreadable", "exchanges", "up"}
    <3>1. faults' = 0 /\ faults = 0 /\ cutShort = {}
      BY ZenonT(30), CutShortGrows, LogWorsens DEF Calm, Worsens
    <3>2. LogGood
      BY ZenonT(30), <3>1 DEF Orderly
    <3>3. boot \in {"down", "unreadable", "exchanges", "up"}
      BY ZenonT(30), <3>1, <3>2 DEF LogGood, ErrorsCaused, Typed, BootType
    <3> QED
      BY ZenonT(30), <3>1, <3>2, <3>3 DEF Calm
  <2>2. CASE x \notin bound
    <3>1. BindQueue(x[1], x[3], x[2], TRUE)
      BY ZenonT(30), <2>2, <1>BoundBy
    <3>2. bindings'[e] = Bind(bindings[e], x[2], x[3]) /\ boot' = "up"
      BY ZenonT(30), <2>0, <3>1 DEF BindQueue, Free
    <3>3. b \in Members(Bind(bindings[e], x[2], x[3]))
      BY <2>0, BindList DEF BindingOf
    <3> QED
      BY ZenonT(30), <3>2, <3>3 DEF Where
  <2>3. CASE x \in bound
    <3>0. b \in Where(e) /\ x[3] # deleting
      BY ZenonT(30), <2>1, <2>3 DEF NamedKept, BoundKept
    <3> SUFFICES b \in Where(e)'
      BY ZenonT(30)
    <3> HIDE DEF e, b
    <3>1. CASE Crash
      <4>1. boot # "exchanges" /\ boot' = "down" /\ disk' = disk
        BY ZenonT(30), <3>1 DEF Crash, Calm
      <4>2. CASE boot \in {"down", "unreadable"}
        BY ZenonT(30), <3>0, <4>1, <4>2 DEF Where
      <4>3. CASE boot = "up"
        <5>1. MatchedAt(e)
          BY ZenonT(30), <2>0, <2>1, <4>3 DEF TableMatch, Loaded, Calm, e
        <5>2. disk.bindings[e] = bindings[e]
          BY ZenonT(30), <4>3, <5>1 DEF MatchedAt, Planned
        <5> QED
          BY ZenonT(30), <3>0, <4>1, <4>3, <5>2 DEF Where
      <4> QED
        BY ZenonT(30), <2>1, <4>1, <4>2, <4>3
    <3>2. CASE boot \in {"down", "unreadable"} /\ ~Crash
      <4>1. CASE BootLoad
        <5>1. boot' = "exchanges" /\ plan'[e].list = disk.bindings[e]
          BY ZenonT(30), <2>0, <4>1 DEF BootLoad
        <5> QED
          BY ZenonT(30), <3>0, <3>2, <5>1 DEF Where
      <4>2. CASE ~BootLoad
        <5>1. boot' \in {"down", "unreadable"} /\ disk'.bindings = disk.bindings
          BY ZenonT(30), <3>2, <4>2, StaysDown, LogQuiet DEF SameTables
        <5> QED
          BY ZenonT(30), <3>0, <3>2, <5>1 DEF Where
      <4> QED
        BY ZenonT(30), <4>1, <4>2
    <3>3. CASE boot = "exchanges" /\ ~Crash
      <4>0. b \in Members(plan[e].list) \/ b \in Members(bindings[e]) \/ (e = at /\ b \in Members(rest))
        BY ZenonT(30), <3>0, <3>3 DEF Where
      <4>1. boot' \in {"exchanges", "up"}
        <5>1. boot' # "failed" /\ boot' # "refused"
          BY ZenonT(30), <2>1, <3>3, NeverFails, NeverRefused
        <5> QED
          BY ZenonT(30), <3>3, <5>1, BootFlow DEF BootLoad
      <4>2. CASE boot' = "up"
        <5>1. PICK ok \in BOOLEAN : BootReady(ok)
          BY ZenonT(30), <3>3, <4>2, <1>ReadyStep
        <5>2. rest = <<>> /\ plan[e].type = "none" /\ bindings'[e] = bindings[e]
          BY ZenonT(30), <2>0, <5>1 DEF BootReady, e
        <5>3. plan[e].list = <<>>
          BY ZenonT(30), <2>0, <3>3, <5>2 DEF Sound, BootSound
        <5>4. Members(<<>>) = {}
          BY ZenonT(30), <2>0, MembersEmpty
        <5> QED
          BY ZenonT(30), <4>0, <4>2, <5>2, <5>3, <5>4 DEF Where
      <4>3. CASE boot' = "exchanges"
        <5>1. CASE UNCHANGED <<exchanges, bindings, booting, deletion>>
          BY ZenonT(30), <4>0, <4>3, <5>1 DEF Where
        <5>2. CASE BootBind(TRUE)
          <6> DEFINE h == Head(rest)
          <6>1. /\ rest # <<>> /\ plan' = plan /\ at' = at /\ rest' = Tail(rest)
                /\ bindings' = [bindings EXCEPT ![at] = Bind(@, h.key, h.queue)]
            BY ZenonT(30), <5>2 DEF BootBind
          <6>2. /\ at \in Exchanges /\ h.key \in Keys /\ h.queue \in Queues
                /\ h = [queue |-> h.queue, key |-> h.key] /\ Members(rest) = {h} \cup Members(Tail(rest))
            BY ZenonT(30), <6>1, RestHead
          <6> HIDE DEF h
          <6>3. Members(Bind(bindings[at], h.key, h.queue)) = Members(bindings[at]) \cup {h}
            BY <2>0, <6>2, BindList
          <6>4. bindings'[at] = Bind(bindings[at], h.key, h.queue) /\ (e # at => bindings'[e] = bindings[e])
            BY ZenonT(30), <2>0, <6>1, <6>2
          <6> QED
            BY ZenonT(30), <4>0, <4>3, <6>1, <6>2, <6>3, <6>4 DEF Where
        <5>3. ASSUME NEW d \in Exchanges, BootExchange(d, TRUE) PROVE b \in Where(e)'
          <6>1. /\ rest = <<>> /\ at' = d /\ rest' = plan[d].list /\ bindings' = bindings
                /\ \A c \in Exchanges : c # d => plan'[c] = plan[c]
            BY ZenonT(30), <2>0, <5>3 DEF BootExchange
          <6>2. Members(<<>>) = {}
            BY ZenonT(30), <2>0, MembersEmpty
          <6> QED
            BY ZenonT(30), <2>0, <4>0, <4>3, <6>1, <6>2 DEF Where
        <5> QED
          BY ZenonT(30), <3>3, <4>3, <5>1, <5>2, <5>3, BootStep DEF Sound, BootLoad
      <4> QED
        BY ZenonT(30), <4>1, <4>2, <4>3
    <3>4. CASE boot = "up" /\ ~Crash
      <4>0. boot' = "up" /\ b \in Members(bindings[e])
        BY ZenonT(30), <3>0, <3>4, StaysUp DEF Where
      <4>1. b \in Members(bindings'[e])
        <5> SUFFICES ASSUME b \notin Members(bindings'[e]) PROVE FALSE
          BY ZenonT(30)
        <5>1. b.queue = x[3] /\ b.key = x[2]
          BY ZenonT(30) DEF b, BindingOf
        <5>2. ASSUME NEW q \in Queues, NEW key \in Keys \cup {NoKey}, NEW ok \in BOOLEAN,
                     UnbindQueue(e, q, key, ok), Selected(b, key, q)
              PROVE  FALSE
          BY ZenonT(30), <5>1, <5>2 DEF UnbindQueue, Selected, e
        <5>3. ASSUME b.queue = deleting PROVE FALSE
          BY ZenonT(30), <3>0, <5>1, <5>3
        <5> QED
          BY ZenonT(30), <2>0, <3>4, <4>0, <5>2, <5>3, <1>GoneBy
      <4> QED
        BY ZenonT(30), <4>0, <4>1 DEF Where
    <3> QED
      BY ZenonT(30), <2>1, <3>1, <3>2, <3>3, <3>4
  <2> QED
    BY ZenonT(30), <2>2, <2>3
<1>1. Init => NamedKept /\ BoundKept
  BY ZenonT(30) DEF Init, NamedKept, BoundKept
<1>2. Typed /\ Sound /\ TableMatch /\ (Orderly => LogGood) /\ ErrorsCaused /\ NamedKept /\ BoundKept /\ [Next]_vars
        => (NamedKept /\ BoundKept)'
  BY ZenonT(30), <1>NamedKeptStep, <1>BoundKeptStep
<1>3. ASSUME Typed, NamedKept PROVE NamedBindingsKept
  <2> SUFFICES ASSUME boot = "up", faults = 0, cutShort = {}, NEW x \in bound, x[1] # DefaultExchange
               PROVE  HasBinding(bindings[x[1]], x[2], x[3])
    BY ZenonT(30) DEF NamedBindingsKept
  <2>1. x[1] \in Exchanges /\ x[2] \in Keys /\ bindings[x[1]] \in Seq(Binding)
    BY ZenonT(30), <1>3 DEF Typed, HistType, TableType
  <2>2. BindingOf(x) \in Members(bindings[x[1]])
    BY ZenonT(30), <1>3 DEF NamedKept, Calm, Where
  <2> QED
    BY ZenonT(30), <2>1, <2>2, HasMember DEF BindingOf
<1> QED
  BY <1>1, <1>2, <1>3, TypedInvariant, SoundInvariant, MatchInvariant, LogGoodInvariant,
     ErrorsInvariant, PTL DEF Spec
=============================================================================
