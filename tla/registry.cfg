SPECIFICATION Spec
CONSTANTS
  Star = "*"
  Hash = "#"
  NoKey <- AnyKey
  dq = dq
  q1 = q1
  de = de
  e1 = e1
  m1 = m1
  m2 = m2
  NoQueue = NoQueue
  Queues = {dq, q1}
  DefaultQueue = dq
  Exchanges = {de, e1}
  DefaultExchange = de
  Keys <- OneKey
  DefaultKey <- KeyA
  RoutingKeys <- OneKey
  Msgs = {m1}
  Kinds = {"fanout"}
  Deletable = {q1}
  Bindable = {e1}
  MaxFaults = 1
  MaxCrashes = 2
CHECK_DEADLOCK FALSE
INVARIANT TypeOK
INVARIANT LogMatchesRegistry
INVARIANT NoDanglingBinding
INVARIANT BootsCleanly
INVARIANT NamedBindingsKept
INVARIANT CopiesKept
INVARIANT PublishComplete
