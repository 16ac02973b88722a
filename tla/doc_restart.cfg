SPECIFICATION Spec
CONSTANTS
  Star = "*"
  Hash = "#"
  NoKey <- AnyKey
  dq = dq
  q1 = q1
  de = de
  e1 = e1
  m1 = m1
  m2 = m2
  NoQueue = NoQueue
  Queues = {dq, q1}
  DefaultQueue = dq
  Exchanges = {de, e1}
  DefaultExchange = de
  Keys <- OneKey
  DefaultKey <- KeyA
  RoutingKeys <- OneKey
  Msgs = {}
  Kinds = {"direct"}
  Deletable = {q1}
  Bindable = {de, e1}
  MaxFaults = 0
  MaxCrashes = 1
CHECK_DEADLOCK FALSE
INVARIANT RestartSucceeds
