SPECIFICATION Spec
CONSTANTS
  m1 = m1
  m2 = m2
  m3 = m3
  c1 = c1
  c2 = c2
  s1 = s1
  s2 = s2
  s3 = s3
  NoId = NoId
  NoConsumer = NoConsumer
  NoSession = NoSession
  ZeroMessage <- MCZeroMessage
  Msgs = {m1, m2}
  TTLMsgs = {m1}
  Consumers = {c1}
  Sessions = {s1, s2}
  ConsumerOf <- SameConsumer
  QueueSize = 2
  MaxRetries = 1
  ConsumerPrefetch = 1
  DeliveriesCap = 1
  MaxTokens = 2
  MaxOverdue = 2
  MaxWalFaults = 1
  MaxCrashes = 1
  Leavers = {s1}
  MayClose = FALSE
CHECK_DEADLOCK FALSE
INVARIANT TypeOK
INVARIANT PrefetchAccounting
INVARIANT PrefetchBound
INVARIANT LogKeepsAccepted
INVARIANT LogMatchesMemory
INVARIANT QueueInLogOrder
