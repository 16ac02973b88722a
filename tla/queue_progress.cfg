SPECIFICATION AckingSpec
CONSTANTS
  m1 = m1
  m2 = m2
  m3 = m3
  c1 = c1
  c2 = c2
  s1 = s1
  s2 = s2
  s3 = s3
  NoId = NoId
  NoConsumer = NoConsumer
  NoSession = NoSession
  ZeroMessage <- MCZeroMessage
  Msgs = {m1, m2}
  TTLMsgs = {}
  Consumers = {c1}
  Sessions = {s1, s2}
  ConsumerOf <- SameConsumer
  QueueSize = 1
  MaxRetries = 1
  ConsumerPrefetch = 1
  DeliveriesCap = 2
  MaxTokens = 4
  MaxOverdue = 3
  MaxWalFaults = 0
  MaxCrashes = 0
  Leavers = {s1}
  MayClose = FALSE
CHECK_DEADLOCK FALSE
PROPERTY PublishersReturn
PROPERTY AllSettled
