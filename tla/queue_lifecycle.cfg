SPECIFICATION FairSpec
CONSTANTS
  m1 = m1
  m2 = m2
  m3 = m3
  c1 = c1
  c2 = c2
  s1 = s1
  s2 = s2
  s3 = s3
  NoId = NoId
  NoConsumer = NoConsumer
  NoSession = NoSession
  ZeroMessage <- MCZeroMessage
  Msgs = {m1, m2}
  TTLMsgs = {m1}
  Consumers = {c1}
  Sessions = {s1}
  ConsumerOf <- OneSession
  QueueSize = 1
  MaxRetries = 1
  ConsumerPrefetch = 1
  DeliveriesCap = 1
  MaxTokens = 1
  MaxOverdue = 1
  MaxWalFaults = 0
  MaxCrashes = 0
  Leavers = {s1}
  MayClose = TRUE
CHECK_DEADLOCK FALSE
INVARIANT WakeupsCover
PROPERTY ShutdownCompletes
PROPERTY OverdueHandled
PROPERTY ExpiredHeadCleared
