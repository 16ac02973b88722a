SPECIFICATION FairSpec
CONSTANTS
  a1 = a1
  a2 = a2
  a3 = a3
  k1 = k1
  k2 = k2
  Calls = {a1, a2, a3}
  Closers = {k1, k2}
  NoCall = NoCall
  Free = Free
  MaxFaults = 1
  MaxRestarts = 2
INVARIANTS
  NoSendAfterClose
  ConfirmedIsDurable
  CloseDrains
PROPERTIES
  ImplementsRecordLog
  CallsReturn
CHECK_DEADLOCK FALSE
