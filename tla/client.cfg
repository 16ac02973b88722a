CONSTANTS
    p1 = p1  c1 = c1
    NoConn = NoConn
    Producers = {p1}
    Consumers = {c1}
    ProducerTypes = {"publish", "metrics", "queue", "exchange", "foreign", "unknown", "malformed"}
    MaxCalls = 3
    Interruptions = {"timeout", "stall", "cancel", "close"}
    MaxDials = 1
    Capacity = 3
    Recovered = 2
    MaxDeliveries = 2
    MaySignal = FALSE
SPECIFICATION FairSpec
INVARIANTS PairedResponses OkIsStored QuietAfterUnsubscribe ReceivedInOrder
PROPERTIES ClosedIsUnregistered
CHECK_DEADLOCK FALSE
