CONSTANTS
    p1 = p1  c1 = c1
    NoConn = NoConn
    Producers = {p1}
    Consumers = {c1}
    ProducerTypes = {"publish"}
    MaxCalls = 1
    Interruptions = {}
    MaxDials = 2
    Capacity = 1
    Recovered = 1
    MaxDeliveries = 1
    MaySignal = TRUE
SPECIFICATION FairSpec
INVARIANTS NoConnectionLeft LogClosedLast SessionsServed
PROPERTIES ShutdownEnds
CHECK_DEADLOCK FALSE
