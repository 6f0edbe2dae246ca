CONSTANTS
    MaxClients = 2
    QueueSize = 1
    BufSize = 2
    Duplex = FALSE
    Conns = {c1, c2, c3}
    MaxFd = 3
    MaxInbox = 0
    MaxBroadcasts = 2
    Faults = {"short"}
    Stdin = Stdin
    Closed = Closed
SPECIFICATION Spec
INVARIANTS TypeOK SlotTable ServerRuns
PROPERTIES BroadcastReturns ClientServed
