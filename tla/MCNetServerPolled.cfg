CONSTANTS
    MaxClients = 1
    QueueSize = 1
    BufSize = 2
    Duplex = TRUE
    Conns = {c1}
    MaxFd = 2
    MaxInbox = 1
    MaxBroadcasts = 2
    Faults = {}
    Stdin = Stdin
    Closed = Closed
SPECIFICATION SafetySpec
INVARIANT ClosedNeverPolled
