CONSTANTS
    MaxClients = 2
    QueueSize = 1
    BufSize = 2
    Duplex = TRUE
    Conns = {c1, c2}
    MaxFd = 3
    MaxInbox = 2
    MaxBroadcasts = 3
    Faults = {"short", "addrlen", "sigpipe"}
    Stdin = Stdin
    Closed = Closed
SYMMETRY ConnSymmetry
SPECIFICATION SafetySpec
INVARIANTS SlotTableUncast GapFree CallbacksBracketed
PROPERTIES NothingAfterShort
