CONSTANTS
    Packets <- MCPackets
    BufferBits = 88
    RxLimit = 3
    MinPacketLen = 2
    BaudRate = 100
    Delays = {56}
    GarbageOnes = {0, 5, 255}
    Garbage <- MCGarbage
    MaxNoise = 2
    MaxErrors = 1
    NoPacket = NoPacket
SPECIFICATION Spec
INVARIANTS TypeOK PacketsIntact
