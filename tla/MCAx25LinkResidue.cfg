CONSTANTS
    Packets <- MCPackets
    BufferBits = 88
    RxLimit = 3
    MinPacketLen = 2
    BaudRate = 100
    Delays = {56}
    GarbageOnes = {0}
    Garbage = {}
    MaxNoise = 2
    MaxErrors = 0
    NoPacket = NoPacket
SPECIFICATION Spec
INVARIANT BitBufferReset
