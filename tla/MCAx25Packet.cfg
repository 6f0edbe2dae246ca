CONSTANTS
    HS_AX25_MAX_CALLSIGN_LEN = 2
    HS_AX25_MAX_REPEATER_COUNT = 2
    HS_AX25_MAX_INFO_LEN = 15
    RxLimit = 15
    Packets <- MCPackets
    Stales <- MCStales
    Fragile <- MCFragile
    MaxFlips = 3
    MaxHops = 2
SPECIFICATION Spec
INVARIANTS TypeOK PacketSurvives DamageDetected FcsIsRemainder AddressReadBack
CHECK_DEADLOCK FALSE
