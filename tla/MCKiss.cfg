CONSTANTS
    BufferSize = 3
    Clients = {c1}
    MaxData = 3
    DataBytes = {192, 219, 220, 221, 7}
    Noise = {192, 219, 220, 9}
    Messages <- MCMessages
    Split = TRUE
    Nobody = Nobody
    NoFrame = NoFrame
SPECIFICATION Spec
INVARIANTS TypeOK FrameIntact Resynchronised KissInv
